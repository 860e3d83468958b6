---------------------------- MODULE Constitution ----------------------------
(***************************************************************************)
(* What the constitution computes, as functions: the versions of an        *)
(* objective's specification (constitution/lifecycle.py), the weight of    *)
(* evidence (constitution/evidence.py) and conditional capabilities        *)
(* (constitution/capability.py).                                           *)
(***************************************************************************)
EXTENDS Naturals, Sequences, SequencesExt

-----------------------------------------------------------------------------
(* Specifications: an untrusted interpretation is qualified against the    *)
(* clauses of the intent, and an authorized principal may revise what was  *)
(* qualified.  An intent is a record [empty, short, clauses]: short is "at *)
(* most five characters", clauses the sequence its tokenizer finds.  An    *)
(* interpretation has clauses (<<>> when none are proposed) and a sequence *)
(* of proposals [id, clause, near, blocking]: clause is the clause it      *)
(* claims, near the clauses whose text contains, or is contained in, its   *)
(* description.                                                            *)

\* A blank intent is rejected.
EmptySpecification ==
  [version |-> 1, blank |-> TRUE, requirements |-> <<>>, status |-> "REJECTED"]

Clauses(intent, interpretation) ==
  IF interpretation.clauses = <<>> THEN intent.clauses ELSE interpretation.clauses

\* The first clause a proposal matches, if any.
Matches(proposal, clauses) ==
  SelectSeq(clauses, LAMBDA c : c = proposal.clause \/ c \in proposal.near)
Covered(interpretation, clauses) ==
  {Head(Matches(p, clauses)) :
     p \in {q \in ToSet(interpretation.proposals) : Matches(q, clauses) # <<>>}}

CanonicalRequirements(interpretation, clauses) ==
  [k \in DOMAIN interpretation.proposals |->
     LET p == interpretation.proposals[k] IN
     [id |-> p.id, blocking |-> p.blocking,
      origin |-> IF Matches(p, clauses) = <<>> THEN "ASSUMED" ELSE "SOURCE_EXPLICIT"]]

\* Without requirements, or with a clause that no requirement covers, there is too little.
Qualification(intent, interpretation) ==
  LET clauses == Clauses(intent, interpretation) IN
  IF interpretation.proposals = <<>> /\ ~intent.short THEN "INSUFFICIENT_INFORMATION"
  ELSE IF ToSet(clauses) \subseteq Covered(interpretation, clauses) THEN "QUALIFIED"
  ELSE "INSUFFICIENT_INFORMATION"

\* Every qualification is version 1.
QualifyIntent(intent, interpretation) ==
  IF intent.empty THEN EmptySpecification
  ELSE [version |-> 1, blank |-> FALSE, status |-> Qualification(intent, interpretation),
        requirements |-> CanonicalRequirements(interpretation, Clauses(intent, interpretation))]

\* A token that binds the objective's version and the kind of revision.
IsValidFor(authorization, version, type) ==
  /\ authorization.token
  /\ authorization.version = version
  /\ type \in authorization.types

\* The revision of any version held, by a valid authorization; it is qualified by its
\* requirements being there.
ReviseObjective(current, short, requirements) ==
  [version |-> current.version + 1, blank |-> FALSE, requirements |-> requirements,
   status |-> IF requirements = <<>> /\ ~short THEN "INSUFFICIENT_INFORMATION" ELSE "QUALIFIED"]
Revisions(current, requests) ==
  {ReviseObjective(current, r.short, r.requirements) :
     r \in {q \in requests : IsValidFor(q.authorization, current.version, q.type)}}

\* The versions kept, in the order they were made: a blank intent's is not.
RecordSpec(specs, spec) == IF spec.blank THEN specs ELSE Append(specs, spec)
GetVersion(specs, version) ==
  LET k == SelectInSeq(specs, LAMBDA s : s.version = version)
  IN IF k = 0 THEN <<>> ELSE <<specs[k]>>
GetLatest(specs) == IF specs = <<>> THEN <<>> ELSE <<Last(specs)>>

-----------------------------------------------------------------------------
(* Evidence: what a sequence of observations says of a claim.  A piece of  *)
(* evidence is a record [id, bound, about, candidate, environment,         *)
(* available, falsified, covered, exit, passed, failed]: id is the         *)
(* observation's, bound whether it carries its specification's digest,     *)
(* about the claim of the specification; covered is whether the least      *)
(* coverage was reached, exit whether the exit code is zero, passed and    *)
(* failed whether tests passed and failed.  "none" is a binding left open. *)

Agrees(wanted, found) == wanted \in {"none", found}

\* The checks that end the evaluation at the first piece of evidence that fails one.
Relevant(ev, claim, candidate, environment) ==
  /\ ev.bound
  /\ ev.about = claim.id
  /\ Agrees(claim.candidate, ev.candidate) /\ Agrees(candidate, ev.candidate)
  /\ Agrees(claim.environment, ev.environment) /\ Agrees(environment, ev.environment)
  /\ ev.available

Contradicts(ev) == ev.falsified \/ ~ev.covered \/ ~ev.exit \/ ev.failed
Supports(ev) == ~Contradicts(ev) /\ ev.passed

\* Identical pairs of specification and observation count once, and the digests that decide
\* it leave out the falsification and the least coverage: of two that differ in these only,
\* the first of the list counts.
Digests(ev) == [ev EXCEPT !.falsified = FALSE, !.covered = FALSE]
Deduplicated(evidence) ==
  {evidence[k] : k \in {j \in DOMAIN evidence :
     \A i \in 1..(j - 1) : Digests(evidence[i]) # Digests(evidence[j])}}

\* Of the sequence of evidence that is offered.
EvaluateClaim(claim, evidence, candidate, environment) ==
  LET counted == Deduplicated(evidence) IN
  IF \E ev \in counted : ~Relevant(ev, claim, candidate, environment) THEN "UNSUPPORTED"
  ELSE IF \E ev \in counted : Contradicts(ev) THEN "CONTRADICTED"
  ELSE IF \E ev \in counted : Supports(ev) THEN "SUPPORTED"
  ELSE "UNSUPPORTED"

-----------------------------------------------------------------------------
(* Capabilities: a record [operator, status, environments, conditions]     *)
(* with conditions [environment, resources], for required operations       *)
(* [operator, inputs].                                                     *)

IsApplicable(capability, environment, resources) ==
  /\ capability.status \in {"QUALIFIED", "APPLICABLE", "AUTHORIZED"}
  /\ environment \in capability.environments
  /\ capability.conditions # {} =>
       \E c \in capability.conditions :
         c.environment \in {environment, "*"} /\ resources \subseteq c.resources

\* evaluate_required_operations: an operation is bound to the first capability of the
\* registry that applies, or is a deficit.
Applicable(registry, op, environment) ==
  SelectSeq(registry, LAMBDA c : c.operator = op.operator /\ IsApplicable(c, environment, op.inputs))
BoundCapabilities(registry, ops, environment) ==
  LET served == SelectSeq(ops, LAMBDA op : Applicable(registry, op, environment) # <<>>)
  IN [k \in DOMAIN served |-> Head(Applicable(registry, served[k], environment))]
Deficits(registry, ops, environment) ==
  SelectSeq(ops, LAMBDA op : Applicable(registry, op, environment) = <<>>)
=============================================================================
