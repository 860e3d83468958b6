----------------------- MODULE SufficiencyEvaluation -----------------------
(***************************************************************************)
(* Law6SufficiencyEngine.evaluate_specification                            *)
(* (constitution/sufficiency.py) over the live graph: requirement by       *)
(* requirement and evidence by evidence it reads the node's status, each   *)
(* in a transaction of its own, while the graph may change.                *)
(***************************************************************************)
EXTENDS RelationalGraph, Constitution

CONSTANTS
  Evaluators,     \* processes that evaluate
  Specifications, \* the versions of the objective's specification that are evaluated
  Claims,         \* Claims[r]: the claim made for requirement r
  Evidence,       \* Evidence[e]: the evidence e, as Constitution has it
  EvidenceFor,    \* EvidenceFor[c]: the sequence of evidence offered for the claim with id c
  Alternatives,   \* the requirements of the AUTHORITATIVE_ALTERNATIVES rule
  ActiveCandidate, ActiveEnvironment

ASSUME EvaluationAssumption ==
  /\ \A c \in DOMAIN EvidenceFor : EvidenceFor[c] \in Seq(DOMAIN Evidence)
  /\ \A r \in DOMAIN Claims : Claims[r].id \in DOMAIN EvidenceFor

VARIABLES
  evaluator,    \* evaluator[v]: the local state, or the last proof
  raised        \* history: raised[v]: what others made usable since v's evaluation began

CompositionRule == {"MANDATORY_CONJUNCTION", "AUTHORITATIVE_ALTERNATIVES", "CONDITIONAL"}
Unusable == {"INVALIDATED", "CONTESTED", "PROPOSED"}

\* A node that is not in the graph is not checked.
Live(n) == StatusOf(n) \notin Unusable

\* The nodes whose status an evaluation reads.
Watched == DOMAIN Claims \cup DOMAIN Evidence

NoProof == [pc |-> "none"]

EvaluationInit ==
  /\ evaluator = [v \in Evaluators |-> NoProof]
  /\ raised = [v \in Evaluators |-> {}]

\* A step of another process, as the evaluations under way see it.
Watching ==
  /\ UNCHANGED evaluator
  /\ raised' = [v \in Evaluators |->
       IF evaluator[v].pc \in {"requirement", "evidence"}
       THEN raised[v] \cup {n \in Watched : ~Live(n) /\ Live(n)'} ELSE raised[v]]

\* A proof: what was found, and (history) what was live when the evaluation began.
Proof(x, isSatisfied) ==
  [pc |-> "proof", isSatisfied |-> isSatisfied, satisfied |-> x.satisfied, live |-> x.live]

BeginEvaluation(v, spec, rule) ==
  LET x == [pc |-> "requirement", requirements |-> spec.requirements,
            either |-> rule = "AUTHORITATIVE_ALTERNATIVES",
            satisfied |-> {}, unresolved |-> {}, falsified |-> {}, todo |-> <<>>, kept |-> <<>>,
            live |-> {n \in Watched : Live(n)}]
  IN
  /\ evaluator[v].pc \in {"none", "proof"} /\ Call
  /\ evaluator' = [evaluator EXCEPT ![v] =
       IF spec.status # "QUALIFIED" \/ (spec.requirements = <<>> /\ ~spec.blank)
       THEN Proof(x, FALSE) ELSE x]
  /\ raised' = [raised EXCEPT ![v] = {}]
  /\ UNCHANGED graph

\* The rest of the requirements, after one that is left unresolved if it blocks.
Unresolved(x, req) ==
  [x EXCEPT !.pc = "requirement", !.requirements = Tail(@),
            !.unresolved = IF req.blocking THEN @ \cup {req.id} ELSE @]

ReadRequirement(v) ==
  LET x == evaluator[v]
      req == Head(x.requirements)
  IN
  /\ x.pc = "requirement" /\ x.requirements # <<>>
  /\ evaluator' = [evaluator EXCEPT ![v] =
       IF req.id \notin DOMAIN Claims \/ ~Live(req.id) THEN Unresolved(x, req)
       ELSE [x EXCEPT !.pc = "evidence", !.todo = EvidenceFor[Claims[req.id].id]]]
  /\ UNCHANGED <<graph, calls, raised>>

\* Mutant: evidence is taken as offered, whatever became of it.
KeepEvidence(v) ==
  /\ evaluator[v].pc = "evidence" /\ evaluator[v].todo # <<>>
  /\ evaluator' = [evaluator EXCEPT
       ![v].todo = Tail(@), ![v].kept = Append(@, Head(evaluator[v].todo))]
  /\ UNCHANGED <<graph, calls, raised>>
FilterEvidence(v) ==
  LET x == evaluator[v] IN
  /\ x.pc = "evidence" /\ x.todo # <<>>
  /\ evaluator' = [evaluator EXCEPT ![v] =
       [x EXCEPT !.todo = Tail(@), !.kept = IF Live(Head(x.todo)) THEN Append(@, Head(x.todo)) ELSE @]]
  /\ UNCHANGED <<graph, calls, raised>>

JudgeRequirement(v) ==
  LET x == evaluator[v]
      req == Head(x.requirements)
      verdict == EvaluateClaim(Claims[req.id], [k \in DOMAIN x.kept |-> Evidence[x.kept[k]]],
                               ActiveCandidate, ActiveEnvironment)
      rest == [x EXCEPT !.pc = "requirement", !.requirements = Tail(@), !.kept = <<>>]
  IN
  /\ x.pc = "evidence" /\ x.todo = <<>>
  /\ evaluator' = [evaluator EXCEPT ![v] =
       CASE verdict = "SUPPORTED" -> [rest EXCEPT !.satisfied = @ \cup {req.id}]
         [] verdict = "CONTRADICTED" /\ req.blocking ->
              [rest EXCEPT !.falsified = @ \cup {req.id}]
         [] verdict = "UNSUPPORTED" /\ req.blocking ->
              [rest EXCEPT !.unresolved = @ \cup {req.id}]
         [] OTHER -> rest]
  /\ UNCHANGED <<graph, calls, raised>>

\* The composition rule.  CONDITIONAL, and any other, is evaluated as the conjunction.
IsSatisfied(x) ==
  /\ x.falsified = {}
  /\ IF x.either
     THEN x.satisfied \cap Alternatives # {} /\ x.unresolved \subseteq Alternatives
     ELSE x.unresolved = {} /\ x.satisfied # {}

EndEvaluation(v) ==
  /\ evaluator[v].pc = "requirement" /\ evaluator[v].requirements = <<>>
  /\ evaluator' = [evaluator EXCEPT ![v] = Proof(evaluator[v], IsSatisfied(evaluator[v]))]
  /\ UNCHANGED <<graph, calls, raised>>

EvaluationNext ==
  \E v \in Evaluators :
    \/ \E spec \in Specifications, rule \in CompositionRule : BeginEvaluation(v, spec, rule)
    \/ ReadRequirement(v) \/ FilterEvidence(v) \/ JudgeRequirement(v) \/ EndEvaluation(v)

-----------------------------------------------------------------------------
(* Properties *)

\* The requirements that were found satisfied, and evidence for each, are among what stands.
AllStand(requirements, standing) ==
  \A r \in requirements :
    /\ r \in standing
    /\ \E k \in DOMAIN EvidenceFor[Claims[r].id] :
         LET e == EvidenceFor[Claims[r].id][k] IN e \in standing /\ Supports(Evidence[e])

\* Of an objective that was found satisfied at least one requirement is, and each satisfied
\* one had a node and supporting evidence that both were usable at the one moment the
\* evaluation began, or that somebody made usable since: reading one status at a time while
\* retractions cascade through the graph never lets what was retracted before support a
\* proof, and where nobody renews what was retracted, never assembles one from moments that
\* did not exist together (sufficiency.py:108, :126).
SatisfiedHadSupport ==
  \A v \in Evaluators :
    LET x == evaluator[v] IN
    x.pc = "proof" /\ x.isSatisfied =>
      x.satisfied # {} /\ AllStand(x.satisfied, x.live \cup raised[v])

=============================================================================
