-------------------------- MODULE MCRelationalMemory --------------------------
EXTENDS RelationalMemory

Nodes == ("task" :> Node("OBJECTIVE", "OBSERVED", ""))
           @@ [n \in {"cand"} |-> Node("CANDIDATE", "OBSERVED", "")]
           @@ [n \in {"E1", "E2", "E3"} |-> Node("EVIDENCE", "VERIFIED", "")]
           @@ [n \in {"R1", "R2"} |-> Node("REQUIREMENT", "VERIFIED", "")]
           @@ ("C" :> Node("CAPABILITY", "QUALIFIED", "known"))

\* Two chains of justifications that meet in R2: task, cand, E2 and E1, R1.
JustifiedAtStart ==
  {<<"R1", "SUPPORTED_BY", "E1">>, <<"R2", "DERIVED_FROM", "R1">>,
   <<"R2", "SUPPORTED_BY", "E2">>, <<"E2", "DERIVED_FROM", "cand">>}
EdgesAtStart == [i \in JustifiedAtStart |-> Edge(i[1], i[2], i[3], "VERIFIED")]

Receipt(candidate, verifier) ==
  [task |-> "task", candidate |-> candidate, verifier |-> verifier, success |-> TRUE, passed |-> FALSE]
\* One is projected over a piece of evidence, and one over a requirement.
SomeReceipts == {Receipt("cand", "E1"), Receipt("R2", "ver"), Receipt("", "ver")}

\* Evidence that is downgraded out of use, contested, and lowered while it stays usable.
SomeDowngrades == {<<"E2", "PROPOSED">>, <<"E3", "CONTESTED">>, <<"E1", "OBSERVED">>}

Symmetry == Permutations(Retractors)

RequiredCapabilities == <<"known", "unknown">>

Observation(id, claim, failed) ==
  [id |-> id, bound |-> TRUE, about |-> claim, candidate |-> "sha", environment |-> "env",
   available |-> TRUE, falsified |-> FALSE, covered |-> TRUE, exit |-> ~failed,
   passed |-> TRUE, failed |-> failed]
SomeEvidence ==
  [e \in {"E1", "E2", "E3"} |-> Observation(e, IF e = "E2" THEN "c2" ELSE "c1", e = "E3")]
SomeClaims ==
  [r \in {"R1", "R2"} |->
     [id |-> IF r = "R1" THEN "c1" ELSE "c2", candidate |-> "sha", environment |-> "none"]]
EvidenceOffered == [c \in {"c1", "c2"} |-> IF c = "c1" THEN <<"E1", "E3">> ELSE <<"E2">>]

Intent == [empty |-> FALSE, short |-> FALSE, clauses |-> <<"a", "b">>]
Proposal(id, clause) == [id |-> id, clause |-> clause, near |-> {}, blocking |-> TRUE]
Offered(proposals) == [clauses |-> <<>>, proposals |-> proposals]
FirstVersion == QualifyIntent(Intent, Offered(<<Proposal("R1", "a"), Proposal("R2", "b")>>))
Revision(requirements, version) ==
  [type |-> "REQUIREMENT_REMOVAL", short |-> FALSE, requirements |-> requirements,
   authorization |-> [token |-> TRUE, version |-> version, types |-> {"REQUIREMENT_REMOVAL"}]]
SecondRequirement == <<[id |-> "R2", blocking |-> TRUE, origin |-> "SOURCE_EXPLICIT"]>>
SomeSpecifications ==
  {FirstVersion} \cup Revisions(FirstVersion, {Revision(SecondRequirement, 1), Revision(<<>>, 1)})

-----------------------------------------------------------------------------
(* The functions that no process of the run calls, on every input of a small size. *)

Three == {"x", "y", "z"}
EdgeSets(relation, status) ==
  {[i \in pairs |-> Edge(i[1], relation, i[2], status)] :
     pairs \in SUBSET {i \in Three \X Three : i[1] # i[2]}}

\* n cannot be reached from itself along the edges es.
Acyclic(es) == \A n \in Three :
  n \notin TransitiveDependencies(es, n, {"REQUIRES", "DEPENDS_ON"}, Statuses)

\* compute_topological_order orders a graph exactly when it has no cycle, each node once and
\* after what it requires (dependency_scheduler.py:66).
ASSUME OrderIsTopological ==
  \A es \in EdgeSets("REQUIRES", "QUALIFIED") :
    LET order == TopologicalOrder(<<"x", "y", "z">>, es) IN
    /\ Ordered(<<"x", "y", "z">>, es) <=> Acyclic(es)
    /\ \A j, k \in DOMAIN order : j < k =>
         /\ order[j] # order[k]
         /\ <<order[j], order[k]>> \notin DOMAIN es

\* get_ready_frontier never waits for ever: while a dependency without cycles is unfinished
\* something is ready, and what is ready depends on nothing unfinished.
ASSUME FrontierAdvances ==
  \A es \in EdgeSets("DEPENDS_ON", "QUALIFIED"), completed \in SUBSET Three :
    LET frontier == ReadyFrontier(es, [n \in Three |-> "OBSERVED"], "x", completed, Statuses) IN
    /\ Acyclic(es) /\ "x" \notin completed => frontier # {}
    /\ \A n \in frontier, i \in DOMAIN es : i[1] = n => i[2] \in completed

\* A prerequisite outside the nodes that are ordered is taken for a cycle.
ASSUME OutsideIsACycle ==
  ~Ordered(<<"x">>, [i \in {<<"x", "y">>} |-> Edge("x", "REQUIRES", "y", "QUALIFIED")])

\* evaluate_claim: only evidence about this claim and candidate supports it, no other weighs
\* against it, and a contradiction is never outweighed (evidence.py:8), but for one: an
\* observation that differs from an earlier one of the list in its falsification only.
Verdict(S) == EvaluateClaim([id |-> "c", candidate |-> "sha", environment |-> "none"], S, "none", "none")
SomeObservations ==
  [id : {"o"}, bound : {TRUE}, about : {"c", "d"}, candidate : {"sha", "old"},
   environment : {"env"}, available : {TRUE}, falsified : BOOLEAN, covered : {TRUE},
   exit : {TRUE}, passed : BOOLEAN, failed : {FALSE}]
ASSUME EvidenceIsWeighed ==
  \A s \in BoundedSeq(SomeObservations, 3) :
    Verdict(s) = "SUPPORTED" =>
      /\ \E k \in DOMAIN s : Supports(s[k])
      /\ \A k \in DOMAIN s : s[k].about = "c" /\ s[k].candidate = "sha"
      /\ \A k \in DOMAIN s : Contradicts(s[k]) =>
           \E j \in 1..(k - 1) : s[j] = [s[k] EXCEPT !.falsified = FALSE]

\* qualify_intent drops no clause silently: an interpretation is qualified only when each
\* clause is claimed by, or near, one of its proposals (lifecycle.py:256).
Proposals == [id : {"R1"}, clause : {"a", "b", "none"}, near : SUBSET {"a", "b"}, blocking : {TRUE}]
ASSUME NoClauseIsDropped ==
  \A ps \in {<<>>} \cup {<<p>> : p \in Proposals} \cup {<<p, q>> : p, q \in Proposals} :
    Qualification(Intent, Offered(ps)) = "QUALIFIED" =>
      \A c \in {"a", "b"} : \E p \in ToSet(ps) : p.clause = c \/ c \in p.near

\* An authorization binds one version: it cannot revise the revision it made, but it revises
\* the same version again, and the two revisions have one number (lifecycle.py:325).
ASSUME RevisionsCollide ==
  LET made == Revisions(FirstVersion, {Revision(SecondRequirement, 1), Revision(<<>>, 1)}) IN
  /\ Cardinality(made) = 2 /\ \A s \in made : s.version = 2
  /\ \A s \in made : Revisions(s, {Revision(SecondRequirement, 1)}) = {}
  /\ \A s, t \in made :
       LET specs == RecordSpec(RecordSpec(RecordSpec(<<>>, EmptySpecification), s), t)
       IN GetVersion(specs, 2) = <<s>> /\ GetLatest(specs) = <<t>>

\* find_transferrable_strategies proposes a motif of the very structure first, and never one
\* that shares nothing (structural_transfer.py:103).
Motifs == [types : SUBSET {"OBJECTIVE", "CLAIM"}, relations : SUBSET {"REQUIRES", "BLOCKS"}]
ASSUME LikenessIsStructural ==
  \A m \in Motifs, o \in {n \in Motifs : n.types # {} /\ n.relations # {}} :
    LET found == TransferProposals(<<m, o>>, o.types, o.relations) IN
    /\ found # <<>> /\ Head(found) \in {o, m}
    /\ Similarity(Head(found), o.types, o.relations) = 1000
    /\ m.types \cap o.types = {} /\ m.relations \cap o.relations = {} => m \notin ToSet(found)

\* evaluate_required_operations: every operation is bound or a deficit, and what is bound
\* supports the environment, the wildcard of a condition notwithstanding (capability.py:6).
Capabilities ==
  [operator : {"WRITE"}, status : {"QUALIFIED", "HYPOTHESIS"}, environments : {{"env"}, {"other"}},
   conditions : {{}, {[environment |-> "*", resources |-> {"disk"}]}}]
Operations == [operator : {"WRITE", "SEND"}, inputs : SUBSET {"disk"}]
ASSUME OperationsAreBoundOrMissing ==
  \A c, d \in Capabilities, op \in Operations :
    LET bound == BoundCapabilities(<<c, d>>, <<op>>, "env") IN
    /\ (bound = <<>>) <=> (Deficits(<<c, d>>, <<op>>, "env") = <<op>>)
    /\ \A b \in ToSet(bound) : "env" \in b.environments /\ b.status = "QUALIFIED"
=============================================================================
