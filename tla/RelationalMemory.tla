-------------------------- MODULE RelationalMemory --------------------------
(***************************************************************************)
(* The processes that share one relational graph store: retractions,       *)
(* projections of receipts, planners, and evaluations of objectives.       *)
(*                                                                         *)
(* RelationalProjectionEngine.project_receipt (relational/projection.py),  *)
(* which no module of its own models: a sealed receipt becomes an          *)
(* objective, a candidate derived from it and the verifier of the          *)
(* candidate, whatever status these nodes had; five transactions, and a    *)
(* death may come between them.                                            *)
(***************************************************************************)
EXTENDS TruthMaintenance, CapabilityPlanning, SufficiencyEvaluation

CONSTANTS
  Projectors,      \* processes that project receipts
  Receipts         \* records task, candidate, verifier ("" when absent), success, passed

ASSUME ProjectionAssumption ==
  \A r \in Receipts : r.success \in BOOLEAN /\ r.passed \in BOOLEAN

VARIABLE projection    \* projection[p]: the local state of the call

NotProjecting == [todo |-> <<>>]

ProjectionInit == projection = [p \in Projectors |-> NotProjecting]

\* The transactions after the objective's.
Steps(receipt) ==
  (IF receipt.candidate = "" THEN <<>> ELSE <<"candidate", "derived">>)
    \o (IF receipt.verifier = "" THEN <<>> ELSE <<"verifier">>)
    \o (IF "" \in {receipt.candidate, receipt.verifier} THEN <<>> ELSE <<"verified">>)

\* Projector p has this transaction next, and makes it.
At(p, step) ==
  /\ projection[p] # NotProjecting /\ Head(projection[p].todo) = step
  /\ projection' = [projection EXCEPT ![p] =
       IF Len(projection[p].todo) = 1 THEN NotProjecting ELSE [projection[p] EXCEPT !.todo = Tail(@)]]

CandidateStatus(receipt) == IF receipt.success THEN "QUALIFIED" ELSE "OBSERVED"
VerifierStatus(receipt) == IF receipt.passed THEN "VERIFIED" ELSE "INVALIDATED"

ProjectObjective(p, receipt) ==
  /\ projection[p] = NotProjecting /\ Call
  /\ UpsertNode(receipt.task, Node("OBJECTIVE", "AUTHORITATIVE", ""))
  /\ projection' = [projection EXCEPT ![p] =
       IF Steps(receipt) = <<>> THEN NotProjecting
       ELSE [receipt |-> receipt, todo |-> Steps(receipt)]]
  /\ UNCHANGED edges

ProjectCandidate(p) ==
  LET receipt == projection[p].receipt IN
  /\ At(p, "candidate")
  /\ UpsertNode(receipt.candidate, Node("CANDIDATE", CandidateStatus(receipt), ""))
  /\ UNCHANGED <<edges, calls>>

ProjectDerivation(p) ==
  LET receipt == projection[p].receipt IN
  /\ At(p, "derived")
  /\ UpsertEdge(<<"edge_prod", receipt.task, receipt.candidate>>,
                Edge(receipt.candidate, "DERIVED_FROM", receipt.task, CandidateStatus(receipt)))
  /\ UNCHANGED calls

ProjectVerifier(p) ==
  LET receipt == projection[p].receipt IN
  /\ At(p, "verifier")
  /\ UpsertNode(receipt.verifier, Node("VERIFIER", VerifierStatus(receipt), ""))
  /\ UNCHANGED <<edges, calls>>

ProjectVerification(p) ==
  LET receipt == projection[p].receipt IN
  /\ At(p, "verified")
  /\ UpsertEdge(<<"edge_ver", receipt.candidate, receipt.verifier>>,
                Edge(receipt.candidate, "VERIFIED_BY", receipt.verifier, VerifierStatus(receipt)))
  /\ UNCHANGED calls

ProjectorDies(p) ==
  /\ projection[p] # NotProjecting
  /\ projection' = [projection EXCEPT ![p] = NotProjecting]
  /\ UNCHANGED <<graph, calls>>

ProjectionNext ==
  \E p \in Projectors :
    \/ \E receipt \in Receipts : ProjectObjective(p, receipt)
    \/ ProjectCandidate(p) \/ ProjectDerivation(p)
    \/ ProjectVerifier(p) \/ ProjectVerification(p) \/ ProjectorDies(p)

-----------------------------------------------------------------------------
CONSTANTS Nodes0, Edges0     \* the graph at the start

ASSUME GraphAssumption ==
  /\ \A n \in DOMAIN Nodes0 : DOMAIN Nodes0[n] = {"type", "status", "about"}
  /\ \A i \in DOMAIN Edges0 : DOMAIN Edges0[i] = {"source", "target", "relation", "status"}

vars == <<calls, graph, tmsVars, projection, planningVars, evaluator, raised>>

Init ==
  /\ calls = 0 /\ nodes = Nodes0 /\ edges = Edges0 /\ retracted = {} /\ excused = {}
  /\ TmsInit /\ ProjectionInit /\ PlanningInit /\ EvaluationInit

Next ==
  \/ TmsNext /\ UNCHANGED <<projection, planningVars>> /\ Watching
  \/ ProjectionNext /\ UNCHANGED <<tmsVars, planningVars>> /\ Watching
  \/ PlanningNext /\ UNCHANGED <<tmsVars, projection>> /\ Watching
  \/ EvaluationNext /\ UNCHANGED <<tmsVars, projection, planningVars>>

Spec == Init /\ [][Next]_vars
=============================================================================
