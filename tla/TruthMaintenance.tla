-------------------------- MODULE TruthMaintenance --------------------------
(***************************************************************************)
(* TruthMaintenanceEngine (relational/truth_maintenance.py): a retraction  *)
(* invalidates a node and, edge by edge, what is derived from it or        *)
(* supported by it.  Every read and write is a transaction of its own;     *)
(* retractions may run at once, and one may die halfway.                   *)
(***************************************************************************)
EXTENDS RelationalGraph

CONSTANTS
  Retractors,     \* processes that retract or downgrade
  Retractable,    \* nodes that are retracted
  Downgrades,     \* <<n, status>>: evidence nodes and what they are downgraded to
  MaxDeaths       \* bound: deaths of retractors

ASSUME RetractionAssumption ==
  /\ \A d \in Downgrades : d[2] \in Statuses
  /\ MaxDeaths \in Nat

VARIABLES
  tms,          \* tms[r]: the local state of the call
  deaths        \* deaths

tmsVars == <<tms, deaths>>

NoCall == [pc |-> "idle"]

Rank(status) ==
  CASE status = "AUTHORITATIVE" -> 8 [] status = "QUALIFIED" -> 7
    [] status = "VERIFIED" -> 6      [] status = "OBSERVED" -> 5
    [] status = "PROPOSED" -> 4      [] status = "INFERRED" -> 3
    [] status = "CONTESTED" -> 2     [] status = "INVALIDATED" -> 1
    [] status = "SUPERSEDED" -> 0

TmsInit ==
  /\ tms = [r \in Retractors |-> NoCall]
  /\ deaths = 0

Cascade(root) ==
  [pc |-> "pop", root |-> root, queue |-> <<root>>, visited |-> {}, at |-> root, todo |-> {}]

Retract(r, n) ==
  /\ tms[r] = NoCall /\ Call
  /\ tms' = [tms EXCEPT ![r] = Cascade(n)]
  /\ UNCHANGED <<graph, deaths>>

\* The next node of the queue, unless it was visited, is read and written back invalidated.
\* What the cascade visited before, and somebody renewed behind it, it does not visit again.
PopNode(r) ==
  LET x == tms[r]
      n == Head(x.queue)
  IN
  /\ x.pc = "pop" /\ x.queue # <<>>
  /\ IF n \in x.visited
       THEN tms' = [tms EXCEPT ![r].queue = Tail(@)] /\ UNCHANGED nodeVars
       ELSE /\ nodes' = SetStatus(nodes, n, "INVALIDATED")
            /\ retracted' = retracted \cup {n}
            /\ excused' = {p \in excused : n \notin {p[1], p[2]}}
                            \cup ((x.visited \ retracted) \X {n})
            /\ tms' = [tms EXCEPT ![r] = [x EXCEPT !.pc = "incoming", !.queue = Tail(@),
                                            !.visited = @ \cup {n}, !.at = n]]
  /\ UNCHANGED <<edges, calls, deaths>>

\* Mutant: only what is derived, and not what is supported.
ReadDerived(r) ==
  /\ tms[r].pc = "incoming"
  /\ tms' = [tms EXCEPT ![r].pc = "mark", ![r].todo =
       {i \in IncomingEdges(tms[r].at) : edges[i].relation = "DERIVED_FROM"}]
  /\ UNCHANGED <<graph, calls, deaths>>
ReadIncoming(r) ==
  /\ tms[r].pc = "incoming"
  /\ tms' = [tms EXCEPT ![r].pc = "mark", ![r].todo =
       {i \in IncomingEdges(tms[r].at) : edges[i].relation \in Justification}]
  /\ UNCHANGED <<graph, calls, deaths>>

MarkIncoming(r) ==
  /\ tms[r].pc = "mark"
  /\ \E i \in tms[r].todo :
       /\ UpdateEdgeStatus(i, "INVALIDATED")
       /\ tms' = [tms EXCEPT ![r].queue = Append(@, edges[i].source), ![r].todo = @ \ {i}]
  /\ UNCHANGED <<calls, deaths>>

ReadOutgoing(r) ==
  /\ tms[r].pc = "mark" /\ tms[r].todo = {}
  /\ tms' = [tms EXCEPT ![r].pc = "outgoing", ![r].todo = OutgoingEdges(tms[r].at)]
  /\ UNCHANGED <<graph, calls, deaths>>

MarkOutgoing(r) ==
  /\ tms[r].pc = "outgoing"
  /\ \E i \in tms[r].todo :
       /\ UpdateEdgeStatus(i, "INVALIDATED")
       /\ tms' = [tms EXCEPT ![r].todo = @ \ {i}]
  /\ UNCHANGED <<calls, deaths>>

NextNode(r) ==
  /\ tms[r].pc = "outgoing" /\ tms[r].todo = {}
  /\ tms' = [tms EXCEPT ![r].pc = "pop"]
  /\ UNCHANGED <<graph, calls, deaths>>

EndRetraction(r) ==
  /\ tms[r].pc = "pop" /\ tms[r].queue = <<>>
  /\ tms' = [tms EXCEPT ![r] = NoCall]
  /\ UNCHANGED <<graph, calls, deaths>>

\* downgrade_evidence: the rank is compared, then the status written; an invalidated or
\* contested node is then retracted, and so invalidated.
CheckDowngrade(r, n, status) ==
  /\ tms[r] = NoCall /\ Call
  /\ n \in DOMAIN nodes /\ Rank(status) <= Rank(StatusOf(n))
  /\ tms' = [tms EXCEPT ![r] = [pc |-> "downgrade", root |-> n, status |-> status]]
  /\ UNCHANGED <<graph, deaths>>

WriteDowngrade(r) ==
  LET x == tms[r] IN
  /\ x.pc = "downgrade"
  /\ UpdateNodeStatus(x.root, x.status)
  /\ tms' = [tms EXCEPT ![r] = IF x.status \in {"INVALIDATED", "CONTESTED"}
                                 THEN Cascade(x.root) ELSE NoCall]
  /\ UNCHANGED <<edges, calls, deaths>>

\* The source of edge i is one that retraction r has still to visit.
Owed(r, i) ==
  LET x == tms[r] IN
  /\ x.pc \notin {"idle", "downgrade"} /\ edges[i].source \notin x.visited
  /\ \/ edges[i].source \in Range(x.queue)
     \/ x.pc = "incoming" /\ edges[i].target = x.at
     \/ x.pc = "mark" /\ i \in x.todo

RetractorDies(r) ==
  /\ tms[r] # NoCall /\ deaths < MaxDeaths
  /\ deaths' = deaths + 1
  /\ excused' = excused \cup
       {<<edges[i].source, edges[i].target>> : i \in {j \in DOMAIN edges : Owed(r, j)}}
  /\ tms' = [tms EXCEPT ![r] = NoCall]
  /\ UNCHANGED <<nodes, edges, retracted, calls>>

TmsNext ==
  \E r \in Retractors :
    \/ \E n \in Retractable : Retract(r, n)
    \/ \E d \in Downgrades : CheckDowngrade(r, d[1], d[2])
    \/ PopNode(r) \/ ReadIncoming(r) \/ MarkIncoming(r) \/ ReadOutgoing(r)
    \/ MarkOutgoing(r) \/ NextNode(r) \/ EndRetraction(r)
    \/ WriteDowngrade(r) \/ RetractorDies(r)

-----------------------------------------------------------------------------
(* Properties *)

\* What is derived from, or supported by, a node that a retraction wrote is invalidated too,
\* or a running retraction has still to visit it, unless the retraction that owed it died,
\* somebody wrote it again since, or the link is newer than the retraction: two cascades
\* that meet, a cycle, an edge invalidated before its source or a downgrade written into
\* the cascade leave nothing standing (truth_maintenance.py:42).
CascadeIsComplete ==
  \A i \in JustifyingEdges :
    LET x == edges[i].source
        y == edges[i].target
    IN y \in retracted =>
         \/ StatusOf(x) \in {"INVALIDATED", "absent"} \/ <<x, y>> \in excused
         \/ \E r \in Retractors : Owed(r, i)

=============================================================================
