----------------------- MODULE RelationalMemoryProofs -----------------------
(***************************************************************************)
(* Proofs about the writers of one relational graph and the evaluations    *)
(* that read it, for every graph, every number of processes and every      *)
(* bound.                                                                  *)
(***************************************************************************)
EXTENDS RelationalMemory, TLAPS

GapNodes == {GapNode(k) : k \in Nat}

-----------------------------------------------------------------------------
(* The invariant *)

NodesSound == \A n \in DOMAIN nodes : DOMAIN nodes[n] = {"type", "status", "about"}
EdgeFields == {"source", "target", "relation", "status"}
EdgesSound == \A i \in DOMAIN edges : DOMAIN edges[i] = EdgeFields

IsQueue(q) == \E S : q \in Seq(S)

\* A retraction or a downgrade is one that was asked for.
CascadeFields == {"pc", "root", "queue", "visited", "at", "todo"}
CascadeSound(x) ==
  /\ DOMAIN x = CascadeFields /\ x.pc \in {"pop", "incoming", "mark", "outgoing"}
  /\ IsQueue(x.queue)
DowngradeSound(x) ==
  x.pc = "downgrade" /\ \E d \in Downgrades : d[1] = x.root /\ d[2] = x.status
RetractionsSound ==
  /\ DOMAIN tms = Retractors
  /\ \A r \in Retractors : tms[r] = NoCall \/ CascadeSound(tms[r]) \/ DowngradeSound(tms[r])

ProjectionsSound ==
  /\ DOMAIN projection = Projectors
  /\ \A p \in Projectors :
       projection[p] # NotProjecting =>
         DOMAIN projection[p] = {"receipt", "todo"} /\ projection[p].receipt \in Receipts

\* A planner replans for the gaps it made.
PlannersSound ==
  /\ gaps \in Nat /\ DOMAIN planner = Planners
  /\ \A p \in Planners : /\ planner[p].unresolved \in Seq(GapNodes)
                         /\ planner[p].pc = "supersede" => planner[p].unresolved # <<>>

\* What a retraction wrote last is invalidated,
RetractedSound == \A n \in retracted : StatusOf(n) \in {"INVALIDATED", "absent"}

\* and what it justifies was retracted too, is excused or is owed.
Answered(i) ==
  \/ edges[i].source \in retracted \/ <<edges[i].source, edges[i].target>> \in excused
  \/ \E r \in Retractors : Owed(r, i)
JustificationsFollowed ==
  \A i \in JustifyingEdges : edges[i].target \in retracted => Answered(i)

\* A requirement, and evidence for it, were usable when the evaluation began or were made so.
Supported(v, r) == AllStand({r}, evaluator[v].live \cup raised[v])

EvaluationFields ==
  {"pc", "requirements", "either", "satisfied", "unresolved", "falsified", "todo", "kept", "live"}

\* What is usable now was so when the evaluation began, or was made so.
EvaluationSound(v) ==
  LET x == evaluator[v]
      seen == x.live \cup raised[v]
  IN
  /\ DOMAIN x = EvaluationFields /\ x.pc \in {"requirement", "evidence"}
  /\ \A n \in Watched : Live(n) => n \in seen
  /\ \A r \in x.satisfied : Supported(v, r)
  /\ x.pc = "requirement" => x.kept = <<>>
  /\ x.pc = "evidence" =>
       LET r == Head(x.requirements).id
           offered == Range(EvidenceFor[Claims[r].id])
       IN
       /\ r \in DOMAIN Claims /\ r \in seen
       /\ x.todo \in Seq(offered) /\ x.kept \in Seq(offered \cap seen)

ProofSound(v) ==
  /\ evaluator[v].pc = "proof"
  /\ evaluator[v].isSatisfied =>
       evaluator[v].satisfied # {} /\ \A r \in evaluator[v].satisfied : Supported(v, r)

EvaluatorsSound ==
  /\ DOMAIN evaluator = Evaluators /\ DOMAIN raised = Evaluators
  /\ \A v \in Evaluators :
       evaluator[v] = NoProof \/ EvaluationSound(v) \/ ProofSound(v)

GraphSound == NodesSound /\ EdgesSound /\ RetractedSound /\ JustificationsFollowed

IInv ==
  GraphSound /\ RetractionsSound /\ ProjectionsSound /\ PlannersSound /\ EvaluatorsSound

LEMMA InitIInv == Init => IInv
<1> SUFFICES ASSUME Init PROVE IInv
  OBVIOUS
<1>1. GraphSound
  BY GraphAssumption DEF Init, GraphSound, NodesSound, EdgesSound, EdgeFields, RetractedSound,
                         JustificationsFollowed
<1>2. RetractionsSound /\ ProjectionsSound
  BY DEF Init, TmsInit, ProjectionInit, RetractionsSound, ProjectionsSound
<1>3. PlannersSound
  <2>1. \A p \in Planners : planner[p].unresolved = <<>> /\ planner[p].pc = "idle"
    BY DEF Init, PlanningInit, NoPlan
  <2>2. <<>> \in Seq(GapNodes)
    OBVIOUS
  <2>3. gaps \in Nat /\ DOMAIN planner = Planners
    BY DEF Init, PlanningInit
  <2> QED BY <2>1, <2>2, <2>3 DEF PlannersSound
<1>4. EvaluatorsSound
  BY DEF Init, EvaluationInit, EvaluatorsSound
<1> QED BY <1>1, <1>2, <1>3, <1>4 DEF IInv

-----------------------------------------------------------------------------
(* What a write does to the graph and to the history of retractions. *)

LEMMA StatusSet ==
  ASSUME NodesSound, NEW n, NEW status, nodes' = SetStatus(nodes, n, status)
  PROVE  /\ NodesSound' /\ \A m : m # n => StatusOf(m)' = StatusOf(m)
         /\ StatusOf(n)' \in {status, "absent"}
<1>1. CASE n \in DOMAIN nodes
  <2>1. /\ nodes' = [nodes EXCEPT ![n].status = status] /\ DOMAIN nodes' = DOMAIN nodes
        /\ \A m \in DOMAIN nodes : m # n => nodes'[m] = nodes[m]
        /\ nodes'[n] = [nodes[n] EXCEPT !.status = status]
    BY <1>1 DEF SetStatus
  <2>2. DOMAIN nodes'[n] = DOMAIN nodes[n] /\ nodes'[n].status = status
    BY <1>1, <2>1 DEF NodesSound
  <2> QED BY <1>1, <2>1, <2>2 DEF NodesSound, StatusOf
<1>2. CASE n \notin DOMAIN nodes
  BY <1>2 DEF SetStatus, NodesSound, StatusOf
<1> QED BY <1>1, <1>2

LEMMA NodePut ==
  ASSUME NodesSound, NEW n, NEW type, NEW status, NEW about,
         nodes' = Put(nodes, n, Node(type, status, about))
  PROVE  NodesSound' /\ \A m : m # n => StatusOf(m)' = StatusOf(m)
<1>1. /\ DOMAIN nodes' = DOMAIN nodes \cup {n} /\ nodes'[n] = Node(type, status, about)
      /\ \A m \in DOMAIN nodes : m # n => nodes'[m] = nodes[m]
  BY DEF Put
<1> QED BY <1>1 DEF NodesSound, StatusOf, Node

\* A node that is renewed is not retracted, and it need not follow what was retracted before.
LEMMA RenewedKeeps ==
  ASSUME GraphSound, NEW n, Renewed(n), NodesSound', UNCHANGED edges,
         \A m : m # n => StatusOf(m)' = StatusOf(m),
         \A r \in Retractors, i \in DOMAIN edges : Owed(r, i) => Owed(r, i)'
  PROVE  GraphSound'
<1>1. RetractedSound'
  BY DEF GraphSound, RetractedSound, Renewed
<1>2. JustificationsFollowed'
  <2> SUFFICES ASSUME NEW i \in JustifyingEdges, edges[i].target \in retracted'
               PROVE  Answered(i)'
    BY DEF JustificationsFollowed, JustifyingEdges
  <2>1. i \in DOMAIN edges /\ Answered(i) /\ edges[i].target \in retracted \ {n}
    BY DEF GraphSound, JustificationsFollowed, JustifyingEdges, Renewed
  <2>2. CASE edges[i].source = n
    BY <2>1, <2>2 DEF Answered, Renewed
  <2>3. CASE edges[i].source # n
    BY <2>1, <2>3 DEF Answered, Renewed
  <2> QED BY <2>2, <2>3
<1>3. EdgesSound'
  BY DEF GraphSound, EdgesSound
<1> QED BY <1>1, <1>2, <1>3 DEF GraphSound

LEMMA UpsertNodeKeeps ==
  ASSUME GraphSound, UNCHANGED <<edges, tms>>,
         NEW n, NEW type, NEW status, NEW about, UpsertNode(n, Node(type, status, about))
  PROVE  GraphSound'
<1>1. NodesSound' /\ \A m : m # n => StatusOf(m)' = StatusOf(m)
  BY NodePut DEF GraphSound, UpsertNode
<1>2. \A r \in Retractors, i \in DOMAIN edges : Owed(r, i) => Owed(r, i)'
  BY DEF Owed
<1> QED BY <1>1, <1>2, RenewedKeeps DEF UpsertNode

LEMMA UpdateNodeKeeps ==
  ASSUME GraphSound, UNCHANGED <<edges, tms>>, NEW n, NEW status, UpdateNodeStatus(n, status)
  PROVE  GraphSound'
<1>1. NodesSound' /\ \A m : m # n => StatusOf(m)' = StatusOf(m)
  BY StatusSet DEF GraphSound, UpdateNodeStatus
<1>2. \A r \in Retractors, i \in DOMAIN edges : Owed(r, i) => Owed(r, i)'
  BY DEF Owed
<1> QED BY <1>1, <1>2, RenewedKeeps DEF UpdateNodeStatus

\* A link that is newer than a retraction is excused from it.
LEMMA UpsertEdgeKeeps ==
  ASSUME GraphSound, UNCHANGED tms, NEW i, NEW source, NEW relation, NEW target, NEW status,
         UpsertEdge(i, Edge(source, relation, target, status))
  PROVE  GraphSound'
<1> DEFINE edge == Edge(source, relation, target, status)
<1>1. /\ DOMAIN edges' = DOMAIN edges \cup {i} /\ edges'[i] = edge
      /\ \A j \in DOMAIN edges : j # i => edges'[j] = edges[j]
  BY DEF UpsertEdge, Put
<1>2. /\ edge.source = source /\ edge.target = target /\ edge.relation = relation
      /\ DOMAIN edge = EdgeFields
  BY DEF Edge, EdgeFields
<1>3. EdgesSound'
  BY <1>1, <1>2 DEF GraphSound, EdgesSound
<1>4. UNCHANGED <<nodes, retracted>> /\ excused \subseteq excused'
  BY DEF UpsertEdge
<1>5. NodesSound' /\ RetractedSound'
  BY <1>4 DEF GraphSound, NodesSound, RetractedSound, StatusOf
<1>6. JustificationsFollowed'
  <2> SUFFICES ASSUME NEW j \in JustifyingEdges', edges'[j].target \in retracted'
               PROVE  Answered(j)'
    BY DEF JustificationsFollowed
  <2>1. CASE j = i
    <3>1. relation \in Justification
      BY <1>1, <1>2, <2>1 DEF JustifyingEdges
    <3>2. <<source, target>> \in excused'
      BY <1>2, <3>1 DEF UpsertEdge
    <3> QED BY <1>1, <1>2, <2>1, <3>2 DEF Answered
  <2>2. CASE j # i
    <3>1. j \in DOMAIN edges /\ edges'[j] = edges[j]
      BY <1>1, <2>2 DEF JustifyingEdges
    <3>2. Answered(j)
      BY <1>4, <3>1 DEF GraphSound, JustificationsFollowed, JustifyingEdges
    <3>3. \A r \in Retractors : Owed(r, j) => Owed(r, j)'
      BY <3>1 DEF Owed
    <3> QED BY <1>4, <3>1, <3>2, <3>3 DEF Answered
  <2> QED BY <2>1, <2>2
<1> QED BY <1>3, <1>5, <1>6 DEF GraphSound

\* The status of an edge does not matter to whom it justifies.
LEMMA UpdateEdgeKeeps ==
  ASSUME EdgesSound, NEW i, NEW status, UpdateEdgeStatus(i, status)
  PROVE  /\ EdgesSound' /\ DOMAIN edges' = DOMAIN edges
         /\ \A j \in DOMAIN edges : /\ edges'[j].source = edges[j].source
                                   /\ edges'[j].target = edges[j].target
                                   /\ edges'[j].relation = edges[j].relation
<1>1. CASE i \in DOMAIN edges
  <2>1. /\ DOMAIN edges' = DOMAIN edges
        /\ \A j \in DOMAIN edges : j # i => edges'[j] = edges[j]
        /\ edges'[i] = [edges[i] EXCEPT !.status = status]
    BY <1>1 DEF UpdateEdgeStatus, SetStatus
  <2> QED BY <1>1, <2>1 DEF EdgesSound, EdgeFields
<1>2. CASE i \notin DOMAIN edges
  BY <1>2 DEF UpdateEdgeStatus, SetStatus, EdgesSound
<1> QED BY <1>1, <1>2

-----------------------------------------------------------------------------
(* The steps of a retraction *)

LEMMA QueueFacts ==
  ASSUME NEW q, IsQueue(q)
  PROVE  /\ q # <<>> => IsQueue(Tail(q)) /\ Range(q) = {Head(q)} \cup Range(Tail(q))
         /\ \A e : IsQueue(Append(q, e)) /\ Range(Append(q, e)) = Range(q) \cup {e}
<1>1. PICK S : q \in Seq(S)
  BY DEF IsQueue
<1>2. ASSUME q # <<>>
      PROVE  IsQueue(Tail(q)) /\ Range(q) = {Head(q)} \cup Range(Tail(q))
  <2>1. /\ Tail(q) \in Seq(S) /\ Head(q) = q[1] /\ Len(q) \in Nat \ {0}
        /\ Len(Tail(q)) = Len(q) - 1 /\ \A k \in 1..(Len(q) - 1) : Tail(q)[k] = q[k + 1]
        /\ DOMAIN q = 1..Len(q) /\ DOMAIN Tail(q) = 1..(Len(q) - 1)
    BY <1>1, <1>2
  <2>2. Range(q) \subseteq {Head(q)} \cup Range(Tail(q))
    <3> SUFFICES ASSUME NEW k \in 1..Len(q) PROVE q[k] \in {Head(q)} \cup Range(Tail(q))
      BY <2>1 DEF Range
    <3>1. CASE k = 1
      BY <2>1, <3>1
    <3>2. CASE k # 1
      <4>1. k - 1 \in 1..(Len(q) - 1) /\ Tail(q)[k - 1] = q[k]
        BY <2>1, <3>2
      <4> QED BY <2>1, <4>1 DEF Range
    <3> QED BY <3>1, <3>2
  <2>3. {Head(q)} \cup Range(Tail(q)) \subseteq Range(q)
    <3>1. Head(q) \in Range(q)
      BY <2>1 DEF Range
    <3>2. ASSUME NEW k \in 1..(Len(q) - 1) PROVE Tail(q)[k] \in Range(q)
      <4>1. k + 1 \in 1..Len(q) /\ Tail(q)[k] = q[k + 1]
        BY <2>1
      <4> QED BY <2>1, <4>1 DEF Range
    <3> QED BY <2>1, <3>1, <3>2 DEF Range
  <2> QED BY <2>1, <2>2, <2>3 DEF IsQueue
<1>3. ASSUME NEW e
      PROVE  IsQueue(Append(q, e)) /\ Range(Append(q, e)) = Range(q) \cup {e}
  <2>1. q \in Seq(S \cup {e})
    BY <1>1
  <2>2. /\ Append(q, e) \in Seq(S \cup {e}) /\ Len(q) \in Nat
        /\ DOMAIN q = 1..Len(q) /\ DOMAIN Append(q, e) = 1..(Len(q) + 1)
        /\ \A k \in 1..Len(q) : Append(q, e)[k] = q[k]
        /\ Append(q, e)[Len(q) + 1] = e
    BY <2>1
  <2>3. 1..(Len(q) + 1) = 1..Len(q) \cup {Len(q) + 1}
    BY <2>2
  <2>4. Range(Append(q, e)) = Range(q) \cup {e}
    BY <2>2, <2>3 DEF Range
  <2> QED BY <2>2, <2>4 DEF IsQueue
<1> QED BY <1>2, <1>3

\* What the other retractions owe stays owed.
LEMMA OthersOwe ==
  ASSUME NEW r \in Retractors, NEW i \in DOMAIN edges,
         \A s \in Retractors : s # r => tms'[s] = tms[s],
         edges'[i].source = edges[i].source, edges'[i].target = edges[i].target
  PROVE  \A s \in Retractors : s # r /\ Owed(s, i) => Owed(s, i)'
BY DEF Owed

LEMMA RetractorTyped ==
  ASSUME RetractionsSound, NEW r \in Retractors,
         DOMAIN tms' = Retractors, \A s \in Retractors : s # r => tms'[s] = tms[s],
         tms'[r] = NoCall \/ CascadeSound(tms'[r]) \/ DowngradeSound(tms'[r])
  PROVE  RetractionsSound'
BY DEF RetractionsSound, CascadeSound, DowngradeSound

\* A step of retraction r that writes no node, and after which r owes what it owed.
LEMMA RetractorMoves ==
  ASSUME GraphSound, RetractionsSound, NEW r \in Retractors, UNCHANGED nodeVars, EdgesSound',
         DOMAIN tms' = Retractors, \A s \in Retractors : s # r => tms'[s] = tms[s],
         tms'[r] = NoCall \/ CascadeSound(tms'[r]) \/ DowngradeSound(tms'[r]),
         DOMAIN edges' = DOMAIN edges,
         \A j \in DOMAIN edges : /\ edges'[j].source = edges[j].source
                                /\ edges'[j].target = edges[j].target
                                /\ edges'[j].relation = edges[j].relation,
         \A i \in JustifyingEdges : Owed(r, i) => Owed(r, i)'
  PROVE  GraphSound' /\ RetractionsSound'
<1>1. NodesSound' /\ RetractedSound'
  BY DEF GraphSound, NodesSound, RetractedSound, StatusOf, nodeVars
<1>2. JustificationsFollowed'
  <2> SUFFICES ASSUME NEW i \in JustifyingEdges, edges[i].target \in retracted
               PROVE  Answered(i)'
    BY DEF JustificationsFollowed, JustifyingEdges, nodeVars
  <2>1. i \in DOMAIN edges /\ Answered(i)
    BY DEF GraphSound, JustificationsFollowed, JustifyingEdges
  <2>2. \A s \in Retractors : Owed(s, i) => Owed(s, i)'
    BY <2>1, OthersOwe
  <2> QED BY <2>1, <2>2 DEF Answered, nodeVars
<1>3. RetractionsSound'
  BY RetractorTyped
<1> QED BY <1>1, <1>2, <1>3 DEF GraphSound

LEMMA CascadeStarts == ASSUME NEW root PROVE CascadeSound(Cascade(root))
<1>1. <<root>> \in Seq({root})
  OBVIOUS
<1> QED BY <1>1 DEF CascadeSound, Cascade, CascadeFields, IsQueue

\* A node that is visited is retracted, and everything it justifies is owed or was visited.
LEMMA PopKeeps ==
  ASSUME GraphSound, RetractionsSound, NEW r \in Retractors, PopNode(r)
  PROVE  GraphSound' /\ RetractionsSound'
<1> DEFINE x == tms[r]
<1>0. PICK n : n = Head(x.queue)
  OBVIOUS
<1>1. /\ x.pc = "pop" /\ x.queue # <<>> /\ UNCHANGED edges /\ CascadeSound(x)
      /\ DOMAIN tms = Retractors
  BY DEF PopNode, RetractionsSound, DowngradeSound, NoCall
<1>2. IsQueue(Tail(x.queue)) /\ Range(x.queue) = {n} \cup Range(Tail(x.queue))
  BY <1>0, <1>1, QueueFacts DEF CascadeSound
<1>3. CASE n \in x.visited
  <2>1. UNCHANGED nodeVars /\ tms' = [tms EXCEPT ![r].queue = Tail(@)]
    BY <1>0, <1>3 DEF PopNode
  <2>2. /\ DOMAIN tms' = Retractors /\ \A s \in Retractors : s # r => tms'[s] = tms[s]
        /\ tms'[r] = [x EXCEPT !.queue = Tail(@)]
    BY <1>1, <2>1
  <2>3. /\ CascadeSound(tms'[r]) /\ tms'[r].pc = "pop" /\ tms'[r].queue = Tail(x.queue)
        /\ tms'[r].visited = x.visited
    BY <1>1, <1>2, <2>2 DEF CascadeSound, CascadeFields
  <2>4. \A i \in JustifyingEdges : Owed(r, i) => Owed(r, i)'
    BY <1>1, <1>2, <1>3, <2>3 DEF Owed
  <2>5. EdgesSound'
    BY <1>1 DEF GraphSound, EdgesSound
  <2> HIDE DEF x
  <2> QED BY <1>1, <2>1, <2>2, <2>3, <2>4, <2>5, RetractorMoves
<1>4. CASE n \notin x.visited
  <2>1. /\ nodes' = SetStatus(nodes, n, "INVALIDATED")
        /\ retracted' = retracted \cup {n}
        /\ excused' = {p \in excused : n \notin {p[1], p[2]}}
                        \cup ((x.visited \ retracted) \X {n})
        /\ tms' = [tms EXCEPT ![r] = [x EXCEPT !.pc = "incoming", !.queue = Tail(@),
                                          !.visited = @ \cup {n}, !.at = n]]
    BY <1>0, <1>4 DEF PopNode
  <2>2. /\ DOMAIN tms' = Retractors /\ \A s \in Retractors : s # r => tms'[s] = tms[s]
        /\ tms'[r] = [x EXCEPT !.pc = "incoming", !.queue = Tail(@),
                               !.visited = @ \cup {n}, !.at = n]
    BY <1>1, <2>1
  <2>3. /\ CascadeSound(tms'[r]) /\ tms'[r].pc = "incoming" /\ tms'[r].at = n
        /\ tms'[r].queue = Tail(x.queue) /\ tms'[r].visited = x.visited \cup {n}
    BY <1>1, <1>2, <2>2 DEF CascadeSound, CascadeFields
  <2>4. /\ NodesSound' /\ \A m : m # n => StatusOf(m)' = StatusOf(m)
        /\ StatusOf(n)' \in {"INVALIDATED", "absent"}
    BY <2>1, StatusSet DEF GraphSound
  <2>5. RetractedSound'
    BY <2>1, <2>4 DEF GraphSound, RetractedSound
  <2> HIDE DEF x
  <2>6. JustificationsFollowed'
    <3> SUFFICES ASSUME NEW i \in JustifyingEdges, edges[i].target \in retracted'
                 PROVE  Answered(i)'
      BY <1>1 DEF JustificationsFollowed, JustifyingEdges
    <3> DEFINE source == edges[i].source
               target == edges[i].target
    <3>1. i \in DOMAIN edges /\ edges'[i] = edges[i]
      BY <1>1 DEF JustifyingEdges
    <3>2. CASE source \in retracted'
      BY <3>1, <3>2 DEF Answered
    <3>3. CASE source \notin retracted' /\ target = n
      <4>1. source # n /\ source \notin retracted
        BY <2>1, <3>3
      <4>2. CASE source \in x.visited
        <5>1. <<source, target>> \in excused'
          BY <2>1, <3>3, <4>1, <4>2
        <5> QED BY <3>1, <5>1 DEF Answered
      <4>3. CASE source \notin x.visited
        <5>1. Owed(r, i)'
          BY <2>3, <3>1, <3>3, <4>1, <4>3 DEF Owed
        <5> QED BY <5>1 DEF Answered
      <4> QED BY <4>2, <4>3
    <3>4. CASE source \notin retracted' /\ target # n
      <4>1. source # n /\ source \notin retracted /\ target \in retracted
        BY <2>1, <3>4
      <4>2. <<source, target>> \in excused \/ \E s \in Retractors : Owed(s, i)
        BY <3>1, <4>1 DEF GraphSound, JustificationsFollowed, Answered
      <4>3. CASE <<source, target>> \in excused
        <5>1. <<source, target>> \in excused'
          BY <2>1, <3>4, <4>1, <4>3
        <5> QED BY <3>1, <5>1 DEF Answered
      <4>4. ASSUME NEW s \in Retractors, Owed(s, i) PROVE Owed(s, i)'
        <5>1. CASE s = r
          BY <1>1, <1>2, <2>3, <3>1, <4>1, <4>4, <5>1 DEF Owed, x
        <5>2. CASE s # r
          BY <2>2, <3>1, <4>4, <5>2 DEF Owed
        <5> QED BY <5>1, <5>2
      <4> QED BY <4>2, <4>3, <4>4 DEF Answered
    <3> QED BY <3>2, <3>3, <3>4
  <2>7. EdgesSound'
    BY <1>1 DEF GraphSound, EdgesSound
  <2>8. RetractionsSound'
    BY <2>2, <2>3, RetractorTyped
  <2> QED BY <2>4, <2>5, <2>6, <2>7, <2>8 DEF GraphSound
<1> QED BY <1>3, <1>4

LEMMA WalkKeeps ==
  ASSUME GraphSound, RetractionsSound, NEW r \in Retractors,
         \/ ReadIncoming(r) \/ MarkIncoming(r) \/ ReadOutgoing(r) \/ MarkOutgoing(r)
         \/ NextNode(r)
  PROVE  GraphSound' /\ RetractionsSound'
<1> DEFINE x == tms[r]
<1>1. CascadeSound(x) /\ DOMAIN tms = Retractors /\ EdgesSound
  BY DEF ReadIncoming, MarkIncoming, ReadOutgoing, MarkOutgoing, NextNode, RetractionsSound,
         DowngradeSound, NoCall, GraphSound
<1>2. /\ DOMAIN tms' = Retractors /\ \A s \in Retractors : s # r => tms'[s] = tms[s]
      /\ UNCHANGED nodeVars
  BY <1>1 DEF ReadIncoming, MarkIncoming, ReadOutgoing, MarkOutgoing, NextNode, graph,
              UpdateEdgeStatus
<1>3. /\ EdgesSound' /\ DOMAIN edges' = DOMAIN edges
      /\ \A j \in DOMAIN edges : /\ edges'[j].source = edges[j].source
                                /\ edges'[j].target = edges[j].target
                                /\ edges'[j].relation = edges[j].relation
  <2>1. UNCHANGED edges \/ \E i : UpdateEdgeStatus(i, "INVALIDATED")
    BY DEF ReadIncoming, MarkIncoming, ReadOutgoing, MarkOutgoing, NextNode, graph
  <2> QED BY <1>1, <2>1, UpdateEdgeKeeps DEF EdgesSound
<1>4. /\ CascadeSound(tms'[r])
      /\ \A i \in JustifyingEdges : Owed(r, i) => Owed(r, i)'
  <2>1. CASE ReadIncoming(r)
    <3> DEFINE found == {i \in IncomingEdges(x.at) : edges[i].relation \in Justification}
    <3>1. x.pc = "incoming" /\ tms'[r] = [x EXCEPT !.pc = "mark", !.todo = found]
      BY <1>1, <2>1 DEF ReadIncoming
    <3>2. /\ CascadeSound(tms'[r]) /\ tms'[r].pc = "mark" /\ tms'[r].todo = found
          /\ tms'[r].queue = x.queue /\ tms'[r].visited = x.visited
      BY <1>1, <3>1 DEF CascadeSound, CascadeFields
    <3>3. \A i \in JustifyingEdges : edges[i].target = x.at => i \in found
      BY DEF JustifyingEdges, IncomingEdges
    <3> HIDE DEF found
    <3> QED BY <1>3, <3>1, <3>2, <3>3 DEF Owed, JustifyingEdges
  <2>2. CASE MarkIncoming(r)
    <3>1. PICK e \in x.todo :
            tms' = [tms EXCEPT ![r].queue = Append(@, edges[e].source), ![r].todo = @ \ {e}]
      BY <2>2 DEF MarkIncoming
    <3>2. /\ x.pc = "mark" 
          /\ tms'[r] = [x EXCEPT !.queue = Append(@, edges[e].source), !.todo = @ \ {e}]
      BY <1>1, <2>2, <3>1 DEF MarkIncoming
    <3>3. /\ IsQueue(Append(x.queue, edges[e].source))
          /\ Range(Append(x.queue, edges[e].source)) = Range(x.queue) \cup {edges[e].source}
      BY <1>1, QueueFacts DEF CascadeSound
    <3>4. /\ CascadeSound(tms'[r]) /\ tms'[r].pc = "mark" /\ tms'[r].todo = x.todo \ {e}
          /\ tms'[r].queue = Append(x.queue, edges[e].source) /\ tms'[r].visited = x.visited
      BY <1>1, <3>2, <3>3 DEF CascadeSound, CascadeFields
    <3> QED BY <1>3, <3>2, <3>3, <3>4 DEF Owed, JustifyingEdges
  <2>3. CASE ReadOutgoing(r)
    <3>1. /\ x.pc = "mark" /\ x.todo = {}
          /\ tms'[r] = [x EXCEPT !.pc = "outgoing", !.todo = OutgoingEdges(x.at)]
      BY <1>1, <2>3 DEF ReadOutgoing
    <3>2. /\ CascadeSound(tms'[r]) /\ tms'[r].pc = "outgoing"
          /\ tms'[r].queue = x.queue /\ tms'[r].visited = x.visited
      BY <1>1, <3>1 DEF CascadeSound, CascadeFields
    <3> QED BY <1>3, <3>1, <3>2 DEF Owed, JustifyingEdges
  <2>4. CASE MarkOutgoing(r)
    <3>1. PICK e \in x.todo : tms' = [tms EXCEPT ![r].todo = @ \ {e}]
      BY <2>4 DEF MarkOutgoing
    <3>2. x.pc = "outgoing" /\ tms'[r] = [x EXCEPT !.todo = @ \ {e}]
      BY <1>1, <2>4, <3>1 DEF MarkOutgoing
    <3>3. /\ CascadeSound(tms'[r]) /\ tms'[r].pc = "outgoing"
          /\ tms'[r].queue = x.queue /\ tms'[r].visited = x.visited
      BY <1>1, <3>2 DEF CascadeSound, CascadeFields
    <3> QED BY <1>3, <3>2, <3>3 DEF Owed, JustifyingEdges
  <2>5. CASE NextNode(r)
    <3>1. x.pc = "outgoing" /\ tms'[r] = [x EXCEPT !.pc = "pop"]
      BY <1>1, <2>5 DEF NextNode
    <3>2. /\ CascadeSound(tms'[r]) /\ tms'[r].pc = "pop"
          /\ tms'[r].queue = x.queue /\ tms'[r].visited = x.visited
      BY <1>1, <3>1 DEF CascadeSound, CascadeFields
    <3> QED BY <1>3, <3>1, <3>2 DEF Owed, JustifyingEdges
  <2> QED BY <2>1, <2>2, <2>3, <2>4, <2>5
<1> QED BY <1>2, <1>3, <1>4, RetractorMoves

\* Before a cascade and after its end nothing is owed; what a dead one owed is excused.
LEMMA CascadeEnds ==
  ASSUME GraphSound, RetractionsSound, NEW r \in Retractors,
         EndRetraction(r) \/ RetractorDies(r)
  PROVE  GraphSound' /\ RetractionsSound'
<1>1. /\ DOMAIN tms' = Retractors /\ \A s \in Retractors : s # r => tms'[s] = tms[s]
      /\ tms'[r] = NoCall /\ UNCHANGED <<nodes, edges, retracted>>
  BY DEF EndRetraction, RetractorDies, RetractionsSound, graph, nodeVars
<1>2. NodesSound' /\ EdgesSound' /\ RetractedSound'
  BY <1>1 DEF GraphSound, NodesSound, EdgesSound, RetractedSound, StatusOf
<1>3. RetractionsSound'
  BY <1>1, RetractorTyped
<1>4. excused \subseteq excused'
  BY DEF EndRetraction, RetractorDies, graph, nodeVars
<1>5. JustificationsFollowed'
  <2> SUFFICES ASSUME NEW i \in JustifyingEdges, edges[i].target \in retracted
               PROVE  Answered(i)'
    BY <1>1 DEF JustificationsFollowed, JustifyingEdges
  <2>1. i \in DOMAIN edges /\ Answered(i)
    BY DEF GraphSound, JustificationsFollowed, JustifyingEdges
  <2>2. \A s \in Retractors : s # r /\ Owed(s, i) => Owed(s, i)'
    BY <1>1, <2>1, OthersOwe
  <2>3. Owed(r, i) => <<edges[i].source, edges[i].target>> \in excused'
    <3>1. CASE EndRetraction(r)
      BY <3>1 DEF EndRetraction, Owed, Range
    <3>2. CASE RetractorDies(r)
      BY <2>1, <3>2 DEF RetractorDies
    <3> QED BY <3>1, <3>2
  <2> QED BY <1>1, <1>4, <2>1, <2>2, <2>3 DEF Answered
<1> QED BY <1>2, <1>3, <1>5 DEF GraphSound

LEMMA CallKeeps ==
  ASSUME GraphSound, RetractionsSound, NEW r \in Retractors,
         \/ \E n \in Retractable : Retract(r, n)
         \/ \E d \in Downgrades : CheckDowngrade(r, d[1], d[2])
  PROVE  GraphSound' /\ RetractionsSound'
<1>1. UNCHANGED <<nodeVars, edges>> /\ tms[r] = NoCall /\ DOMAIN tms = Retractors
  BY DEF Retract, CheckDowngrade, graph, RetractionsSound
<1>2. CascadeSound(tms'[r]) \/ DowngradeSound(tms'[r])
  <2>1. ASSUME NEW n \in Retractable, Retract(r, n) PROVE CascadeSound(tms'[r])
    <3>1. tms'[r] = Cascade(n)
      BY <1>1, <2>1 DEF Retract
    <3> QED BY <3>1, CascadeStarts
  <2>2. ASSUME NEW d \in Downgrades, CheckDowngrade(r, d[1], d[2])
        PROVE  DowngradeSound(tms'[r])
    BY <1>1, <2>2 DEF CheckDowngrade, DowngradeSound
  <2> QED BY <2>1, <2>2
<1>3. DOMAIN tms' = Retractors /\ \A s \in Retractors : s # r => tms'[s] = tms[s]
  BY <1>1 DEF Retract, CheckDowngrade
<1>4. \A i \in JustifyingEdges : ~Owed(r, i)
  BY <1>1 DEF Owed, NoCall
<1>5. EdgesSound'
  BY <1>1 DEF GraphSound, EdgesSound
<1> QED BY <1>1, <1>2, <1>3, <1>4, <1>5, RetractorMoves

LEMMA DowngradeKeeps ==
  ASSUME GraphSound, RetractionsSound, NEW r \in Retractors, WriteDowngrade(r)
  PROVE  GraphSound' /\ RetractionsSound'
<1> DEFINE x == tms[r]
<1>1. /\ x.pc = "downgrade" /\ UpdateNodeStatus(x.root, x.status) /\ UNCHANGED edges
      /\ tms' = [tms EXCEPT ![r] = IF x.status \in {"INVALIDATED", "CONTESTED"}
                                     THEN Cascade(x.root) ELSE NoCall]
  BY DEF WriteDowngrade
<1>2. /\ DOMAIN tms' = Retractors /\ \A s \in Retractors : s # r => tms'[s] = tms[s]
      /\ tms'[r] = NoCall \/ CascadeSound(tms'[r])
  BY <1>1, CascadeStarts DEF RetractionsSound
<1>3. RetractionsSound'
  BY <1>2, RetractorTyped
<1>4. NodesSound' /\ \A m : m # x.root => StatusOf(m)' = StatusOf(m)
  BY <1>1, StatusSet DEF GraphSound, UpdateNodeStatus
<1>5. \A s \in Retractors, i \in DOMAIN edges : Owed(s, i) => Owed(s, i)'
  <2> SUFFICES ASSUME NEW s \in Retractors, NEW i \in DOMAIN edges, Owed(s, i)
               PROVE  Owed(s, i)'
    OBVIOUS
  <2>1. s # r
    BY <1>1 DEF Owed
  <2> QED BY <1>1, <1>2, <2>1 DEF Owed
<1>6. GraphSound'
  BY <1>1, <1>4, <1>5, RenewedKeeps DEF UpdateNodeStatus
<1> QED BY <1>3, <1>6

LEMMA TmsStep ==
  ASSUME GraphSound, RetractionsSound, TmsNext PROVE GraphSound' /\ RetractionsSound'
BY PopKeeps, WalkKeeps, CascadeEnds, CallKeeps, DowngradeKeeps DEF TmsNext

-----------------------------------------------------------------------------
(* The steps of the other writers *)

LEMMA GraphUnchanged == ASSUME GraphSound, UNCHANGED <<graph, tms>> PROVE GraphSound'
BY DEF GraphSound, NodesSound, EdgesSound, RetractedSound, JustificationsFollowed,
       JustifyingEdges, Answered, Owed, StatusOf, graph, nodeVars

LEMMA ProjectionStep ==
  ASSUME GraphSound, ProjectionsSound, ProjectionNext, UNCHANGED tms
  PROVE  GraphSound' /\ ProjectionsSound'
<1>0. PICK p \in Projectors :
        \/ \E receipt \in Receipts : ProjectObjective(p, receipt)
        \/ ProjectCandidate(p) \/ ProjectDerivation(p)
        \/ ProjectVerifier(p) \/ ProjectVerification(p) \/ ProjectorDies(p)
  BY DEF ProjectionNext
<1>1. ASSUME NEW receipt \in Receipts, ProjectObjective(p, receipt)
      PROVE  GraphSound' /\ ProjectionsSound'
  <2>1. UpsertNode(receipt.task, Node("OBJECTIVE", "AUTHORITATIVE", "")) /\ UNCHANGED edges
    BY <1>1 DEF ProjectObjective
  <2>2. GraphSound'
    BY <2>1, UpsertNodeKeeps
  <2>3. ProjectionsSound'
    BY <1>1 DEF ProjectObjective, ProjectionsSound, NotProjecting
  <2> QED BY <2>2, <2>3
<1>2. ASSUME NEW step, At(p, step)
      PROVE  ProjectionsSound' /\ projection[p].receipt \in Receipts
  <2> DEFINE x == projection[p]
  <2>1. /\ x # NotProjecting
        /\ projection'[p] = NotProjecting \/ projection'[p] = [x EXCEPT !.todo = Tail(@)]
        /\ DOMAIN projection' = Projectors
        /\ \A q \in Projectors : q # p => projection'[q] = projection[q]
    BY <1>2 DEF At, ProjectionsSound
  <2>2. DOMAIN x = {"receipt", "todo"} /\ x.receipt \in Receipts
    BY <2>1 DEF ProjectionsSound
  <2>3. \/ projection'[p] = NotProjecting
        \/ DOMAIN projection'[p] = {"receipt", "todo"} /\ projection'[p].receipt \in Receipts
    BY <2>1, <2>2
  <2> QED BY <2>1, <2>2, <2>3 DEF ProjectionsSound
<1>3. CASE ProjectCandidate(p)
  <2>1. /\ At(p, "candidate") /\ UNCHANGED edges
        /\ UpsertNode(projection[p].receipt.candidate,
                      Node("CANDIDATE", CandidateStatus(projection[p].receipt), ""))
    BY <1>3 DEF ProjectCandidate
  <2>2. GraphSound'
    BY <1>2, <2>1, UpsertNodeKeeps
  <2> QED BY <1>2, <2>1, <2>2
<1>4. CASE ProjectVerifier(p)
  <2>1. /\ At(p, "verifier") /\ UNCHANGED edges
        /\ UpsertNode(projection[p].receipt.verifier,
                      Node("VERIFIER", VerifierStatus(projection[p].receipt), ""))
    BY <1>4 DEF ProjectVerifier
  <2>2. GraphSound'
    BY <1>2, <2>1, UpsertNodeKeeps
  <2> QED BY <1>2, <2>1, <2>2
<1>5. CASE ProjectDerivation(p) \/ ProjectVerification(p)
  <2>1. /\ \E step : At(p, step)
        /\ \E i, source, relation, target, status :
             UpsertEdge(i, Edge(source, relation, target, status))
    BY <1>5 DEF ProjectDerivation, ProjectVerification
  <2> QED BY <1>2, <2>1, UpsertEdgeKeeps
<1>6. CASE ProjectorDies(p)
  <2>1. UNCHANGED graph
    BY <1>6 DEF ProjectorDies
  <2>2. ProjectionsSound'
    BY <1>6 DEF ProjectorDies, ProjectionsSound
  <2> QED BY <2>1, <2>2, GraphUnchanged
<1> QED BY <1>0, <1>1, <1>3, <1>4, <1>5, <1>6

LEMMA PlanningStep ==
  ASSUME GraphSound, PlannersSound, PlanningNext, UNCHANGED tms
  PROVE  GraphSound' /\ PlannersSound'
<1>0. PICK p \in Planners :
        \/ BeginPlan(p) \/ MatchRequirement(p) \/ LinkRequirement(p) \/ EndPlan(p)
        \/ RejectCandidate(p) \/ ProvisionCapability(p) \/ SupersedeGap(p)
  BY DEF PlanningNext
<1> DEFINE x == planner[p]
<1>1. x.unresolved \in Seq(GapNodes) /\ <<>> \in Seq(GapNodes)
  BY DEF PlannersSound
<1>2. ASSUME DOMAIN planner' = Planners, \A q \in Planners : q # p => planner'[q] = planner[q],
             gaps' \in Nat, planner'[p].unresolved \in Seq(GapNodes),
             planner'[p].pc = "supersede" => planner'[p].unresolved # <<>>
      PROVE  PlannersSound'
  BY <1>2 DEF PlannersSound
<1>4. CASE BeginPlan(p)
  <2>1. /\ planner' = [planner EXCEPT ![p] = Planning] /\ UNCHANGED gaps
        /\ UNCHANGED edges
        /\ UNCHANGED nodeVars \/ UpsertNode(Objective, Node("OBJECTIVE", "OBSERVED", ""))
    BY <1>4 DEF BeginPlan
  <2>2. GraphSound'
    BY <2>1, GraphUnchanged, UpsertNodeKeeps DEF graph
  <2>3. PlannersSound'
    BY <1>1, <1>2, <2>1 DEF PlannersSound, Planning
  <2> QED BY <2>2, <2>3
<1>5. CASE MatchRequirement(p)
  <2>1. CASE UNCHANGED <<nodeVars, gaps>>
    <3>1. \E n : planner' = [planner EXCEPT ![p] =
               [pc |-> "link", at |-> x.at, path |-> x.path \cup {n}, unresolved |-> x.unresolved,
                node |-> n, relation |-> "REQUIRES", status |-> "QUALIFIED"]]
      BY <1>5, <2>1 DEF MatchRequirement, PlannersSound
    <3>2. PlannersSound'
      BY <1>1, <1>2, <2>1, <3>1 DEF PlannersSound
    <3>3. UNCHANGED graph
      BY <1>5, <2>1 DEF MatchRequirement, graph
    <3> QED BY <3>2, <3>3, GraphUnchanged
  <2>2. CASE ~UNCHANGED <<nodeVars, gaps>>
    <3>1. /\ gaps' = gaps + 1 /\ UNCHANGED edges
          /\ UpsertNode(GapNode(gaps),
                        Node("ACQUISITION_TARGET", "PROPOSED", Requirements[x.at]))
          /\ planner' = [planner EXCEPT ![p] =
               [pc |-> "link", at |-> x.at, path |-> x.path,
                unresolved |-> Append(x.unresolved, GapNode(gaps)),
                node |-> GapNode(gaps), relation |-> "BLOCKS", status |-> "PROPOSED"]]
      BY <1>5, <2>2 DEF MatchRequirement
    <3>2. gaps \in Nat /\ GapNode(gaps) \in GapNodes
      BY DEF PlannersSound, GapNodes
    <3>3. GraphSound'
      BY <3>1, <3>2, UpsertNodeKeeps
    <3>4. Append(x.unresolved, GapNode(gaps)) \in Seq(GapNodes)
      BY <1>1, <3>2
    <3>5. /\ DOMAIN planner' = Planners /\ \A q \in Planners : q # p => planner'[q] = planner[q]
          /\ planner'[p].unresolved = Append(x.unresolved, GapNode(gaps))
          /\ planner'[p].pc = "link"
      BY <3>1 DEF PlannersSound
    <3>6. PlannersSound'
      BY <1>2, <3>1, <3>2, <3>4, <3>5
    <3> QED BY <3>3, <3>6
  <2> QED BY <2>1, <2>2
<1>6. CASE LinkRequirement(p) \/ EndPlan(p)
  <2>1. /\ UNCHANGED gaps
        /\ UNCHANGED graph \/ \E i, source, relation, target, status :
                               UpsertEdge(i, Edge(source, relation, target, status))
    BY <1>6 DEF LinkRequirement, EndPlan
  <2>2. /\ DOMAIN planner' = Planners /\ \A q \in Planners : q # p => planner'[q] = planner[q]
        /\ planner'[p].unresolved = x.unresolved /\ planner'[p].pc \in {"match", "idle"}
    BY <1>6 DEF LinkRequirement, EndPlan, PlannersSound
  <2>3. PlannersSound'
    BY <1>1, <1>2, <2>1, <2>2 DEF PlannersSound
  <2> QED BY <2>1, <2>3, GraphUnchanged, UpsertEdgeKeeps
<1>7. CASE RejectCandidate(p)
  <2>1. /\ UpdateNodeStatus(Head(x.unresolved), "INVALIDATED") /\ UNCHANGED <<edges, gaps>>
        /\ planner' = [planner EXCEPT ![p] = Planning]
    BY <1>7 DEF RejectCandidate
  <2>2. GraphSound'
    BY <2>1, UpdateNodeKeeps
  <2>3. PlannersSound'
    BY <1>1, <1>2, <2>1 DEF PlannersSound, Planning
  <2> QED BY <2>2, <2>3
<1>8. CASE ProvisionCapability(p)
  <2> DEFINE gap == Head(x.unresolved)
  <2>1. /\ x.unresolved # <<>> /\ UNCHANGED <<edges, gaps>>
        /\ UpsertNode(CapabilityNode(gap), Node("CAPABILITY", "QUALIFIED", nodes[gap].about))
        /\ planner' = [planner EXCEPT ![p] = [x EXCEPT !.pc = "supersede"]]
    BY <1>8 DEF ProvisionCapability
  <2>2. GraphSound'
    BY <2>1, UpsertNodeKeeps
  <2>3. PlannersSound'
    BY <1>1, <1>2, <2>1 DEF PlannersSound
  <2> QED BY <2>2, <2>3
<1>9. CASE SupersedeGap(p)
  <2>1. /\ x.pc = "supersede" /\ UpdateNodeStatus(Head(x.unresolved), "SUPERSEDED")
        /\ UNCHANGED <<edges, gaps>>
        /\ planner' = [planner EXCEPT ![p] = Planning]
    BY <1>9 DEF SupersedeGap
  <2>2. GraphSound'
    BY <2>1, UpdateNodeKeeps
  <2>3. PlannersSound'
    BY <1>1, <1>2, <2>1 DEF PlannersSound, Planning
  <2> QED BY <2>2, <2>3
<1> QED BY <1>0, <1>4, <1>5, <1>6, <1>7, <1>8, <1>9

-----------------------------------------------------------------------------
(* Evaluations *)

\* What becomes usable is raised, so a step of another process keeps what was found.
LEMMA WatchingKeeps == ASSUME EvaluatorsSound, Watching PROVE EvaluatorsSound'
<1>1. /\ UNCHANGED evaluator /\ DOMAIN raised' = Evaluators
      /\ \A v \in Evaluators :
           raised'[v] = IF evaluator[v].pc \in {"requirement", "evidence"}
                        THEN raised[v] \cup {n \in Watched : ~Live(n) /\ Live(n)'} ELSE raised[v]
  BY DEF Watching
<1>2. ASSUME NEW v \in Evaluators, EvaluationSound(v) PROVE EvaluationSound(v)'
  <2> DEFINE x == evaluator[v]
             seen == x.live \cup raised[v]
  <2>1. raised'[v] = raised[v] \cup {n \in Watched : ~Live(n) /\ Live(n)'}
    BY <1>1, <1>2 DEF EvaluationSound
  <2>2. \A n \in Watched : Live(n)' => n \in x.live \cup raised'[v]
    BY <1>2, <2>1 DEF EvaluationSound
  <2>3. \A r : Supported(v, r) => Supported(v, r)'
    BY <1>1, <2>1 DEF Supported, AllStand
  <2>4. x.pc = "evidence" =>
          x.kept \in Seq(Range(EvidenceFor[Claims[Head(x.requirements).id].id])
                           \cap (x.live \cup raised'[v]))
    <3> DEFINE S == Range(EvidenceFor[Claims[Head(x.requirements).id].id])
    <3>1. SUFFICES ASSUME x.pc = "evidence" PROVE x.kept \in Seq(S \cap (x.live \cup raised'[v]))
      OBVIOUS
    <3>2. x.kept \in Seq(S \cap (x.live \cup raised[v]))
      BY <1>2, <3>1 DEF EvaluationSound
    <3>3. S \cap (x.live \cup raised[v]) \subseteq S \cap (x.live \cup raised'[v])
      BY <2>1
    <3> HIDE DEF S, x
    <3> QED BY <3>2, <3>3
  <2> QED BY <1>1, <1>2, <2>1, <2>2, <2>3, <2>4 DEF EvaluationSound, Watched
<1>3. ASSUME NEW v \in Evaluators, ProofSound(v) PROVE ProofSound(v)'
  BY <1>1, <1>3 DEF ProofSound, Supported, AllStand
<1> QED BY <1>1, <1>2, <1>3 DEF EvaluatorsSound

LEMMA SequenceFacts ==
  ASSUME NEW S, NEW q \in Seq(S)
  PROVE  /\ q \in Seq(Range(q)) /\ Range(q) \subseteq S
         /\ q # <<>> => Head(q) \in S /\ Tail(q) \in Seq(S)
<1>1. Len(q) \in Nat /\ DOMAIN q = 1..Len(q) /\ q = [k \in 1..Len(q) |-> q[k]]
  OBVIOUS
<1>2. \A k \in 1..Len(q) : q[k] \in Range(q) /\ q[k] \in S
  BY <1>1 DEF Range
<1>3. q \in Seq(Range(q))
  BY <1>1, <1>2
<1>4. Range(q) \subseteq S
  BY <1>1, <1>2 DEF Range
<1>5. q # <<>> => Head(q) \in S /\ Tail(q) \in Seq(S)
  OBVIOUS
<1> QED BY <1>3, <1>4, <1>5

\* A step of evaluation v over the graph as it is.
LEMMA EvaluatorMoves ==
  ASSUME EvaluatorsSound, NEW v \in Evaluators, UNCHANGED nodes,
         DOMAIN evaluator' = Evaluators, DOMAIN raised' = Evaluators,
         \A w \in Evaluators : w # v => evaluator'[w] = evaluator[w] /\ raised'[w] = raised[w],
         EvaluationSound(v)' \/ ProofSound(v)'
  PROVE  EvaluatorsSound'
<1>1. ASSUME NEW w \in Evaluators, w # v
      PROVE  (evaluator[w] = NoProof \/ EvaluationSound(w) \/ ProofSound(w))'
  BY <1>1 DEF EvaluatorsSound, EvaluationSound, ProofSound, Supported, Live, StatusOf
<1> QED BY <1>1 DEF EvaluatorsSound

\* What is read usable was usable at the beginning, or was raised.
LEMMA EvaluationStep ==
  ASSUME EvaluatorsSound, EvaluationNext PROVE EvaluatorsSound'
<1>0. PICK v \in Evaluators :
        \/ \E spec \in Specifications, rule \in CompositionRule : BeginEvaluation(v, spec, rule)
        \/ ReadRequirement(v) \/ FilterEvidence(v) \/ JudgeRequirement(v) \/ EndEvaluation(v)
  BY DEF EvaluationNext
<1> DEFINE x == evaluator[v]
           req == Head(x.requirements)
           seen == x.live \cup raised[v]
<1>1. UNCHANGED nodes /\ DOMAIN evaluator = Evaluators /\ DOMAIN raised = Evaluators
  BY <1>0 DEF BeginEvaluation, ReadRequirement, FilterEvidence, JudgeRequirement,
              EndEvaluation, graph, nodeVars, EvaluatorsSound
<1>2. \A n : Live(n)' <=> Live(n)
  BY <1>1 DEF Live, StatusOf
<1>3. x.pc \in {"requirement", "evidence"} => EvaluationSound(v)
  BY DEF EvaluatorsSound, ProofSound, NoProof
<1>4. ASSUME NEW y, evaluator' = [evaluator EXCEPT ![v] = y], UNCHANGED raised,
             EvaluationSound(v)' \/ ProofSound(v)'
      PROVE  EvaluatorsSound'
  BY <1>1, <1>4, EvaluatorMoves
<1>5. ASSUME NEW spec \in Specifications, NEW rule \in CompositionRule,
             BeginEvaluation(v, spec, rule)
      PROVE  EvaluatorsSound'
  <2> DEFINE y == [pc |-> "requirement", requirements |-> spec.requirements,
                   either |-> rule = "AUTHORITATIVE_ALTERNATIVES",
                   satisfied |-> {}, unresolved |-> {}, falsified |-> {},
                   todo |-> <<>>, kept |-> <<>>, live |-> {n \in Watched : Live(n)}]
  <2>1. /\ DOMAIN evaluator' = Evaluators /\ DOMAIN raised' = Evaluators
        /\ \A w \in Evaluators : w # v => evaluator'[w] = evaluator[w] /\ raised'[w] = raised[w]
        /\ evaluator'[v] = y \/ evaluator'[v] = Proof(y, FALSE)
    BY <1>1, <1>5 DEF BeginEvaluation
  <2>2. CASE evaluator'[v] = y
    <3>1. EvaluationSound(v)'
      BY <1>2, <2>2 DEF EvaluationSound, EvaluationFields, Watched
    <3> QED BY <1>1, <2>1, <3>1, EvaluatorMoves
  <2>3. CASE evaluator'[v] = Proof(y, FALSE)
    <3>1. ProofSound(v)'
      BY <2>3 DEF ProofSound, Proof
    <3> QED BY <1>1, <2>1, <3>1, EvaluatorMoves
  <2> QED BY <2>1, <2>2, <2>3
<1>6. CASE ReadRequirement(v)
  <2>1. x.pc = "requirement" /\ EvaluationSound(v) /\ UNCHANGED raised
    BY <1>3, <1>6 DEF ReadRequirement
  <2>2. CASE req.id \notin DOMAIN Claims \/ ~Live(req.id)
    <3>1. evaluator' = [evaluator EXCEPT ![v] = Unresolved(x, req)]
      BY <1>6, <2>2 DEF ReadRequirement
    <3>2. /\ DOMAIN evaluator'[v] = EvaluationFields /\ evaluator'[v].pc = "requirement"
          /\ evaluator'[v].live = x.live /\ evaluator'[v].satisfied = x.satisfied
          /\ evaluator'[v].kept = x.kept
      BY <1>1, <2>1, <3>1 DEF Unresolved, EvaluationSound, EvaluationFields
    <3>3. EvaluationSound(v)'
      BY <1>2, <2>1, <3>2 DEF EvaluationSound, Supported, Watched
    <3> QED BY <1>4, <2>1, <3>1, <3>3
  <2>3. CASE req.id \in DOMAIN Claims /\ Live(req.id)
    <3> DEFINE offered == EvidenceFor[Claims[req.id].id]
    <3>1. evaluator' = [evaluator EXCEPT ![v] = [x EXCEPT !.pc = "evidence", !.todo = offered]]
      BY <1>6, <2>3 DEF ReadRequirement
    <3>2. /\ DOMAIN evaluator'[v] = EvaluationFields /\ evaluator'[v].pc = "evidence"
          /\ evaluator'[v].live = x.live /\ evaluator'[v].satisfied = x.satisfied
          /\ evaluator'[v].kept = <<>> /\ evaluator'[v].requirements = x.requirements
          /\ evaluator'[v].todo = offered
      BY <1>1, <2>1, <3>1 DEF EvaluationSound, EvaluationFields
    <3>3. req.id \in seen
      BY <2>1, <2>3 DEF EvaluationSound, Watched
    <3>4. offered \in Seq(Range(offered))
      BY <2>3, EvaluationAssumption, SequenceFacts
    <3> HIDE DEF offered
    <3>5. EvaluationSound(v)'
      <4>1. /\ \A n \in Watched : Live(n)' => n \in seen
            /\ \A r \in x.satisfied : Supported(v, r)
        BY <1>2, <2>1 DEF EvaluationSound
      <4>2. \A r : Supported(v, r) => Supported(v, r)'
        BY <2>1, <3>2 DEF Supported
      <4>3. <<>> \in Seq(Range(offered) \cap seen)
        OBVIOUS
      <4> QED BY <2>1, <2>3, <3>2, <3>3, <3>4, <4>1, <4>2, <4>3
              DEF EvaluationSound, Watched, offered
    <3> QED BY <1>4, <2>1, <3>1, <3>5
  <2> QED BY <2>2, <2>3
<1>7. CASE FilterEvidence(v)
  <2> DEFINE offered == Range(EvidenceFor[Claims[req.id].id])
             e == Head(x.todo)
             kept == IF Live(e) THEN Append(x.kept, e) ELSE x.kept
  <2>1. /\ x.pc = "evidence" /\ x.todo # <<>> /\ EvaluationSound(v) /\ UNCHANGED raised
        /\ evaluator' = [evaluator EXCEPT ![v] = [x EXCEPT !.todo = Tail(@), !.kept = kept]]
    BY <1>3, <1>7 DEF FilterEvidence
  <2>2. /\ x.todo \in Seq(offered) /\ x.kept \in Seq(offered \cap seen)
        /\ req.id \in DOMAIN Claims /\ req.id \in seen
    BY <2>1 DEF EvaluationSound
  <2>3. e \in offered /\ Tail(x.todo) \in Seq(offered)
    <3> HIDE DEF offered, seen, x
    <3> QED BY <2>1, <2>2, SequenceFacts
  <2>4. e \in Watched
    <3>1. EvidenceFor[Claims[req.id].id] \in Seq(DOMAIN Evidence)
      BY <2>2, EvaluationAssumption
    <3>2. offered \subseteq DOMAIN Evidence
      BY <3>1, SequenceFacts
    <3> QED BY <2>3, <3>2 DEF Watched
  <2>5. Live(e) => e \in seen
    BY <2>1, <2>4 DEF EvaluationSound
  <2>6. kept \in Seq(offered \cap seen)
    <3>1. CASE Live(e)
      <4>1. e \in offered \cap seen /\ kept = Append(x.kept, e)
        BY <2>3, <2>5, <3>1
      <4> HIDE DEF offered, seen, kept, e, x
      <4> QED BY <2>2, <4>1
    <3>2. CASE ~Live(e)
      BY <2>2, <3>2
    <3> QED BY <3>1, <3>2
  <2>7. /\ DOMAIN evaluator'[v] = EvaluationFields /\ evaluator'[v].pc = "evidence"
        /\ evaluator'[v].live = x.live /\ evaluator'[v].satisfied = x.satisfied
        /\ evaluator'[v].kept = kept /\ evaluator'[v].requirements = x.requirements
        /\ evaluator'[v].todo = Tail(x.todo)
    BY <1>1, <2>1 DEF EvaluationSound, EvaluationFields
  <2>8. EvaluationSound(v)'
    <3> HIDE DEF kept
    <3> QED BY <1>2, <2>1, <2>2, <2>3, <2>6, <2>7 DEF EvaluationSound, Supported, Watched
  <2> QED BY <1>4, <2>1, <2>8
<1>8. CASE JudgeRequirement(v)
  <2> DEFINE rest == [x EXCEPT !.pc = "requirement", !.requirements = Tail(@), !.kept = <<>>]
             evidence == [k \in DOMAIN x.kept |-> Evidence[x.kept[k]]]
             verdict == EvaluateClaim(Claims[req.id], evidence, ActiveCandidate, ActiveEnvironment)
             offered == EvidenceFor[Claims[req.id].id]
  <2>1. x.pc = "evidence" /\ EvaluationSound(v) /\ UNCHANGED raised
    BY <1>3, <1>8 DEF JudgeRequirement
  <2>2. /\ x.kept \in Seq(Range(offered) \cap seen)
        /\ req.id \in DOMAIN Claims /\ req.id \in seen
    BY <2>1 DEF EvaluationSound
  <2>3. verdict = "SUPPORTED" => \E k \in DOMAIN x.kept : Supports(Evidence[x.kept[k]])
    <3>1. verdict = "SUPPORTED" => \E ev \in Deduplicated(evidence) : Supports(ev)
      BY DEF EvaluateClaim
    <3>2. \A ev \in Deduplicated(evidence) : \E k \in DOMAIN x.kept : ev = Evidence[x.kept[k]]
      BY DEF Deduplicated
    <3> QED BY <3>1, <3>2
  <2>4. verdict = "SUPPORTED" => Supported(v, req.id)
    <3> SUFFICES ASSUME verdict = "SUPPORTED"
                 PROVE  \E k \in DOMAIN offered : offered[k] \in seen /\ Supports(Evidence[offered[k]])
      BY <2>2 DEF Supported, AllStand
    <3>1. PICK k \in DOMAIN x.kept : Supports(Evidence[x.kept[k]])
      BY <2>3
    <3>2. x.kept[k] \in Range(offered) \cap seen
      BY <2>2
    <3>3. PICK j \in DOMAIN offered : offered[j] = x.kept[k]
      BY <3>2 DEF Range
    <3> QED BY <3>1, <3>2, <3>3
  <2>5. \/ verdict = "SUPPORTED"
           /\ evaluator' = [evaluator EXCEPT ![v] = [rest EXCEPT !.satisfied = @ \cup {req.id}]]
        \/ evaluator' = [evaluator EXCEPT ![v] = [rest EXCEPT !.falsified = @ \cup {req.id}]]
        \/ evaluator' = [evaluator EXCEPT ![v] = [rest EXCEPT !.unresolved = @ \cup {req.id}]]
        \/ evaluator' = [evaluator EXCEPT ![v] = rest]
    <3> HIDE DEF rest, verdict
    <3> QED BY <1>8 DEF JudgeRequirement, rest, verdict
  <2>6. /\ DOMAIN rest = EvaluationFields /\ rest.live = x.live /\ rest.satisfied = x.satisfied
        /\ rest.pc = "requirement" /\ rest.kept = <<>>
    BY <2>1 DEF EvaluationSound, EvaluationFields
  <2> HIDE DEF rest, verdict
  <2>7. /\ DOMAIN evaluator'[v] = EvaluationFields /\ evaluator'[v].live = x.live
        /\ evaluator'[v].pc = "requirement" /\ evaluator'[v].kept = <<>>
        /\ \A r \in evaluator'[v].satisfied :
             r \in x.satisfied \/ (r = req.id /\ verdict = "SUPPORTED")
    BY <1>1, <2>5, <2>6 DEF EvaluationFields
  <2>8. \A r : Supported(v, r) => Supported(v, r)'
    BY <2>1, <2>7 DEF Supported
  <2>9. \A r \in evaluator'[v].satisfied : Supported(v, r)'
    BY <2>1, <2>4, <2>7, <2>8 DEF EvaluationSound
  <2>10. EvaluationSound(v)'
    BY <1>2, <2>1, <2>7, <2>9 DEF EvaluationSound, Watched
  <2> QED BY <1>4, <2>1, <2>5, <2>10
<1>9. CASE EndEvaluation(v)
  <2>1. /\ x.pc = "requirement" /\ EvaluationSound(v) /\ UNCHANGED raised
        /\ evaluator' = [evaluator EXCEPT ![v] = Proof(x, IsSatisfied(x))]
    BY <1>3, <1>9 DEF EndEvaluation
  <2>2. IsSatisfied(x) => x.satisfied # {}
    BY DEF IsSatisfied
  <2>3. /\ evaluator'[v].pc = "proof" /\ evaluator'[v].isSatisfied = IsSatisfied(x)
        /\ evaluator'[v].satisfied = x.satisfied /\ evaluator'[v].live = x.live
    BY <1>1, <2>1 DEF Proof
  <2>4. ProofSound(v)'
    BY <2>1, <2>2, <2>3 DEF EvaluationSound, ProofSound, Supported
  <2> QED BY <1>4, <2>1, <2>4
<1> QED BY <1>0, <1>5, <1>6, <1>7, <1>8, <1>9

-----------------------------------------------------------------------------
(* The theorems *)

LEMMA NextIInv == ASSUME IInv, [Next]_vars PROVE IInv'
<1> USE DEF IInv
<1>1. UNCHANGED tms => RetractionsSound'
  BY DEF RetractionsSound, CascadeSound, DowngradeSound
<1>2. UNCHANGED projection => ProjectionsSound'
  BY DEF ProjectionsSound
<1>3. UNCHANGED <<planner, gaps>> => PlannersSound'
  BY DEF PlannersSound
<1>4. CASE TmsNext /\ UNCHANGED <<projection, planningVars>> /\ Watching
  BY <1>2, <1>3, <1>4, TmsStep, WatchingKeeps DEF planningVars
<1>5. CASE ProjectionNext /\ UNCHANGED <<tmsVars, planningVars>> /\ Watching
  BY <1>1, <1>3, <1>5, ProjectionStep, WatchingKeeps DEF tmsVars, planningVars
<1>6. CASE PlanningNext /\ UNCHANGED <<tmsVars, projection>> /\ Watching
  BY <1>1, <1>2, <1>6, PlanningStep, WatchingKeeps DEF tmsVars
<1>7. CASE EvaluationNext /\ UNCHANGED <<tmsVars, projection, planningVars>>
  <2>1. UNCHANGED graph
    BY <1>7 DEF EvaluationNext, BeginEvaluation, ReadRequirement, FilterEvidence,
                JudgeRequirement, EndEvaluation
  <2> QED BY <1>1, <1>2, <1>3, <1>7, <2>1, EvaluationStep, GraphUnchanged
          DEF tmsVars, planningVars
<1>8. CASE UNCHANGED vars
  <2>1. GraphSound'
    BY <1>8, GraphUnchanged DEF vars, tmsVars
  <2>2. EvaluatorsSound'
    BY <1>8 DEF vars, graph, nodeVars, EvaluatorsSound, EvaluationSound, ProofSound, Supported,
                Live, StatusOf
  <2> QED BY <1>1, <1>2, <1>3, <1>8, <2>1, <2>2 DEF vars, tmsVars, planningVars
<1> QED BY <1>4, <1>5, <1>6, <1>7, <1>8 DEF Next

\* Whatever retractions, downgrades, projections and plans do to the graph at once, and
\* wherever a retraction dies: every justification of a node that a retraction wrote is
\* retracted, owed or excused, and what an evaluation found, one status read at a time, it
\* found of what was usable when it began or was made so since (truth_maintenance.py:34,
\* projection.py:34, gap_planner.py:73, sufficiency.py:71).
THEOREM Soundness == Spec => []IInv
BY InitIInv, NextIInv, PTL DEF Spec

\* A cascade (retract_and_cascade, truth_maintenance.py:34) leaves no justified node standing
\* but one that it has still to visit, that a dead one left, that was written again since, or
\* whose link is newer: for every graph, with cycles and shared support, and any number of
\* cascades and other writers, which may write over anything.
THEOREM CascadesAreComplete == Spec => []CascadeIsComplete
<1>1. IInv => CascadeIsComplete
  BY DEF IInv, GraphSound, RetractedSound, JustificationsFollowed, Answered, CascadeIsComplete
<1> QED BY <1>1, Soundness, PTL

\* An objective is found satisfied (Law6SufficiencyEngine.evaluate_specification,
\* sufficiency.py:71) only on requirements whose node and supporting evidence were usable at
\* the one moment the evaluation began, or were made usable since.
THEOREM SatisfactionHadSupport == Spec => []SatisfiedHadSupport
<1>1. IInv => SatisfiedHadSupport
  <2> SUFFICES ASSUME IInv, NEW v \in Evaluators,
                      evaluator[v].pc = "proof", evaluator[v].isSatisfied
               PROVE  /\ evaluator[v].satisfied # {}
                      /\ \A r \in evaluator[v].satisfied : Supported(v, r)
    BY DEF SatisfiedHadSupport, Supported, AllStand
  <2>1. evaluator[v] # NoProof /\ ~EvaluationSound(v)
    BY DEF NoProof, EvaluationSound
  <2>2. ProofSound(v)
    BY <2>1 DEF IInv, EvaluatorsSound
  <2> QED BY <2>2 DEF ProofSound
<1> QED BY <1>1, Soundness, PTL
=============================================================================
