--------------------------- MODULE RelationalGraph ---------------------------
(***************************************************************************)
(* The relational graph store (relational/graph_db.py): typed nodes and    *)
(* edges with an epistemic status, one transaction per call.  Labels,      *)
(* digests, modality and confidence are left out.  What is asked of it,    *)
(* as functions of what it holds, follows: the nodes that may be worked on *)
(* and an order of all of them (relational/dependency_scheduler.py), and   *)
(* the motifs [types, relations] whose structure is like an objective's    *)
(* (relational/structural_transfer.py).                                    *)
(***************************************************************************)
EXTENDS Naturals, Sequences, FiniteSets, TLC, SequencesExt

CONSTANT MaxCalls    \* bound: calls of the processes that use the store, all together

ASSUME CallsAssumption == MaxCalls \in Nat

VARIABLES
  calls,        \* calls begun
  nodes,        \* nodes[n] = [type, status, about]: about is a capability's name
  edges,        \* edges[i] = [source, target, relation, status]
  retracted,    \* history: nodes that a retraction was the last to write, or found missing
  excused       \* history: pairs <<x, y>> where the retraction of y need not have reached x

nodeVars == <<nodes, retracted, excused>>
graph == <<nodeVars, edges>>

Statuses == {"PROPOSED", "INFERRED", "OBSERVED", "VERIFIED", "QUALIFIED",
             "AUTHORITATIVE", "CONTESTED", "SUPERSEDED", "INVALIDATED"}

Node(type, status, about) == [type |-> type, status |-> status, about |-> about]
Edge(source, relation, target, status) ==
  [source |-> source, target |-> target, relation |-> relation, status |-> status]

Call == calls < MaxCalls /\ calls' = calls + 1

Put(f, k, v) == [x \in DOMAIN f \cup {k} |-> IF x = k THEN v ELSE f[x]]
SetStatus(f, k, status) == IF k \in DOMAIN f THEN [f EXCEPT ![k].status = status] ELSE f

\* Who is justified by whom: an edge of these makes its source depend on its target.
Justification == {"DERIVED_FROM", "SUPPORTED_BY"}
JustifyingEdges == {i \in DOMAIN edges : edges[i].relation \in Justification}

\* Somebody else than a retraction writes n: what n rests on was retracted before.
Renewed(n) ==
  /\ retracted' = retracted \ {n}
  /\ excused' = excused \cup ({n} \X (retracted \ {n}))

UpsertNode(n, node) == nodes' = Put(nodes, n, node) /\ Renewed(n)
UpsertEdge(i, edge) ==
  /\ edges' = Put(edges, i, edge)
  /\ excused' = IF edge.relation \in Justification
                  THEN excused \cup {<<edge.source, edge.target>>} ELSE excused
  /\ UNCHANGED <<nodes, retracted>>

StatusOf(n) == IF n \in DOMAIN nodes THEN nodes[n].status ELSE "absent"

\* An UPDATE of a row that is not there changes nothing.
UpdateNodeStatus(n, status) == nodes' = SetStatus(nodes, n, status) /\ Renewed(n)
UpdateEdgeStatus(i, status) == edges' = SetStatus(edges, i, status) /\ UNCHANGED nodeVars

OutgoingEdges(n) == {i \in DOMAIN edges : edges[i].source = n}
IncomingEdges(n) == {i \in DOMAIN edges : edges[i].target = n}

\* find_transitive_dependencies: what the edges es of these relations and statuses reach
\* from n; the recursive query's depth of 50 is no limit here.
TransitiveDependencies(es, n, relations, allowed) ==
  LET Along == {i \in DOMAIN es : es[i].relation \in relations /\ es[i].status \in allowed}
      reached[d \in 0..Cardinality(Along)] ==
        {es[i].target : i \in {j \in Along :
           es[j].source \in (IF d = 0 THEN {n} ELSE reached[d - 1])}}
          \cup (IF d = 0 THEN {} ELSE reached[d - 1])
  IN reached[Cardinality(Along)]

-----------------------------------------------------------------------------
(* Scheduling *)

\* get_ready_frontier.  Without a filter every status is allowed.
ReadyFrontier(es, status, root, completed, allowed) ==
  LET below == {root} \cup TransitiveDependencies(es, root,
                             {"REQUIRES", "DEPENDS_ON", "DECOMPOSES_INTO"}, allowed)
      Blocked(n) ==
        \E i \in DOMAIN es :
          /\ es[i].source = n /\ es[i].relation = "DEPENDS_ON" /\ es[i].status \in allowed
          /\ es[i].target \in below \ completed
  IN {n \in below \ completed :
        ~Blocked(n) /\ n \in DOMAIN status /\ status[n] # "INVALIDATED"}

\* compute_topological_order of the nodes ns, given in some order: Kahn's algorithm, one
\* node of the queue per step.  An edge's source need not be among the nodes.
TopologicalOrder(ns, es) ==
  LET Prerequisite == {i \in DOMAIN es : es[i].relation \in {"REQUIRES", "DEPENDS_ON"}}
      known == ToSet(ns) \cup {es[i].source : i \in Prerequisite}
      degree0 == [n \in known |->
                    Cardinality({i \in Prerequisite : es[i].source = n})]
      start == [queue |-> SelectSeq(ns, LAMBDA n : degree0[n] = 0),
                degree |-> degree0, ordered |-> <<>>]
      Step(s) ==
        LET n == Head(s.queue)
            after == [m \in known |-> s.degree[m]
                        - Cardinality({i \in Prerequisite : es[i].target = n /\ es[i].source = m})]
            freed == {m \in known : s.degree[m] > 0 /\ after[m] = 0}
        IN [queue |-> Tail(s.queue) \o SetToSeq(freed), degree |-> after,
            ordered |-> IF n \in ToSet(ns) THEN Append(s.ordered, n) ELSE s.ordered]
      run[k \in 0..Cardinality(known)] ==
        IF k = 0 THEN start
        ELSE IF run[k - 1].queue = <<>> THEN run[k - 1] ELSE Step(run[k - 1])
  IN run[Cardinality(known)].ordered

\* An order that leaves nodes out is refused as a cyclic dependency.
Ordered(ns, es) == Len(TopologicalOrder(ns, es)) = Len(ns)

-----------------------------------------------------------------------------
(* Structural transfer, most alike first *)

\* The size of the union; an empty one counts as 1.
Union1(a, b) == IF a \cup b = {} THEN 1 ELSE Cardinality(a \cup b)

\* The mean of the two Jaccard similarities is the quotient of these two.
Shared(motif, types, relations) ==
  Cardinality(types \cap motif.types) * Union1(relations, motif.relations)
    + Cardinality(relations \cap motif.relations) * Union1(types, motif.types)
Whole(motif, types, relations) ==
  2 * Union1(types, motif.types) * Union1(relations, motif.relations)

\* The thousandths that the code rounds to.
Similarity(motif, types, relations) ==
  (2000 * Shared(motif, types, relations) + Whole(motif, types, relations))
    \div (2 * Whole(motif, types, relations))

\* find_transferrable_strategies: what is more than 0.4 alike, in order of similarity.
TransferProposals(motifs, types, relations) ==
  LET alike == SelectSeq(motifs, LAMBDA m : Similarity(m, types, relations) > 400)
      ranked == SetToSortSeq(DOMAIN alike, LAMBDA j, k :
                  \/ Similarity(alike[j], types, relations) > Similarity(alike[k], types, relations)
                  \/ /\ Similarity(alike[j], types, relations) = Similarity(alike[k], types, relations)
                     /\ j < k)
  IN [k \in DOMAIN ranked |-> alike[ranked[k]]]
=============================================================================
