------------------------- MODULE CapabilityPlanning -------------------------
(***************************************************************************)
(* CapabilityGapPlanner (relational/gap_planner.py): a plan links each of  *)
(* an objective's requirements to a qualified capability, or records the   *)
(* gap as an acquisition target; a gap is resolved by a candidate that an  *)
(* independent qualifier passes, and the objective is planned again.       *)
(***************************************************************************)
EXTENDS RelationalGraph

CONSTANTS
  Planners,       \* processes that plan
  Objective,      \* the node of the objective
  Requirements,   \* the sequence of required capability names
  MaxGaps         \* bound: acquisition targets

ASSUME PlanningAssumption == MaxGaps \in Nat

VARIABLES
  planner,        \* planner[p]: the local state of the call, or the last plan
  gaps            \* acquisition targets made so far

planningVars == <<planner, gaps>>

NoPlan == [pc |-> "idle", path |-> {}, unresolved |-> <<>>]
Planning == [pc |-> "match", at |-> 1, path |-> {}, unresolved |-> <<>>]

PlanningInit == planner = [p \in Planners |-> NoPlan] /\ gaps = 0

GapNode(k) == "gap" \o ToString(k)
CapabilityNode(gap) == "cap_" \o gap

\* _find_matching_capabilities.
Matching(name) ==
  {n \in DOMAIN nodes : /\ nodes[n].type = "CAPABILITY" /\ nodes[n].about = name
                        /\ nodes[n].status \in {"QUALIFIED", "AUTHORITATIVE", "VERIFIED"}}

\* plan_traversal: an objective that is not there is made.
BeginPlan(p) ==
  /\ planner[p].pc = "idle" /\ Call
  /\ IF Objective \in DOMAIN nodes THEN UNCHANGED nodeVars
       ELSE UpsertNode(Objective, Node("OBJECTIVE", "OBSERVED", ""))
  /\ planner' = [planner EXCEPT ![p] = Planning]
  /\ UNCHANGED <<edges, gaps>>

\* One requirement: the capability found, or a new gap.
MatchRequirement(p) ==
  LET x == planner[p]
      found == Matching(Requirements[x.at])
  IN
  /\ x.pc = "match" /\ x.at <= Len(Requirements)
  /\ \/ \E n \in found :
          /\ planner' = [planner EXCEPT ![p] =
               [pc |-> "link", at |-> x.at, path |-> x.path \cup {n}, unresolved |-> x.unresolved,
                node |-> n, relation |-> "REQUIRES", status |-> "QUALIFIED"]]
          /\ UNCHANGED <<nodeVars, gaps>>
     \/ /\ found = {} /\ gaps < MaxGaps
        /\ gaps' = gaps + 1
        /\ UpsertNode(GapNode(gaps), Node("ACQUISITION_TARGET", "PROPOSED", Requirements[x.at]))
        /\ planner' = [planner EXCEPT ![p] =
             [pc |-> "link", at |-> x.at, path |-> x.path,
              unresolved |-> Append(x.unresolved, GapNode(gaps)),
              node |-> GapNode(gaps), relation |-> "BLOCKS", status |-> "PROPOSED"]]
  /\ UNCHANGED <<edges, calls>>

LinkRequirement(p) ==
  LET x == planner[p] IN
  /\ x.pc = "link"
  /\ UpsertEdge(<<x.relation, x.node>>, Edge(Objective, x.relation, x.node, x.status))
  /\ planner' = [planner EXCEPT ![p] =
       [pc |-> "match", at |-> x.at + 1, path |-> x.path, unresolved |-> x.unresolved]]
  /\ UNCHANGED <<gaps, calls>>

EndPlan(p) ==
  LET x == planner[p] IN
  /\ x.pc = "match" /\ x.at > Len(Requirements)
  /\ planner' = [planner EXCEPT ![p] =
       [pc |-> "idle", path |-> x.path, unresolved |-> x.unresolved]]
  /\ UNCHANGED <<graph, gaps, calls>>

\* resolve_gap_and_replan, of a gap of the last plan.  The qualifier rejects the candidate
RejectCandidate(p) ==
  LET x == planner[p] IN
  /\ x.pc = "idle" /\ x.unresolved # <<>> /\ Call
  /\ UpdateNodeStatus(Head(x.unresolved), "INVALIDATED")
  /\ planner' = [planner EXCEPT ![p] = Planning]
  /\ UNCHANGED <<edges, gaps>>

\* or passes it: a capability of its own, and then the gap is superseded.
ProvisionCapability(p) ==
  LET x == planner[p]
      gap == Head(x.unresolved)
  IN
  /\ x.pc = "idle" /\ x.unresolved # <<>> /\ Call
  /\ UpsertNode(CapabilityNode(gap), Node("CAPABILITY", "QUALIFIED", nodes[gap].about))
  /\ planner' = [planner EXCEPT ![p] = [x EXCEPT !.pc = "supersede"]]
  /\ UNCHANGED <<edges, gaps>>

SupersedeGap(p) ==
  /\ planner[p].pc = "supersede"
  /\ UpdateNodeStatus(Head(planner[p].unresolved), "SUPERSEDED")
  /\ planner' = [planner EXCEPT ![p] = Planning]
  /\ UNCHANGED <<edges, gaps, calls>>

PlanningNext ==
  \E p \in Planners :
    \/ BeginPlan(p) \/ MatchRequirement(p) \/ LinkRequirement(p) \/ EndPlan(p)
    \/ RejectCandidate(p) \/ ProvisionCapability(p) \/ SupersedeGap(p)
=============================================================================
