--------------------------- MODULE ProposalCustody --------------------------
(***************************************************************************)
(* What the promotion pipeline promises, without its processes, receipts,   *)
(* log or git commands: a proposal moves only along the legal table, it is *)
(* called promoted only when its sealed candidate is on the target branch, *)
(* and a candidate that landed stays landed.  Promotion implements this.   *)
(***************************************************************************)
EXTENDS ProposalStates

CONSTANT Task       \* task identifiers

VARIABLES
  state,            \* state[t]: custody state of t's proposal, or Absent
  landed            \* tasks whose sealed candidate is on the target branch

custodyVars == <<state, landed>>

\* States that claim the candidate is on the target branch.
ClaimsLanded == {"PROMOTED", "POST_PROMOTION_VERIFIED"}

Init ==
  /\ state = [t \in Task |-> Absent]
  /\ landed = {}

(***************************************************************************)
(* A proposal is sealed.  Its candidate may already be on the branch, when *)
(* another proposal with the same or a later commit was promoted before.   *)
(***************************************************************************)
Seal(t) ==
  /\ state[t] = Absent
  /\ state' = [state EXCEPT ![t] = "CANDIDATE_SEALED"]
  /\ landed' \in {landed, landed \cup {t}}

\* The branch advances over the candidates of some sealed proposals.
Land ==
  /\ landed \subseteq landed'
  /\ \A t \in landed' \ landed : t \in Task /\ state[t] # Absent
  /\ UNCHANGED state

\* A proposal moves along the legal table.
Move(t) ==
  /\ \E to \in LegalNext(state[t]) :
       /\ to \in ClaimsLanded => t \in landed
       /\ state' = [state EXCEPT ![t] = to]
  /\ UNCHANGED landed

Next == Land \/ \E t \in Task : Seal(t) \/ Move(t)

Spec == Init /\ [][Next]_custodyVars
=============================================================================
