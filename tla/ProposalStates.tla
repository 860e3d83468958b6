--------------------------- MODULE ProposalStates ---------------------------
(***************************************************************************)
(* The custody states of a proposal and the table of legal moves between   *)
(* them: the enumeration State and LEGAL_STATE_TRANSITIONS of schema.py,    *)
(* and PRIVILEGED_STATES of kernel_db.py.                                  *)
(***************************************************************************)

\* The eight members of the enumeration State.
State == {"CANDIDATE_SEALED", "VERIFYING", "VERIFIED", "REJECTED", "BLOCKED",
          "PROMOTION_PENDING", "PROMOTED", "POST_PROMOTION_VERIFIED"}

\* A task that record_proposal has not inserted has no row.
Absent == "ABSENT"

\* LEGAL_STATE_TRANSITIONS, as the pairs <<from, to>> of its entries.
LegalTransitions ==
       {"CANDIDATE_SEALED"} \X {"VERIFYING", "VERIFIED", "REJECTED"}
  \cup {"VERIFYING"} \X {"VERIFIED", "REJECTED", "BLOCKED"}
  \cup {"VERIFIED"} \X {"PROMOTION_PENDING", "VERIFYING"}
  \cup {"REJECTED", "BLOCKED"} \X {"VERIFYING", "CANDIDATE_SEALED"}
  \cup {"PROMOTION_PENDING"} \X
         {"PROMOTED", "POST_PROMOTION_VERIFIED", "VERIFIED", "REJECTED"}
  \cup {"PROMOTED"} \X {"POST_PROMOTION_VERIFIED", "REJECTED"}

\* The states a proposal in s may move to.
LegalNext(s) == {to \in State : <<s, to>> \in LegalTransitions}

\* States that only PrivilegedTransitionEngine may write.
PrivilegedStates == {"VERIFIED", "PROMOTION_PENDING", "PROMOTED",
                     "POST_PROMOTION_VERIFIED"}
=============================================================================
