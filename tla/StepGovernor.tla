---------------------------- MODULE StepGovernor ----------------------------
(***************************************************************************)
(* The attempts of one step under StepGovernor.run_step (governor.py), as  *)
(* operators on the loop's local state.  Feedback, the ledger of negative  *)
(* constraints (as long as the strikes) and the staging directory, private *)
(* to the step, are left out.                                              *)
(***************************************************************************)
EXTENDS Naturals

CONSTANTS
  MaxStrikes,     \* strike_ceiling of governance.yaml
  None            \* an absent row, file or value

ASSUME GovernorAssumption == MaxStrikes \in Nat \ {0}

\* What run_step keeps between iterations: last is the end of candidate_hashes_history,
\* the only element it looks at.
Governors(candidates) ==
  [attempt : 0..MaxStrikes, strike : 0..MaxStrikes, last : candidates \cup {None}]
Fresh == [attempt |-> 0, strike |-> 0, last |-> None]

\* Mutant: one attempt more than the ceiling.
CanAttemptOnceMore(g) == g.strike <= MaxStrikes
CanAttempt(g) == g.strike < MaxStrikes

\* execute_staging raised.
Raised(g) == [g EXCEPT !.attempt = @ + 1, !.strike = @ + 1]

\* The retry made the candidate that the last verification rejected.
Oscillates(g, c) ==
  /\ g.attempt > 0 /\ g.strike > 0
  /\ g.last = c

Seen(g, c) == [g EXCEPT !.attempt = @ + 1, !.last = c]
Rejected(g, c) == [Seen(g, c) EXCEPT !.strike = @ + 1]
=============================================================================
