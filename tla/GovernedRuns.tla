---------------------------- MODULE GovernedRuns ----------------------------
(***************************************************************************)
(* What governed runs promise about the target, whatever they do inside:   *)
(* "Execute and verify inside governed workspace" first (ts_run.py).  Only *)
(* a run that passed, and may promote, changes files of the target; agents *)
(* may as well, but never in the name of a run.                            *)
(***************************************************************************)
CONSTANTS Runs, Paths, Versions, None
VARIABLES
  stage,      \* stage[r]: "absent", "open", "passed" or "closed"
  permitted,  \* the runs that may promote
  target,     \* target[p]: the version of a file, or None
  author      \* author[p]: the run that last wrote it, "agent" or None

gvars == <<stage, permitted, target, author>>

Init ==
  /\ stage = [r \in Runs |-> "absent"] /\ permitted \subseteq Runs
  /\ target = [p \in Paths |-> None] /\ author = [p \in Paths |-> None]

Move(r, from, to) ==
  /\ stage[r] = from
  /\ stage' = [stage EXCEPT ![r] = to]
  /\ UNCHANGED <<permitted, target, author>>

Open(r) == Move(r, "absent", "open")
Pass(r) == Move(r, "open", "passed")
Close(r) == Move(r, "open", "closed") \/ Move(r, "passed", "closed")

Change(p, v, who) ==
  /\ target' = [target EXCEPT ![p] = v] /\ author' = [author EXCEPT ![p] = who]
  /\ UNCHANGED <<stage, permitted>>

Deliver(r) ==
  /\ stage[r] = "passed" /\ r \in permitted
  /\ \E p \in Paths, v \in Versions : Change(p, v, r)

Interfere == \E p \in Paths, v \in Versions \cup {None} : Change(p, v, "agent")

Next == Interfere \/ \E r \in Runs : Open(r) \/ Pass(r) \/ Close(r) \/ Deliver(r)
Spec == Init /\ [][Next]_gvars
=============================================================================
