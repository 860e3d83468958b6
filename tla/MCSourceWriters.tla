-------------------------- MODULE MCSourceWriters --------------------------
(* Small instances of SourceWriters for TLC. *)
EXTENDS SourceWriters, TLC

Text(a, b) == [lines |-> <<a, b>>, eol |-> TRUE]
MCOriginal == Text("plain", "division")
Promoted(a) == [lines |-> <<a, "plain">>, eol |-> FALSE]
MCCandidates == {Promoted("changed")}
Trace(task, exc) == [task |-> task, exc |-> exc, line |-> 2, code |-> "division"]
MCTraces == {Trace("a b", "ZeroDivisionError")}
HealersAlike == Permutations(Healers)
MCSafeId == [t \in {"a b"} |-> "a_b"]
=============================================================================
