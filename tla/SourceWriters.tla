---------------------------- MODULE SourceWriters ----------------------------
(***************************************************************************)
(* The verifier daemon and self-healing runs on one source file.  Nothing  *)
(* in the code makes them take turns: a repair is written over a promotion *)
(* that came between the repair's reading of the file and its writing.     *)
(*                                                                         *)
(* RealAlchemistSelfHealingEngine (runners/alchemist_runner.py) under the  *)
(* step governor: a patch of one line is made from a crash trace, applied  *)
(* to the source file's text in a git worktree, gated there, and the whole *)
(* patched text is written over the file.  Runs may work on one file at    *)
(* once and may die; nobody removes a dead run's worktree, nor one that    *)
(* git could not remove.                                                   *)
(*                                                                         *)
(* A worktree's time stamp, milliseconds modulo 10^7, may be any of Stamps. *)
(***************************************************************************)
EXTENDS VerifierDaemon

CONSTANTS
  Healers,        \* runs of the engine
  Traces,         \* crash traces: the task, the exception, the line and its text
  SafeId,         \* SafeId[t]: the task's identifier, what is no letter or digit replaced
  Stamps,         \* values of the worktree's time stamp
  MaxHeals        \* bound: runs started

ASSUME HealingAssumption == Stamps # {} /\ MaxHeals \in Nat

VARIABLES
  heal,         \* heal[h]: the local state of the run
  sandboxes,    \* worktrees of the repository, and branches of worktrees
  repairs,      \* tasks with the receipt of a repair
  heals,        \* runs started
  abandoned,    \* history: the worktrees that a dead run or a failed git command left
  cut,          \* history: a run died with the file emptied
  overlapped    \* history: a run wrote into what another had written since it opened

ends == <<cut, overlapped>>
healVars == <<heal, sandboxes, repairs, heals, abandoned, ends>>

EmptyText == [lines |-> <<>>, eol |-> FALSE]
\* A text over a longer one, whose end is left behind it.
Garbled == [lines |-> <<"unparsable">>, eol |-> FALSE]

Asleep == [pc |-> "idle"]

\* CrashTraceParser.parse: an empty trace has no exception, line and text.
Diagnostic(trace) ==
  IF trace.exc = None THEN [exc |-> "UnknownError", line |-> 1, code |-> None]
                      ELSE [exc |-> trace.exc, line |-> trace.line, code |-> trace.code]

\* The line replacements of RepairStrategyEngine.generate_patch.
Replacement(exc, line) ==
  CASE exc = "ZeroDivisionError" /\ line = "division" -> <<"guarded">>
    [] exc = "ZeroDivisionError" /\ line = "guarded" -> <<"unparsable">>
    [] exc = "KeyError" /\ line = "subscript" -> <<"get">>
    [] exc \notin {"ZeroDivisionError", "KeyError"} -> <<"comment", line>>
    [] OTHER -> <<line>>

\* generate_patch: the line is taken from the source, or else from the trace.
PatchOf(diagnostic, text) ==
  LET raw == IF diagnostic.line \in 1..Len(text.lines)
               THEN text.lines[diagnostic.line] ELSE diagnostic.code
  IN [line |-> diagnostic.line, by |-> Replacement(diagnostic.exc, raw)]

\* The patched text; the newline at its end is lost.
Patched(text, patch) ==
  [lines |-> SubSeq(text.lines, 1, patch.line - 1) \o patch.by
               \o SubSeq(text.lines, patch.line + 1, Len(text.lines)),
   eol |-> FALSE]

\* inspect_file_ast: the text parses and calls nothing that is banned.
SafeAst(text) ==
  \A i \in 1..Len(text.lines) : text.lines[i] \notin {"unparsable", "banned"}

SandboxName(trace, stamp) == <<SafeId[trace.task], stamp>>

HealInit ==
  /\ heal = [h \in Healers |-> Asleep]
  /\ sandboxes = {} /\ repairs = {} /\ heals = 0
  /\ abandoned = {} /\ cut = FALSE /\ overlapped = FALSE

-----------------------------------------------------------------------------

\* normalize.
BeginHealing(h, trace) ==
  /\ heal[h] = Asleep /\ heals < MaxHeals
  /\ heal' = [heal EXCEPT ![h] = [pc |-> "stage", trace |-> trace, gov |-> Fresh]]
  /\ heals' = heals + 1
  /\ UNCHANGED <<sandboxes, repairs, abandoned, ends>>

\* execute_staging and the governor's look at its candidate.
StagePatch(h) ==
  LET x == heal[h]
      patch == PatchOf(Diagnostic(x.trace), source)
  IN
  /\ x.pc = "stage" /\ CanAttempt(x.gov)
  /\ heal' = [heal EXCEPT ![h] =
       IF Oscillates(x.gov, patch) THEN [x EXCEPT !.gov = Raised(@)]
       ELSE [pc |-> "patch", trace |-> x.trace, gov |-> x.gov, patch |-> patch]]
  /\ UNCHANGED <<sandboxes, repairs, heals, abandoned, ends>>

\* A verification that fails: a strike, and the next attempt.
Fails(h) == [pc |-> "stage", trace |-> heal[h].trace, gov |-> Rejected(heal[h].gov, heal[h].patch)]

\* The patch says something about the text as it is now.
Applies(patch, text) == patch.line \in 1..Len(text.lines) /\ Patched(text, patch) # text

\* verify, up to the worktree: the source is read again.
CreateSandbox(h, stamp) ==
  LET x == heal[h]
      name == SandboxName(x.trace, stamp)
  IN
  /\ x.pc = "patch"
  /\ Applies(x.patch, source) /\ name \notin sandboxes
  /\ sandboxes' = sandboxes \cup {name}
  /\ heal' = [heal EXCEPT ![h] =
       [pc |-> "gates", trace |-> x.trace, gov |-> x.gov, patch |-> x.patch,
        text |-> Patched(source, x.patch), sandbox |-> name]]
  /\ UNCHANGED <<repairs, heals, abandoned, ends>>

\* There is nothing to do, or git fails, as it does on a name in use; it may leave what
\* it had made.
CreateSandboxFails(h, stamp) ==
  LET x == heal[h]
      name == SandboxName(x.trace, stamp)
  IN
  /\ x.pc = "patch"
  /\ heal' = [heal EXCEPT ![h] = Fails(h)]
  /\ \/ UNCHANGED <<sandboxes, abandoned>>
     \/ /\ Applies(x.patch, source) /\ name \notin sandboxes
        /\ sandboxes' = sandboxes \cup {name} /\ abandoned' = abandoned \cup {name}
  /\ UNCHANGED <<repairs, heals, ends>>

\* The gates in the worktree: what parses is tested.
GatesPass(h) ==
  LET x == heal[h] IN
  /\ x.pc = "gates" /\ SafeAst(x.text)
  /\ passed' = passed \cup {x.text}
  /\ heal' = [heal EXCEPT ![h].pc = "pass"]
  /\ UNCHANGED <<sandboxes, repairs, heals, abandoned, ends>>

\* Mutant: what does not parse is rejected on the spot.
GatesFailAtOnce(h) ==
  LET x == heal[h] IN
  /\ x.pc = "gates"
  /\ \/ ~SafeAst(x.text) /\ heal' = [heal EXCEPT ![h] = Fails(h)]
     \/ SafeAst(x.text) /\ heal' = [heal EXCEPT ![h].pc = "fail"]
  /\ UNCHANGED <<sandboxes, repairs, heals, abandoned, ends>>
\* The text does not parse, its test fails or times out, or something raises.
GatesFail(h) ==
  /\ heal[h].pc = "gates"
  /\ heal' = [heal EXCEPT ![h].pc = "fail"]
  /\ UNCHANGED <<sandboxes, repairs, heals, abandoned, ends>>

\* destroy_sandbox, which ignores what git and rmtree report, then the verdict.
DestroySandbox(h) ==
  LET x == heal[h] IN
  /\ x.pc \in {"pass", "fail"}
  /\ \/ sandboxes' = sandboxes \ {x.sandbox} /\ UNCHANGED abandoned
     \/ abandoned' = abandoned \cup {x.sandbox} /\ UNCHANGED sandboxes
  /\ heal' = [heal EXCEPT ![h] = IF x.pc = "fail" THEN Fails(h)
                                   ELSE [x EXCEPT !.pc = "commit"]]
  /\ UNCHANGED <<repairs, heals, ends>>

\* Mutant: the patch is applied to the text as it is now.
OpenSourceAgain(h) ==
  LET x == heal[h] IN
  /\ x.pc = "commit"
  /\ source' = EmptyText /\ handles' = handles \cup {h}
  /\ heal' = [heal EXCEPT ![h] =
       [x EXCEPT !.pc = "write",
                 !.text = IF Applies(x.patch, source) THEN Patched(source, x.patch) ELSE @]]
  /\ UNCHANGED <<sandboxes, repairs, heals, abandoned, ends>>
\* commit: whatever the file holds by now is gone once it is open.
OpenSource(h) ==
  /\ heal[h].pc = "commit"
  /\ source' = EmptyText /\ handles' = handles \cup {h}
  /\ heal' = [heal EXCEPT ![h].pc = "write"]
  /\ UNCHANGED <<sandboxes, repairs, heals, abandoned, ends>>

\* The tested text, at the beginning of the file that was opened: over what another run
\* wrote there meanwhile, or into a file that is no longer the source.
WriteRepair(h) ==
  LET text == heal[h].text IN
  /\ heal[h].pc = "write"
  /\ heal' = [heal EXCEPT ![h].pc = "receipt"]
  /\ handles' = handles \ {h}
  /\ \/ /\ h \in handles /\ source' = text
        /\ UNCHANGED overlapped
     \/ /\ h \in handles /\ source \notin {EmptyText, text}
        /\ source' = Garbled /\ overlapped' = TRUE
     \/ h \notin handles /\ UNCHANGED <<source, overlapped>>
  /\ UNCHANGED <<sandboxes, repairs, heals, abandoned, cut>>

ReceiveRepair(h) ==
  LET x == heal[h] IN
  /\ x.pc = "receipt"
  /\ repairs' = repairs \cup {x.trace.task}
  /\ heal' = [heal EXCEPT ![h] = Asleep]
  /\ UNCHANGED <<sandboxes, heals, abandoned, ends>>

\* The governor gives up.
AbortHealing(h) ==
  /\ heal[h].pc = "stage" /\ ~CanAttempt(heal[h].gov)
  /\ heal' = [heal EXCEPT ![h] = Asleep]
  /\ UNCHANGED <<sandboxes, repairs, heals, abandoned, ends>>

Judges(x) == x.pc \in {"gates", "pass", "fail"}

HealerDies(h) ==
  LET x == heal[h] IN
  /\ x # Asleep /\ deaths < MaxDeaths
  /\ deaths' = deaths + 1
  /\ heal' = [heal EXCEPT ![h] = Asleep]
  /\ handles' = handles \ {h} /\ cut' = (cut \/ h \in handles)
  /\ abandoned' = IF Judges(x) THEN abandoned \cup {x.sandbox} ELSE abandoned
  /\ UNCHANGED <<sandboxes, repairs, heals, overlapped>>

HealNext ==
  \E h \in Healers :
       \/ /\ \/ \E trace \in Traces : BeginHealing(h, trace)
             \/ \E stamp \in Stamps : CreateSandbox(h, stamp) \/ CreateSandboxFails(h, stamp)
             \/ StagePatch(h) \/ GatesFail(h) \/ DestroySandbox(h)
             \/ ReceiveRepair(h) \/ AbortHealing(h)
          /\ UNCHANGED sourceVars
       \/ GatesPass(h) /\ UNCHANGED <<source, handles, deaths>>
       \/ (OpenSource(h) \/ WriteRepair(h)) /\ UNCHANGED <<passed, deaths>>
       \/ HealerDies(h) /\ UNCHANGED <<source, passed>>

-----------------------------------------------------------------------------
vars == <<sourceVars, daemonVars, healVars>>

Init == SourceInit /\ DaemonInit /\ HealInit

Next ==
  \/ DaemonNext /\ UNCHANGED healVars
  \/ HealNext /\ UNCHANGED daemonVars

Spec == Init /\ [][Next]_vars

-----------------------------------------------------------------------------
\* The worktree that a run's gates look at is there, is no other run's and none that was
\* left behind, whatever time stamps and names coincide; and every path out of verify but
\* a death and a git command that fails removes it.
SandboxIsOwned ==
  LET Using == {h \in Healers : Judges(heal[h])} IN
  /\ sandboxes = {heal[h].sandbox : h \in Using} \cup abandoned
  /\ \A h \in Using : heal[h].sandbox \notin abandoned
  /\ \A g, h \in Using : g # h => heal[g].sandbox # heal[h].sandbox

\* Whatever races, dies or is retried, the file holds the text it had at the start, one
\* that passed as a whole the gate of the component that put it there, or a candidate
\* that a client put in the place of the one that was judged; except that it is empty
\* while a repair is open, or after one died there, and that two repairs which were open
\* at once may leave the end of the one behind the other.
LandedWasVerified ==
  \/ source \in {Original} \cup passed \cup late
  \/ source = EmptyText /\ (handles # {} \/ cut)
  \/ source = Garbled /\ overlapped
=============================================================================
