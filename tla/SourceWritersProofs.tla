------------------------- MODULE SourceWritersProofs -------------------------
(***************************************************************************)
(* Proofs about the verifier daemon and the self-healing runs on one file, *)
(* for every set of tasks, texts, traces, names and time stamps, every     *)
(* ceiling and every number of healing runs and deaths.                    *)
(***************************************************************************)
EXTENDS SourceWriters, TLAPS

Texts == Candidates \cup {None}
ReceiptRecords ==
  [task : Tasks, status : {"BLOCKED", "REJECTED", "VERIFIED"}, promotion : Texts]
Waiting == [pc : {"poll", "dead"}]
Judging == [pc : {"run", "promote"}, task : Tasks]
Striking == [pc : {"strike"}, task : Tasks]
Replacing == [pc : {"replace"}, task : Tasks, temp : Candidates]
Persisting == [pc : {"channel", "ledger", "archive"}, task : Tasks, receipt : ReceiptRecords]

DaemonTyped ==
  /\ intent \in [type : {"none"}] \cup [type : {"partial", "intent"}, task : Tasks]
  /\ candidate \in [Tasks -> Texts]
  /\ strikes \in [Tasks -> Nat] /\ failures \in [Tasks -> Nat]
  /\ daemon \in Waiting \cup Judging \cup Striking \cup Replacing \cup Persisting
  /\ deaths \in Nat

HealersTyped ==
  /\ heal = [h \in Healers |-> heal[h]]
  /\ \A h \in Healers :
       /\ "pc" \in DOMAIN heal[h]
       /\ heal[h].pc \in {"gates", "pass", "fail", "commit", "write"} =>
            "text" \in DOMAIN heal[h] /\ "sandbox" \in DOMAIN heal[h]

\* A failure is a strike, is about to be one, or was lost to a death.
FailuresCounted ==
  /\ \A t \in Tasks :
       /\ strikes[t] <= Ceiling
       /\ failures[t] <= strikes[t] + deaths
                           + (IF daemon.pc = "strike" /\ daemon.task = t THEN 1 ELSE 0)
  /\ daemon.pc \in {"run", "strike"} => strikes[daemon.task] < Ceiling

\* What a healing run is about to write was passed as a whole; what the daemon is about to
\* move was passed, or put in the place of what it judged.
WritersSound ==
  /\ LandedWasVerified
  /\ daemon.pc = "promote" => candidate[daemon.task] \in passed \cup late \cup {None}
  /\ daemon.pc = "replace" => daemon.temp \in passed \cup late
  /\ \A h \in Healers : heal[h].pc \in {"pass", "commit", "write"} => heal[h].text \in passed

Using == {h \in Healers : Judges(heal[h])}

SandboxesSound ==
  /\ \A s : s \in sandboxes <=> s \in abandoned \/ \E h \in Using : heal[h].sandbox = s
  /\ \A h \in Using : heal[h].sandbox \notin abandoned
  /\ \A g, h \in Using : g # h => heal[g].sandbox # heal[h].sandbox

Sound == DaemonTyped /\ HealersTyped /\ FailuresCounted /\ WritersSound /\ SandboxesSound

-----------------------------------------------------------------------------
\* Nobody has done anything: everything holds.
LEMMA InitSound == Init => Sound
<1> SUFFICES ASSUME Init PROVE Sound
  OBVIOUS
<1> USE DaemonAssumption DEF Init, SourceInit, DaemonInit, HealInit
<1>1. DaemonTyped
  BY DEF DaemonTyped, Texts, NoIntent, Polling, Waiting
<1>2. heal = [h \in Healers |-> Asleep] /\ \A h \in Healers : heal[h].pc = "idle"
  BY DEF Asleep
<1>3. HealersTyped
  BY <1>2 DEF HealersTyped, Asleep
<1>4. FailuresCounted
  BY DEF FailuresCounted, Polling
<1>5. WritersSound
  BY <1>2 DEF WritersSound, LandedWasVerified, Polling
<1>6. SandboxesSound
  BY <1>2 DEF SandboxesSound, Using, Judges
<1> QED BY <1>1, <1>3, <1>4, <1>5, <1>6 DEF Sound

-----------------------------------------------------------------------------
(* Steps of the daemon and of clients *)

\* The step is one of these, and says what it does to the shared variables.
LEMMA DaemonCases ==
  ASSUME DaemonNext
  PROVE  \/ ReadIntent /\ UNCHANGED sourceVars
         \/ CommandPasses /\ UNCHANGED <<source, handles, deaths>>
         \/ CommandFails /\ UNCHANGED sourceVars
         \/ RecordStrike /\ UNCHANGED sourceVars
         \/ NothingToPromote /\ UNCHANGED sourceVars
         \/ MoveCandidate /\ UNCHANGED sourceVars
         \/ ReplaceTarget /\ UNCHANGED <<passed, deaths>>
         \/ (WriteChannel \/ WriteLedger \/ ArchiveIntent) /\ UNCHANGED sourceVars
         \/ DaemonDies /\ UNCHANGED <<source, handles, passed>>
         \/ DaemonStarts /\ UNCHANGED sourceVars
         \/ FinishSubmit /\ UNCHANGED sourceVars
         \/ (\E t \in Tasks : Submit(t)) /\ UNCHANGED sourceVars
         \/ (\E t \in Tasks, c \in Candidates : WriteCandidate(t, c)) /\ UNCHANGED sourceVars
BY DEF DaemonNext, ProcessIntent

\* They keep the types.
LEMMA DaemonTypedStep ==
  ASSUME DaemonTyped, DaemonNext
  PROVE  DaemonTyped'
<1> USE DEF DaemonTyped, sourceVars, Texts, Polling, NoIntent, Intent, Persist, Receipt,
            ReceiptRecords, Waiting, Judging, Striking, Replacing, Persisting
<1>1. CASE ReadIntent /\ UNCHANGED sourceVars
  BY <1>1 DEF ReadIntent
<1>2. CASE CommandPasses /\ UNCHANGED <<source, handles, deaths>>
  BY <1>2 DEF CommandPasses
<1>3. CASE CommandFails /\ UNCHANGED sourceVars
  BY <1>3 DEF CommandFails
<1>4. CASE RecordStrike /\ UNCHANGED sourceVars
  BY <1>4 DEF RecordStrike
<1>5. CASE NothingToPromote /\ UNCHANGED sourceVars
  BY <1>5 DEF NothingToPromote
<1>6. CASE MoveCandidate /\ UNCHANGED sourceVars
  BY <1>6 DEF MoveCandidate
<1>7. CASE ReplaceTarget /\ UNCHANGED <<passed, deaths>>
  BY <1>7 DEF ReplaceTarget
<1>8. CASE (WriteChannel \/ WriteLedger \/ ArchiveIntent) /\ UNCHANGED sourceVars
  BY <1>8 DEF WriteChannel, WriteLedger, ArchiveIntent
<1>9. CASE DaemonDies
  BY <1>9 DEF DaemonDies
<1>10. CASE DaemonStarts /\ UNCHANGED sourceVars
  BY <1>10 DEF DaemonStarts
<1>11. CASE FinishSubmit /\ UNCHANGED sourceVars
  BY <1>11 DEF FinishSubmit
<1>12. CASE (\E t \in Tasks : Submit(t)) /\ UNCHANGED sourceVars
  BY <1>12 DEF Submit
<1>13. CASE (\E t \in Tasks, c \in Candidates : WriteCandidate(t, c)) /\ UNCHANGED sourceVars
  BY <1>13 DEF WriteCandidate
<1> QED BY <1>1, <1>2, <1>3, <1>4, <1>5, <1>6, <1>7, <1>8, <1>9, <1>10, <1>11, <1>12, <1>13,
           DaemonCases

\* Failures stay counted.
LEMMA DaemonFailuresStep ==
  ASSUME DaemonTyped, FailuresCounted, DaemonNext
  PROVE  FailuresCounted'
<1> USE DaemonAssumption
    DEF DaemonTyped, sourceVars, Texts, Polling, NoIntent, Intent, Persist, Receipt,
        Waiting, Judging, Striking, Replacing, Persisting, FailuresCounted
<1>1. CASE ReadIntent /\ UNCHANGED sourceVars
  BY <1>1 DEF ReadIntent
<1>2. CASE CommandPasses /\ UNCHANGED <<source, handles, deaths>>
  BY <1>2 DEF CommandPasses
<1>3. CASE CommandFails /\ UNCHANGED sourceVars
  BY <1>3 DEF CommandFails
<1>4. CASE RecordStrike /\ UNCHANGED sourceVars
  BY <1>4 DEF RecordStrike
<1>5. CASE (NothingToPromote \/ MoveCandidate) /\ UNCHANGED sourceVars
  BY <1>5 DEF NothingToPromote, MoveCandidate
<1>6. CASE ReplaceTarget /\ UNCHANGED <<passed, deaths>>
  BY <1>6 DEF ReplaceTarget
<1>7. CASE (WriteChannel \/ WriteLedger \/ ArchiveIntent) /\ UNCHANGED sourceVars
  BY <1>7 DEF WriteChannel, WriteLedger, ArchiveIntent
<1>8. CASE DaemonDies
  BY <1>8 DEF DaemonDies
<1>9. CASE DaemonStarts /\ UNCHANGED sourceVars
  BY <1>9 DEF DaemonStarts
<1>10. CASE (FinishSubmit \/ \E t \in Tasks : Submit(t)) /\ UNCHANGED sourceVars
  BY <1>10 DEF FinishSubmit, Submit
<1>11. CASE (\E t \in Tasks, c \in Candidates : WriteCandidate(t, c)) /\ UNCHANGED sourceVars
  BY <1>11 DEF WriteCandidate
<1> QED BY <1>1, <1>2, <1>3, <1>4, <1>5, <1>6, <1>7, <1>8, <1>9, <1>10, <1>11, DaemonCases

\* The daemon moves what it judged, or what a client put in its place.
LEMMA DaemonWritersStep ==
  ASSUME DaemonTyped, WritersSound, DaemonNext, UNCHANGED healVars
  PROVE  WritersSound'
<1>1. passed \subseteq passed' /\ late \subseteq late'
  BY DaemonCases DEF sourceVars, CommandPasses, ReadIntent, CommandFails, RecordStrike,
     NothingToPromote, MoveCandidate, ReplaceTarget, WriteChannel, WriteLedger, ArchiveIntent,
     DaemonDies, DaemonStarts, FinishSubmit, Submit, WriteCandidate
<1>2. /\ heal' = heal /\ cut' = cut /\ overlapped' = overlapped
  BY DEF healVars, ends
<1>3. LandedWasVerified'
  <2>1. CASE UNCHANGED <<source, handles>>
    BY <1>1, <1>2, <2>1 DEF WritersSound, LandedWasVerified
  <2>2. CASE ReplaceTarget
    BY <1>1, <2>2 DEF ReplaceTarget, WritersSound, LandedWasVerified
  <2> QED BY <2>1, <2>2, DaemonCases DEF sourceVars
<1>4. \A h \in Healers : heal'[h].pc \in {"pass", "commit", "write"} => heal'[h].text \in passed'
  BY <1>1, <1>2 DEF WritersSound
<1>5. /\ daemon'.pc = "promote" => candidate'[daemon'.task] \in passed' \cup late' \cup {None}
      /\ daemon'.pc = "replace" => daemon'.temp \in passed' \cup late'
  <2> USE <1>1 DEF DaemonTyped, WritersSound, Waiting, Judging, Striking, Replacing, Persisting,
                   Persist, Polling
  <2>1. CASE CommandPasses
    BY <2>1 DEF CommandPasses
  <2>2. CASE MoveCandidate
    BY <2>2 DEF MoveCandidate
  <2>3. CASE \E t \in Tasks, c \in Candidates : WriteCandidate(t, c)
    BY <2>3 DEF WriteCandidate
  <2>4. CASE FinishSubmit \/ \E t \in Tasks : Submit(t)
    BY <2>4 DEF FinishSubmit, Submit
  <2>5. CASE \/ ReadIntent \/ RecordStrike \/ NothingToPromote \/ ReplaceTarget
             \/ WriteChannel \/ WriteLedger \/ ArchiveIntent \/ DaemonDies \/ DaemonStarts
             \/ CommandFails
    <3>1. daemon'.pc \notin {"promote", "replace"}
      BY <2>5 DEF ReadIntent, RecordStrike, NothingToPromote, ReplaceTarget, WriteChannel,
         WriteLedger, ArchiveIntent, DaemonDies, DaemonStarts, CommandFails
    <3> QED BY <3>1
  <2> QED BY <2>1, <2>2, <2>3, <2>4, <2>5, DaemonCases
<1> QED BY <1>3, <1>4, <1>5 DEF WritersSound

-----------------------------------------------------------------------------
(* Steps of healing runs, first what becomes of the run itself *)

\* The run leaves the others alone.
Aside(h) ==
  /\ heal' = [g \in Healers |-> heal'[g]]
  /\ \A g \in Healers \ {h} : heal'[g] = heal[g]
  /\ "pc" \in DOMAIN heal'[h]

Outside == {"idle", "stage", "patch", "receipt"}

\* A run without a worktree begins, is staged, receives or aborts, and stays without one.
LEMMA RunOutside ==
  ASSUME HealersTyped, NEW h \in Healers,
         \/ \E trace \in Traces : BeginHealing(h, trace)
         \/ StagePatch(h) \/ ReceiveRepair(h) \/ AbortHealing(h)
  PROVE  /\ Aside(h) /\ heal[h].pc \in Outside /\ heal'[h].pc \in Outside
         /\ UNCHANGED <<sandboxes, abandoned, cut, overlapped>>
<1> USE DEF HealersTyped, Aside, Outside, Asleep, ends
<1>1. CASE \E trace \in Traces : BeginHealing(h, trace)
  BY <1>1 DEF BeginHealing
<1>2. CASE StagePatch(h)
  BY <1>2 DEF StagePatch
<1>3. CASE ReceiveRepair(h) \/ AbortHealing(h)
  BY <1>3 DEF ReceiveRepair, AbortHealing
<1> QED BY <1>1, <1>2, <1>3

\* A run that enters a worktree enters one that was not there.
LEMMA RunEnters ==
  ASSUME HealersTyped, NEW h \in Healers, NEW stamp \in Stamps, CreateSandbox(h, stamp)
  PROVE  /\ Aside(h)
         /\ heal[h].pc = "patch" /\ heal'[h].pc = "gates"
         /\ "text" \in DOMAIN heal'[h] /\ "sandbox" \in DOMAIN heal'[h]
         /\ heal'[h].sandbox \notin sandboxes
         /\ sandboxes' = sandboxes \cup {heal'[h].sandbox}
         /\ UNCHANGED <<abandoned, cut, overlapped>>
BY DEF CreateSandbox, HealersTyped, Aside, ends

\* What git leaves when it fails was not there either.
LEMMA RunEntersNot ==
  ASSUME HealersTyped, NEW h \in Healers, NEW stamp \in Stamps, CreateSandboxFails(h, stamp)
  PROVE  /\ Aside(h)
         /\ heal[h].pc = "patch" /\ heal'[h].pc = "stage"
         /\ \/ UNCHANGED <<sandboxes, abandoned>>
            \/ \E name : /\ name \notin sandboxes
                         /\ sandboxes' = sandboxes \cup {name}
                         /\ abandoned' = abandoned \cup {name}
         /\ UNCHANGED <<cut, overlapped>>
BY DEF CreateSandboxFails, HealersTyped, Aside, Fails, ends

\* A gate's verdict changes nothing but where the run is.
LEMMA RunJudged ==
  ASSUME HealersTyped, NEW h \in Healers, GatesPass(h) \/ GatesFail(h)
  PROVE  /\ Aside(h)
         /\ heal[h].pc = "gates"
         /\ \/ heal'[h].pc = "pass" /\ GatesPass(h)
            \/ heal'[h].pc = "fail" /\ GatesFail(h)
         /\ "text" \in DOMAIN heal'[h] /\ "sandbox" \in DOMAIN heal'[h]
         /\ heal'[h].text = heal[h].text /\ heal'[h].sandbox = heal[h].sandbox
         /\ UNCHANGED <<sandboxes, abandoned, cut, overlapped>>
BY DEF GatesPass, GatesFail, HealersTyped, Aside, ends

\* A run that leaves its worktree removes or abandons it, and keeps its text to write only
\* if that passed.
LEMMA RunLeaves ==
  ASSUME HealersTyped, NEW h \in Healers, DestroySandbox(h)
  PROVE  /\ Aside(h)
         /\ heal[h].pc \in {"pass", "fail"}
         /\ \/ heal'[h].pc = "stage"
            \/ /\ heal[h].pc = "pass" /\ heal'[h].pc = "commit"
               /\ "text" \in DOMAIN heal'[h] /\ "sandbox" \in DOMAIN heal'[h]
               /\ heal'[h].text = heal[h].text
         /\ \/ sandboxes' = sandboxes \ {heal[h].sandbox} /\ UNCHANGED abandoned
            \/ abandoned' = abandoned \cup {heal[h].sandbox} /\ UNCHANGED sandboxes
         /\ UNCHANGED <<cut, overlapped>>
BY DEF DestroySandbox, HealersTyped, Aside, Fails, ends

\* A run that writes has left its worktree.
LEMMA RunWrites ==
  ASSUME HealersTyped, NEW h \in Healers, OpenSource(h) \/ WriteRepair(h)
  PROVE  /\ Aside(h)
         /\ heal[h].pc \in {"commit", "write"} /\ heal'[h].pc \in {"write", "receipt"}
         /\ "text" \in DOMAIN heal'[h] /\ "sandbox" \in DOMAIN heal'[h]
         /\ heal'[h].text = heal[h].text
         /\ UNCHANGED <<sandboxes, abandoned, cut>>
BY DEF OpenSource, WriteRepair, HealersTyped, Aside, ends

\* A run that dies in a worktree abandons it.
LEMMA RunDies ==
  ASSUME HealersTyped, NEW h \in Healers, HealerDies(h)
  PROVE  /\ Aside(h) /\ heal'[h].pc = "idle"
         /\ abandoned' = IF Judges(heal[h]) THEN abandoned \cup {heal[h].sandbox} ELSE abandoned
         /\ sandboxes' = sandboxes
BY DEF HealerDies, HealersTyped, Aside, Asleep

\* The step of a healing run is one of these.
LEMMA HealCases ==
  ASSUME HealNext
  PROVE  \E h \in Healers :
           \/ /\ \/ \E trace \in Traces : BeginHealing(h, trace)
                 \/ StagePatch(h) \/ ReceiveRepair(h) \/ AbortHealing(h)
              /\ UNCHANGED sourceVars
           \/ (\E stamp \in Stamps : CreateSandbox(h, stamp)) /\ UNCHANGED sourceVars
           \/ (\E stamp \in Stamps : CreateSandboxFails(h, stamp)) /\ UNCHANGED sourceVars
           \/ GatesPass(h) /\ UNCHANGED <<source, handles, deaths>>
           \/ GatesFail(h) /\ UNCHANGED sourceVars
           \/ DestroySandbox(h) /\ UNCHANGED sourceVars
           \/ (OpenSource(h) \/ WriteRepair(h)) /\ UNCHANGED <<passed, deaths>>
           \/ HealerDies(h) /\ UNCHANGED <<source, passed>>
BY DEF HealNext

\* Whatever a healing run does, the daemon's state is as sound as before, and what it
\* passed or wrote is what runs may write.
LEMMA HealSoundStep ==
  ASSUME DaemonTyped, HealersTyped, FailuresCounted, WritersSound, HealNext, UNCHANGED daemonVars
  PROVE  DaemonTyped' /\ HealersTyped' /\ FailuresCounted' /\ WritersSound'
<1>1. PICK h \in Healers :
           \/ /\ \/ \E trace \in Traces : BeginHealing(h, trace)
                 \/ StagePatch(h) \/ ReceiveRepair(h) \/ AbortHealing(h)
              /\ UNCHANGED sourceVars
           \/ (\E stamp \in Stamps : CreateSandbox(h, stamp)) /\ UNCHANGED sourceVars
           \/ (\E stamp \in Stamps : CreateSandboxFails(h, stamp)) /\ UNCHANGED sourceVars
           \/ GatesPass(h) /\ UNCHANGED <<source, handles, deaths>>
           \/ GatesFail(h) /\ UNCHANGED sourceVars
           \/ DestroySandbox(h) /\ UNCHANGED sourceVars
           \/ (OpenSource(h) \/ WriteRepair(h)) /\ UNCHANGED <<passed, deaths>>
           \/ HealerDies(h) /\ UNCHANGED <<source, passed>>
  BY HealCases
<1>2. deaths' \in Nat /\ deaths <= deaths'
  BY <1>1 DEF DaemonTyped, sourceVars, HealerDies
<1>3. passed \subseteq passed'
  BY <1>1 DEF sourceVars, GatesPass
<1>4. /\ Aside(h)
      /\ \/ heal'[h].pc \in Outside
         \/ /\ heal'[h].pc \in {"gates", "pass", "fail", "commit", "write"}
            /\ "text" \in DOMAIN heal'[h] /\ "sandbox" \in DOMAIN heal'[h]
            /\ heal'[h].pc \in {"pass", "commit", "write"} => heal'[h].text \in passed'
  <2> USE DEF Outside
  <2>1. CASE \/ \E trace \in Traces : BeginHealing(h, trace)
             \/ StagePatch(h) \/ ReceiveRepair(h) \/ AbortHealing(h)
    BY <2>1, RunOutside
  <2>2. CASE \E stamp \in Stamps : CreateSandbox(h, stamp)
    BY <2>2, RunEnters
  <2>3. CASE \E stamp \in Stamps : CreateSandboxFails(h, stamp)
    BY <2>3, RunEntersNot
  <2>4. CASE GatesPass(h) \/ GatesFail(h)
    <3>1. heal'[h].pc = "pass" => heal[h].text \in passed'
      BY <2>4, RunJudged DEF GatesPass
    <3> QED BY <2>4, <3>1, RunJudged
  <2>5. CASE DestroySandbox(h)
    BY <2>5, <1>3, RunLeaves DEF WritersSound
  <2>6. CASE OpenSource(h) \/ WriteRepair(h)
    BY <2>6, <1>3, RunWrites DEF WritersSound
  <2>7. CASE HealerDies(h)
    BY <2>7, RunDies
  <2> QED BY <1>1, <2>1, <2>2, <2>3, <2>4, <2>5, <2>6, <2>7
<1>5. HealersTyped'
  BY <1>4 DEF HealersTyped, Aside, Outside
<1>6. DaemonTyped'
  BY <1>2 DEF DaemonTyped, daemonVars
<1>7. FailuresCounted'
  BY <1>2 DEF FailuresCounted, DaemonTyped, daemonVars
<1>8. late' = late /\ daemon' = daemon /\ candidate' = candidate
  BY DEF daemonVars
<1>9. LandedWasVerified'
  <2> USE DEF WritersSound, LandedWasVerified
  <2>1. CASE UNCHANGED <<source, handles, cut, overlapped>>
    BY <1>3, <1>8, <2>1
  <2>2. CASE OpenSource(h)
    BY <2>2 DEF OpenSource
  <2>3. CASE WriteRepair(h) /\ UNCHANGED passed
    BY <1>8, <2>3 DEF WriteRepair
  <2>4. CASE HealerDies(h) /\ UNCHANGED <<source, passed>>
    BY <1>8, <2>4 DEF HealerDies
  <2>5. CASE /\ \/ \E trace \in Traces : BeginHealing(h, trace)
                \/ StagePatch(h) \/ ReceiveRepair(h) \/ AbortHealing(h)
             /\ UNCHANGED sourceVars
    BY <2>1, <2>5, RunOutside DEF sourceVars
  <2>6. CASE (\E stamp \in Stamps : CreateSandbox(h, stamp)) /\ UNCHANGED sourceVars
    BY <2>1, <2>6, RunEnters DEF sourceVars
  <2>7. CASE (\E stamp \in Stamps : CreateSandboxFails(h, stamp)) /\ UNCHANGED sourceVars
    BY <2>1, <2>7, RunEntersNot DEF sourceVars
  <2>8. CASE (GatesPass(h) \/ GatesFail(h)) /\ UNCHANGED <<source, handles>>
    BY <2>1, <2>8, RunJudged
  <2>9. CASE DestroySandbox(h) /\ UNCHANGED sourceVars
    BY <2>1, <2>9, RunLeaves DEF sourceVars
  <2> QED BY <1>1, <2>2, <2>3, <2>4, <2>5, <2>6, <2>7, <2>8, <2>9 DEF sourceVars
<1>10. WritersSound'
  BY <1>3, <1>4, <1>8, <1>9 DEF WritersSound, Aside, Outside
<1> QED BY <1>5, <1>6, <1>7, <1>10

\* The worktrees stay those of the runs that work in them and those left behind.
LEMMA HealKeepsSandboxes ==
  ASSUME HealersTyped, SandboxesSound, HealNext
  PROVE  SandboxesSound'
<1>1. PICK h \in Healers :
           \/ \/ \E trace \in Traces : BeginHealing(h, trace)
              \/ StagePatch(h) \/ ReceiveRepair(h) \/ AbortHealing(h)
           \/ \E stamp \in Stamps : CreateSandbox(h, stamp)
           \/ \E stamp \in Stamps : CreateSandboxFails(h, stamp)
           \/ GatesPass(h) \/ GatesFail(h) \/ DestroySandbox(h)
           \/ OpenSource(h) \/ WriteRepair(h) \/ HealerDies(h)
  BY HealCases
<1> USE DEF SandboxesSound, Using, Judges, Aside
<1>2. CASE \/ \E trace \in Traces : BeginHealing(h, trace)
           \/ StagePatch(h) \/ ReceiveRepair(h) \/ AbortHealing(h)
  BY <1>2, RunOutside DEF Outside
<1>3. CASE \E stamp \in Stamps : CreateSandbox(h, stamp)
  BY <1>3, RunEnters
<1>4. CASE \E stamp \in Stamps : CreateSandboxFails(h, stamp)
  BY <1>4, RunEntersNot
<1>5. CASE GatesPass(h) \/ GatesFail(h)
  BY <1>5, RunJudged
<1>6. CASE DestroySandbox(h)
  BY <1>6, RunLeaves
<1>7. CASE OpenSource(h) \/ WriteRepair(h)
  BY <1>7, RunWrites
<1>8. CASE HealerDies(h)
  BY <1>8, RunDies
<1> QED BY <1>1, <1>2, <1>3, <1>4, <1>5, <1>6, <1>7, <1>8

-----------------------------------------------------------------------------
(* The theorems *)

\* Everything the proofs need of a state, kept by every step (Next of SourceWriters: the
\* loop of verifier_daemon.py, its clients and the stages of alchemist_runner.py).
THEOREM Soundness == Spec => []Sound
<1>1. Sound /\ [Next]_vars => Sound'
  <2> SUFFICES ASSUME Sound, [Next]_vars PROVE Sound'
    OBVIOUS
  <2>1. CASE DaemonNext /\ UNCHANGED healVars
    <3>1. HealersTyped' /\ SandboxesSound'
      BY <2>1 DEF Sound, HealersTyped, SandboxesSound, Using, healVars
    <3> QED BY <2>1, <3>1, DaemonTypedStep, DaemonFailuresStep, DaemonWritersStep DEF Sound
  <2>2. CASE HealNext /\ UNCHANGED daemonVars
    BY <2>2, HealSoundStep, HealKeepsSandboxes DEF Sound
  <2>3. CASE UNCHANGED vars
    BY <2>3 DEF vars, sourceVars, daemonVars, healVars, ends, Sound, DaemonTyped,
                HealersTyped, FailuresCounted, WritersSound, LandedWasVerified, SandboxesSound,
                Using
  <2> QED BY <2>1, <2>2, <2>3 DEF Next
<1> QED BY <1>1, InitSound, PTL DEF Spec

\* "Hard stop" (verifier_daemon.py): no task's command fails more often than the ceiling
\* and the deaths allow, for every ceiling and however often the daemon dies.
THEOREM StrikesAreBounded == Spec => []StrikeCeilingHolds
<1>1. Sound => StrikeCeilingHolds
  <2> SUFFICES ASSUME Sound, NEW t \in Tasks PROVE failures[t] <= Ceiling + deaths
    BY DEF StrikeCeilingHolds
  <2>1. /\ strikes[t] \in Nat /\ failures[t] \in Nat /\ deaths \in Nat
        /\ strikes[t] <= Ceiling
    BY DEF Sound, DaemonTyped, FailuresCounted
  <2>2. CASE daemon.pc = "strike" /\ daemon.task = t
    BY <2>1, <2>2, DaemonAssumption DEF Sound, FailuresCounted
  <2>3. CASE ~(daemon.pc = "strike" /\ daemon.task = t)
    BY <2>1, <2>3, DaemonAssumption DEF Sound, FailuresCounted
  <2> QED BY <2>2, <2>3
<1> QED BY <1>1, Soundness, PTL

\* What is in the file passed its own gate as a whole, or is one of the exceptions that
\* the property names: the in-place write of a repair (OpenSource, WriteRepair), cut by a
\* death or overlapping another, and a candidate written behind the daemon's back; for
\* every interleaving and death.
THEOREM OnlyVerifiedLands == Spec => []LandedWasVerified
<1>1. Sound => LandedWasVerified
  BY DEF Sound, WritersSound
<1> QED BY <1>1, Soundness, PTL

\* A worktree of the healing engine (create_sandbox, destroy_sandbox) is used by one run,
\* which found nothing there, and outlives it only when the run died or git failed, for
\* every choice of names and time stamps.
THEOREM SandboxesAreOwned == Spec => []SandboxIsOwned
<1>1. Sound => SandboxIsOwned
  BY DEF Sound, SandboxesSound, SandboxIsOwned, Using
<1> QED BY <1>1, Soundness, PTL
=============================================================================
