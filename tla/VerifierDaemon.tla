--------------------------- MODULE VerifierDaemon ---------------------------
(***************************************************************************)
(* The verifier daemon (verifier_daemon.py): one loop polls one intent     *)
(* file, runs the intent's command, moves the candidate to the target when *)
(* it exits with 0, writes two receipts and archives the intent, if it     *)
(* can.  The daemon may die between any two of its effects; nothing in the *)
(* code starts it again.                                                   *)
(*                                                                         *)
(* Clients are not part of the repository.  They write candidates at any   *)
(* time, and an intent when there is none, in two writes, which is what    *)
(* the daemon's settle time is for.                                        *)
(*                                                                         *)
(* The target is a source file that runs of self-healing also repair.      *)
(* A promotion replaces it in one step.  A repair is written in place: it  *)
(* opens the file, which empties it, and then writes; a handle opened      *)
(* before a promotion is one on the file that was replaced.  A text is its *)
(* lines and whether the last of them ends in a newline, which splitlines  *)
(* and join lose.                                                          *)
(***************************************************************************)
EXTENDS Sequences, StepGovernor

CONSTANTS
  Original,       \* the text of the source file at the start
  MaxDeaths,      \* bound: deaths, of the daemon and of healing runs
  Tasks,          \* task identifiers of intents
  Candidates,     \* texts that clients submit
  Ceiling         \* failed verifications after which a task is blocked

ASSUME DaemonAssumption ==
  None \notin Candidates /\ Ceiling \in Nat \ {0} /\ MaxDeaths \in Nat

VARIABLES
  source,       \* the text of the source file
  handles,      \* healing runs whose open handle is one on the file as it is now
  passed,       \* history: the texts that a gate has passed
  deaths,       \* deaths of the daemon and of healing runs
  intent,       \* intent.json
  candidate,    \* candidate[t]: the file at t's candidate path
  strikes,      \* strikes[t]: rows of strike_log
  channel,      \* receipt.json
  ledger,       \* ledger[t]: .receipts/<t>_receipt.json
  daemon,       \* the local state of process_intent
  failures,     \* history: failures[t], the commands of t that failed
  late          \* history: candidates written while a command may be judging another

sourceVars == <<source, handles, passed, deaths>>
daemonVars ==
  <<intent, candidate, strikes, channel, ledger, daemon, failures, late>>

NoIntent == [type |-> "none"]
Intent(type, t) == [type |-> type, task |-> t]

Polling == [pc |-> "poll"]
Receipt(t, status, promotion) == [task |-> t, status |-> status, promotion |-> promotion]
Persist(receipt) == [pc |-> "channel", task |-> receipt.task, receipt |-> receipt]

SourceInit == source = Original /\ handles = {} /\ passed = {} /\ deaths = 0

DaemonInit ==
  /\ intent = NoIntent
  /\ candidate = [t \in Tasks |-> None]
  /\ strikes = [t \in Tasks |-> 0] /\ failures = [t \in Tasks |-> 0]
  /\ late = {}
  /\ channel = None /\ ledger = [t \in Tasks |-> None]
  /\ daemon = Polling

-----------------------------------------------------------------------------
(* Clients *)

WriteCandidate(t, c) ==
  /\ candidate' = [candidate EXCEPT ![t] = c]
  /\ late' = IF daemon.pc \in {"run", "promote"} /\ daemon.task = t THEN late \cup {c} ELSE late
  /\ UNCHANGED <<intent, strikes, channel, ledger, daemon, failures>>

\* Half of an intent.
Submit(t) ==
  /\ intent = NoIntent
  /\ intent' = Intent("partial", t)
  /\ UNCHANGED <<candidate, strikes, channel, ledger, daemon, failures, late>>

FinishSubmit ==
  /\ intent.type = "partial"
  /\ intent' = Intent("intent", intent.task)
  /\ UNCHANGED <<candidate, strikes, channel, ledger, daemon, failures, late>>

-----------------------------------------------------------------------------
(* process_intent *)

\* Mutant: off by one at the ceiling.
ReadIntentLate ==
  /\ daemon = Polling /\ intent.type = "intent"
  /\ daemon' = IF strikes[intent.task] > Ceiling
                 THEN Persist(Receipt(intent.task, "BLOCKED", None))
                 ELSE [pc |-> "run", task |-> intent.task]
  /\ UNCHANGED <<intent, candidate, strikes, channel, ledger, failures, late>>
\* An intent that does not parse is left alone, and polled again.
ReadIntent ==
  /\ daemon = Polling /\ intent.type = "intent"
  /\ daemon' = IF strikes[intent.task] >= Ceiling
                 THEN Persist(Receipt(intent.task, "BLOCKED", None))
                 ELSE [pc |-> "run", task |-> intent.task]
  /\ UNCHANGED <<intent, candidate, strikes, channel, ledger, failures, late>>

\* The command judged the candidate, unless that was written while it ran.
CommandPasses ==
  /\ daemon.pc = "run"
  /\ daemon' = [daemon EXCEPT !.pc = "promote"]
  /\ passed' = passed \cup ({candidate[daemon.task]} \ ({None} \cup late))
  /\ UNCHANGED <<intent, candidate, strikes, channel, ledger, failures, late>>

\* A non-zero exit, a command that cannot be run, or a timeout (ENVIRONMENT_FAILURE).
CommandFails ==
  /\ daemon.pc = "run"
  /\ daemon' = [pc |-> "strike", task |-> daemon.task]
  /\ failures' = [failures EXCEPT ![daemon.task] = @ + 1]
  /\ UNCHANGED <<intent, candidate, strikes, channel, ledger, late>>

\* The row has the class of the failure, which get_strikes does not look at: a timeout is a
\* strike, and a pass takes none back.
RecordStrike ==
  /\ daemon.pc = "strike"
  /\ strikes' = [strikes EXCEPT ![daemon.task] = @ + 1]
  /\ daemon' = Persist(Receipt(daemon.task, "REJECTED", None))
  /\ UNCHANGED <<intent, candidate, channel, ledger, failures, late>>

\* Without a candidate file the intent is VERIFIED all the same.
NothingToPromote ==
  /\ daemon.pc = "promote" /\ candidate[daemon.task] = None
  /\ daemon' = Persist(Receipt(daemon.task, "VERIFIED", None))
  /\ UNCHANGED <<intent, candidate, strikes, channel, ledger, failures, late>>

\* The candidate becomes a temporary file beside the target.
MoveCandidate ==
  /\ daemon.pc = "promote" /\ candidate[daemon.task] # None
  /\ daemon' = [pc |-> "replace", task |-> daemon.task, temp |-> candidate[daemon.task]]
  /\ candidate' = [candidate EXCEPT ![daemon.task] = None]
  /\ UNCHANGED <<intent, strikes, channel, ledger, failures, late>>

ReplaceTarget ==
  /\ daemon.pc = "replace"
  /\ source' = daemon.temp /\ handles' = {}
  /\ daemon' = Persist(Receipt(daemon.task, "VERIFIED", daemon.temp))
  /\ UNCHANGED <<intent, candidate, strikes, channel, ledger, failures, late>>

\* _persist_receipts: one channel for all tasks, one ledger file per task.
WriteChannel ==
  /\ daemon.pc = "channel"
  /\ channel' = daemon.receipt
  /\ daemon' = [daemon EXCEPT !.pc = "ledger"]
  /\ UNCHANGED <<intent, candidate, strikes, ledger, failures, late>>

WriteLedger ==
  /\ daemon.pc = "ledger"
  /\ ledger' = [ledger EXCEPT ![daemon.task] = daemon.receipt]
  /\ daemon' = [daemon EXCEPT !.pc = "archive"]
  /\ UNCHANGED <<intent, candidate, strikes, channel, failures, late>>

\* Failures of the move and of the removal are swallowed: the intent stays, and is polled
\* again.
ArchiveIntent ==
  /\ daemon.pc = "archive"
  /\ intent' \in {NoIntent, intent} /\ daemon' = Polling
  /\ UNCHANGED <<candidate, strikes, channel, ledger, failures, late>>

\* Only an interrupt is caught by run_daemon: any exception ends it, as a crash does.
DaemonDies ==
  /\ daemon.pc \notin {"poll", "dead"} /\ deaths < MaxDeaths
  /\ daemon' = [pc |-> "dead"]
  /\ deaths' = deaths + 1
  /\ UNCHANGED <<intent, candidate, strikes, channel, ledger, failures, late>>

DaemonStarts ==
  /\ daemon.pc = "dead"
  /\ daemon' = Polling
  /\ UNCHANGED <<intent, candidate, strikes, channel, ledger, failures, late>>

ProcessIntent ==
  \/ /\ \/ ReadIntent \/ CommandFails \/ RecordStrike
        \/ NothingToPromote \/ MoveCandidate
        \/ WriteChannel \/ WriteLedger \/ ArchiveIntent
     /\ UNCHANGED sourceVars
  \/ CommandPasses /\ UNCHANGED <<source, handles, deaths>>
  \/ ReplaceTarget /\ UNCHANGED <<passed, deaths>>

DaemonNext ==
  \/ ProcessIntent
  \/ DaemonDies /\ UNCHANGED <<source, handles, passed>>
  \/ /\ \/ DaemonStarts \/ FinishSubmit
        \/ \E t \in Tasks : Submit(t) \/ \E c \in Candidates : WriteCandidate(t, c)
     /\ UNCHANGED sourceVars

-----------------------------------------------------------------------------
(* Properties *)

\* The hard stop of verifier_daemon.py:7 as the code has it: a task's commands fail, timeouts
\* included, at most as often as the ceiling over all its intents and whatever passed between
\* them, and once more for each death, which may come between a failure and its strike.
\* (The strikes are not consecutive, as :7 says, nor is a timeout none, as schema.py:60 says.)
StrikeCeilingHolds == \A t \in Tasks : failures[t] <= Ceiling + deaths
=============================================================================
