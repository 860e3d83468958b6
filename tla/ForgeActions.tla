---------------------------- MODULE ForgeActions ----------------------------
(***************************************************************************)
(* ForgeEngine._run_legacy_slice_pipeline (Forge/forge.py) with the gate   *)
(* (core/authorize.py), the execution (core/execute.py) and the store      *)
(* (core/store.py) it goes through: a request is routed, and one that acts *)
(* has its operation authorized under an idempotency key, the              *)
(* authorization consumed, the operation performed and its outcome         *)
(* recorded.  Every statement of the store is a step, so callers with one  *)
(* key interleave between the look-up of the key and its insertion.        *)
(*                                                                         *)
(* A proposal is a record [key, operation, allowed]: allowed is whether    *)
(* the gate permits the capability asked for and the path of the target.   *)
(* The pipeline draws a new key each time; callers of the gate choose      *)
(* theirs, and may present one decision twice.                             *)
(*                                                                         *)
(* SandboxFileAdapter (adapters/actions.py) writes to one directory, which *)
(* the execution graphs of Forge share.  An operation is a record          *)
(* [target, content, safe]: content is "text" or "empty", safe is whether  *)
(* the adapter's checks of the path let it pass.  Pipeline and graphs      *)
(* start at most MaxCalls runs together.                                   *)
(***************************************************************************)
EXTENDS Naturals, Sequences

CONSTANTS Targets, MaxCalls, Actors, Keys, Proposals, MaxDeaths

ASSUME ProposalAssumption ==
  /\ Proposals # {}
  /\ \A p \in Proposals : p.key \in Keys

VARIABLES
  sandbox,         \* what stands under each target of the sandbox directory
  calls,           \* the runs started so far
  actor,           \* what an actor is doing: [pc, proposal, decision, committed, again]
  runs,            \* runs: the status of the actor's last run
  transactions,    \* transactions: the state of the actor's last transaction
  authorizations,  \* authorizations, by their unique idempotency key
  performed,       \* who performed the operation of a key, each time it was
  deaths           \* the deaths so far

actionVars == <<actor, runs, transactions, authorizations, performed, deaths>>

SandboxInit == sandbox = [t \in Targets |-> "absent"] /\ calls = 0

Call == calls < MaxCalls /\ calls' = calls + 1

\* A token is asked for, never looked up: every name but the reserved one passes.
Accepts(token, operation) == token \notin {"", "UNAUTHORIZED_ACTION"} /\ operation.safe

Write(token, operation) ==
  /\ Accepts(token, operation)
  /\ sandbox' = [sandbox EXCEPT ![operation.target] = operation.content]

-----------------------------------------------------------------------------
Free == [state |-> "NONE", holder |-> "nobody"]
Idle(proposal) ==
  [pc |-> "idle", proposal |-> proposal, decision |-> "NONE", committed |-> FALSE, again |-> FALSE]

ActionsInit ==
  /\ actor = [a \in Actors |-> Idle(CHOOSE p \in Proposals : TRUE)]
  /\ runs = [a \in Actors |-> "NONE"]
  /\ transactions = [a \in Actors |-> "NONE"]
  /\ authorizations = [k \in Keys |-> Free]
  /\ performed = [k \in Keys |-> <<>>]
  /\ deaths = 0

At(a, pc) == actor[a].pc = pc
Step(a, pc) == actor' = [actor EXCEPT ![a].pc = pc]
Proposed(a) == actor[a].proposal

\* record_run, record_transaction: an upsert.
RecordRun(a, status) == runs' = [runs EXCEPT ![a] = status]
RecordTransaction(a, state) == transactions' = [transactions EXCEPT ![a] = state]

Begin(a) ==
  /\ At(a, "idle") /\ Call
  /\ \E p \in Proposals : actor' = [actor EXCEPT ![a] = [Idle(p) EXCEPT !.pc = "normalize"]]
  /\ RecordRun(a, "STARTED")
  /\ RecordTransaction(a, "NONE")
  /\ UNCHANGED <<authorizations, performed, deaths, sandbox>>

NormalizeTask(a) ==
  /\ At(a, "normalize")
  /\ RecordRun(a, "NORMALIZED") /\ Step(a, "route")
  /\ UNCHANGED <<transactions, authorizations, performed, deaths, sandbox, calls>>

\* compile_route: what needs an external action acts, the rest is built or answered.
Route(a) ==
  /\ At(a, "route")
  /\ \E next \in {"open", "direct", "build"} : Step(a, next)
  /\ RecordRun(a, "ROUTED")
  /\ UNCHANGED <<transactions, authorizations, performed, deaths, sandbox, calls>>

\* direct: an answer with nothing unresolved is COMPLETE.
AnswerDirectly(a) ==
  /\ At(a, "direct")
  /\ \E complete \in BOOLEAN : actor' = [actor EXCEPT ![a].pc = "close", ![a].committed = complete]
  /\ UNCHANGED <<runs, transactions, authorizations, performed, deaths, sandbox, calls>>

\* build: the artifact is written and recorded whatever the smoke test says of it.
BuildArtifact(a) ==
  /\ At(a, "build")
  /\ \E smoke \in BOOLEAN : actor' = [actor EXCEPT ![a].pc = "close", ![a].committed = smoke]
  /\ UNCHANGED <<runs, transactions, authorizations, performed, deaths, sandbox, calls>>

OpenTransaction(a) ==
  /\ At(a, "open")
  /\ RecordTransaction(a, "OPEN") /\ Step(a, "gate")
  /\ UNCHANGED <<runs, authorizations, performed, deaths, sandbox, calls>>

Denied(a) == ~Proposed(a).allowed \/ authorizations[Proposed(a).key].state # "NONE"

\* evaluate_proposal, up to the look-up of the key.
EvaluateProposal(a) ==
  /\ At(a, "gate")
  /\ actor' = [actor EXCEPT ![a].pc = IF Denied(a) THEN "record" ELSE "issue",
                            ![a].decision = IF Denied(a) THEN "DENIED" ELSE "AUTHORIZED"]
  /\ UNCHANGED <<runs, transactions, authorizations, performed, deaths, sandbox, calls>>

\* Mutant: the row of a key that is already there is replaced.
ReplaceAuthorization(a) ==
  /\ authorizations' = [authorizations EXCEPT ![Proposed(a).key] =
                          [state |-> "AUTHORIZED", holder |-> a]]
  /\ Step(a, "consume")

\* record_authorization: the key is UNIQUE, a second insertion raises and ends the run.
RecordAuthorization(a) ==
  IF authorizations[Proposed(a).key].state = "NONE"
    THEN /\ authorizations' = [authorizations EXCEPT ![Proposed(a).key] =
                                 [state |-> "AUTHORIZED", holder |-> a]]
         /\ Step(a, "consume")
    ELSE /\ Step(a, "idle")
         /\ UNCHANGED authorizations

IssueAuthorization(a) ==
  /\ At(a, "issue")
  /\ RecordAuthorization(a)
  /\ UNCHANGED <<runs, transactions, performed, deaths, sandbox, calls>>

\* consume_authorization: only a row that is AUTHORIZED is updated.
Consumable(a) ==
  /\ authorizations[Proposed(a).key].holder = a
  /\ authorizations[Proposed(a).key].state = "AUTHORIZED"

\* Where the receipt goes: the pipeline records it, a caller who presents a decision
\* again only reads it.
Received(a) == IF actor[a].again THEN "evaluate" ELSE "record"

\* The operation presented may differ from the authorized one; its receipt is then FAILED.
ConsumeAuthorization(a) ==
  /\ At(a, "consume")
  /\ \/ /\ Consumable(a)
        /\ authorizations' = [authorizations EXCEPT ![Proposed(a).key].state = "CONSUMED"]
        /\ Step(a, "perform")
     \/ /\ Step(a, Received(a))
        /\ UNCHANGED authorizations
  /\ UNCHANGED <<runs, transactions, performed, deaths, sandbox, calls>>

Perform(a) ==
  /\ At(a, "perform")
  /\ \/ /\ Write("token", Proposed(a).operation)
        /\ performed' = [performed EXCEPT ![Proposed(a).key] = Append(@, a)]
        /\ actor' = [actor EXCEPT ![a].pc = Received(a), ![a].committed = TRUE]
     \/ /\ Step(a, Received(a))
        /\ UNCHANGED <<performed, sandbox>>
  /\ UNCHANGED <<runs, transactions, authorizations, deaths, calls>>

RecordOutcome(a) ==
  /\ At(a, "record")
  /\ RecordTransaction(a, IF actor[a].decision = "DENIED" THEN "DENIED"
                          ELSE IF actor[a].committed THEN "COMMITTED" ELSE "FAILED")
  /\ Step(a, "evaluate")
  /\ UNCHANGED <<runs, authorizations, performed, deaths, sandbox, calls>>

\* The caller keeps the decision and presents it a second time.
PresentAgain(a) ==
  /\ At(a, "evaluate") /\ actor[a].decision = "AUTHORIZED" /\ ~actor[a].again
  /\ actor' = [actor EXCEPT ![a].pc = "consume", ![a].again = TRUE]
  /\ UNCHANGED <<runs, transactions, authorizations, performed, deaths, sandbox, calls>>

\* evaluate: the file is looked for now, with what others wrote since.
EvaluateOutcome(a) ==
  /\ At(a, "evaluate")
  /\ actor' = [actor EXCEPT ![a].pc = "close",
                            ![a].committed = @ /\ sandbox[Proposed(a).operation.target] = "text"]
  /\ UNCHANGED <<runs, transactions, authorizations, performed, deaths, sandbox, calls>>

CloseRun(a) ==
  /\ At(a, "close")
  /\ RecordRun(a, IF actor[a].committed THEN "COMPLETED" ELSE "FAILED")
  /\ Step(a, "idle")
  /\ UNCHANGED <<transactions, authorizations, performed, deaths, sandbox, calls>>

ActorDies(a) ==
  /\ ~At(a, "idle") /\ deaths < MaxDeaths
  /\ Step(a, "idle") /\ deaths' = deaths + 1
  /\ UNCHANGED <<runs, transactions, authorizations, performed, sandbox, calls>>

ActionStep(a) ==
  \/ Begin(a) \/ NormalizeTask(a) \/ Route(a) \/ AnswerDirectly(a) \/ BuildArtifact(a)
  \/ OpenTransaction(a) \/ EvaluateProposal(a) \/ IssueAuthorization(a)
  \/ ConsumeAuthorization(a) \/ Perform(a) \/ RecordOutcome(a) \/ PresentAgain(a)
  \/ EvaluateOutcome(a) \/ CloseRun(a) \/ ActorDies(a)

-----------------------------------------------------------------------------
Performers(key) == {performed[key][i] : i \in DOMAIN performed[key]}

\* The operation of an idempotency key is performed at most once, whoever else asks for the
\* key between the look-up and the insertion, however often a decision is presented and
\* wherever an actor dies; and a transaction is COMMITTED only when its own actor performed
\* the operation (authorize.py:76, execute.py:60, forge.py:480).
PerformedAtMostOnce ==
  /\ \A k \in Keys : Len(performed[k]) <= 1
  /\ \A a \in Actors : transactions[a] = "COMMITTED" => a \in Performers(Proposed(a).key)
=============================================================================
