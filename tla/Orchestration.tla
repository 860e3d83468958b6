--------------------------- MODULE Orchestration ---------------------------
(***************************************************************************)
(* Governed runs in Python: TenShadowsOrchestrator.run_objective           *)
(* (orchestrator.py) and the shorter TenShadowsKernel.run_objective        *)
(* (execution_authority.py) over one target directory, the capability      *)
(* registry, the active-run lease and the gate that reads it.  Runs are    *)
(* processes; agents and developers write files meanwhile, and a run may   *)
(* die between any two of its steps.  Content is a version of a path.      *)
(*                                                                         *)
(* Run identifiers are taken to be unique.                                 *)
(*                                                                         *)
(* First the records of execution_authority.py and the predicate that      *)
(* decides from them whether Ten Shadows executed a run.  Digests, times   *)
(* and texts are left out; a record's model_validator is an operator that  *)
(* says whether the record can be constructed.                             *)
(***************************************************************************)
EXTENDS Naturals, FiniteSets

CONSTANTS
  None,         \* an absent row, file or record
  Runs,         \* processes that establish one run each
  Tasks,        \* task identifiers; runs of one task share its workspace
  Requests,     \* Requests[r]: what run r may be asked, see IsRequest
  MaxAttempts,  \* max_attempts of run_objective
  FreePaths,    \* files of the code base whose path the gate excepts
  Touched,      \* bound: files that agents and developers touch
  MaxWrites,    \* bound: how often they do
  Faults        \* TRUE: processes die, test runs hit their timeout

Objectives == {"convert", "calculate", "unknown", "trivial"}
Modalities == {"STRUCTURAL", "DETERMINISTIC_TEST", "EMPIRICAL"}
VerifierTypes == {"BUILDER_TEST", "INDEPENDENT_BEHAVIORAL_ORACLE",
                  "INDEPENDENT_SEMANTIC_FALSIFICATION"}
FinalStatuses == {"VERIFIED_SUCCESS", "COMPLETED_UNVERIFIED", "BLOCKED", "FAILED"}
RunStatuses == FinalStatuses \cup {"CREATED", "ROUTED"}

Verifications ==
  [verifier : VerifierTypes, exit : {0, 1}, passed : {0, 1}, status : {"PASS", "FAIL"}]

\* WorkerInvocationRecord: an EMPIRICAL worker shows the provider's receipt.
ValidInvocation(modality, hasProviderReceipt) ==
  modality = "EMPIRICAL" => hasProviderReceipt

\* The test run's record: an exit code of 0 passes, and counts one test when
\* pytest printed no number.
VerificationOf(type, passes) ==
  [verifier |-> type, exit |-> IF passes THEN 0 ELSE 1,
   passed |-> IF passes THEN 1 ELSE 0, status |-> IF passes THEN "PASS" ELSE "FAIL"]

\* determine_route: keywords of the objective select the strategy.
RouteOf(objective) ==
  IF objective = "trivial" THEN "DIRECT_DELEGATION" ELSE "GOAL_DECOMPOSITION"

\* TenShadowsReceipt: the receipt of a success has an independent verification.
ValidReceipt(status, v) ==
  status = "VERIFIED_SUCCESS" => v # None /\ v.verifier # "BUILDER_TEST"

\* seal_and_persist_receipt: the claims are kept apart.
Verified(v) == v # None /\ v.status = "PASS" /\ v.exit = 0 /\ v.verifier # "BUILDER_TEST"
ClaimsOf(v, promotion, produced) ==
  [mutated |-> produced, verified |-> Verified(v), promoted |-> promotion = "PROMOTED",
   semantic |-> Verified(v) /\ v.verifier = "INDEPENDENT_SEMANTIC_FALSIFICATION"]

Receipts ==
  [objective : Objectives, status : FinalStatuses, verification : {None} \cup Verifications,
   claims : [mutated : BOOLEAN, verified : BOOLEAN, promoted : BOOLEAN,
             semantic : BOOLEAN]]

ReceiptOf(objective, status, v, promotion, produced) ==
  [objective |-> objective, status |-> status, verification |-> v,
   claims |-> ClaimsOf(v, promotion, produced)]

\* verify_execution_receipt: the receipt is anchored in the runs table, and a
\* success shows a test run that passed.
VerifyReceipt(rc, row) ==
  /\ ValidReceipt(rc.status, rc.verification)
  /\ row # None
  /\ row.objective = rc.objective
  /\ rc.status = "VERIFIED_SUCCESS" =>
       /\ rc.verification # None
       /\ rc.verification.exit = 0 /\ rc.verification.passed > 0
       /\ rc.verification.status = "PASS"
       /\ rc.verification.verifier # "BUILDER_TEST"

\* is_ten_shadows_execution, asked for a run identifier: the file under .receipts/
\* is believed before the row of the receipts table.
IsTenShadowsExecution(row, file, ledger) ==
  /\ row # None
  /\ IF file # None THEN VerifyReceipt(file, row)
     ELSE ledger # None /\ VerifyReceipt(ledger, row)

-----------------------------------------------------------------------------
Providers == {"deterministic", "gemini", "antigravity"}
IsRequest(q) ==
  q \in [entry : {"orchestrator", "kernel"}, task : Tasks, objective : Objectives,
         provider : Providers, promote : BOOLEAN, verifier : VerifierTypes]

ASSUME OrchestrationAssumption ==
  /\ None \notin Runs /\ "agent" \notin Runs
  /\ \A r \in Runs : \A q \in Requests[r] : IsRequest(q)
  /\ MaxAttempts \in Nat \ {0} /\ MaxWrites \in Nat /\ Faults \in BOOLEAN
  /\ Touched \subseteq {"temperature", "eval"}

\* Files of a workspace or of the target; "other" is any text that fails the tests.
Modules == {"temperature", "eval"}
Paths == Modules \cup {"test_temperature", "test_eval"}
Versions == {"correct", "other"}
Files == [Paths -> Versions \cup {None}]
NoFiles == [p \in Paths |-> None]
Present(f) == {p \in Paths : f[p] # None}

VARIABLES
  target,    \* the target directory
  author,    \* history: who last wrote or removed each of its files
  ws,        \* ws[t]: scratch/workspaces/governed_<t>, never removed
  registry,  \* the capability cap_temperature: None or its row
  lease,     \* scratch/active_run_lease.json: None or the run it names
  rows,      \* rows[r]: the runs table
  ledger,    \* ledger[r]: the receipts table
  filed,     \* filed[r]: .receipts/<r>_receipt.json
  pc, req, attempt,
  caps,      \* caps[r]: paths of the qualified capabilities found
  built,     \* built[r]: the last WorkerExecutionResult
  snap,      \* snap[r]: snapshot_after
  created,   \* created[r]: all_created_caps is not empty
  verif,     \* verif[r]: the last verification
  tested,    \* history: the files that verification ran on
  copied,    \* copied[r]: the files promoted so far
  outcome,   \* outcome[r]: final_status and objective_status
  writes     \* number of outside writes

shared == <<target, author, ws, registry, lease>>
records == <<rows, ledger, filed>>
locals == <<req, attempt, caps, built, snap, created, verif, tested, copied, outcome>>
vars == <<target, author, ws, registry, lease, rows, ledger, filed, pc, req, attempt, caps,
          built, snap, created, verif, tested, copied, outcome, writes>>

Ended == {"reported", "raised", "died"}
PC == Ended \cup {"idle", "established", "routed", "prepared", "attempting",
  "built", "snapped", "registered", "passed", "checked", "promoting", "sealing",
  "written", "inserted", "final"}

\* Rows of the capabilities and runs tables, and a worker's answer.
CapabilityRows ==
  [status : {"UNQUALIFIED", "QUALIFIED"}, run : Runs, hash : Versions \cup {None},
   evidence : Runs \cup {None}]
RunRows == [objective : Objectives, status : RunStatuses]
Builds == [exit : {"NONE", "SUCCESS", "FAILURE"}, modality : Modalities,
           error : {"", "CAPABILITY_DEFICIT", "CAPABILITY_PROVIDER_UNAVAILABLE"}]

ASSUME NoneAssumption ==
  None \notin Versions \cup Verifications \cup Receipts \cup RunRows \cup CapabilityRows

NoBuild == [exit |-> "NONE", error |-> "", modality |-> "STRUCTURAL"]

Init ==
  /\ target = NoFiles /\ author = [p \in Paths |-> None]
  /\ ws = [t \in Tasks |-> NoFiles]
  /\ registry = None /\ lease = None
  /\ rows = [r \in Runs |-> None]
  /\ ledger = [r \in Runs |-> None] /\ filed = [r \in Runs |-> None]
  /\ pc = [r \in Runs |-> "idle"]
  /\ req \in [Runs -> UNION {Requests[r] : r \in Runs}] /\ \A r \in Runs : req[r] \in Requests[r]
  /\ attempt = [r \in Runs |-> 1]
  /\ caps = [r \in Runs |-> {}]
  /\ built = [r \in Runs |-> NoBuild]
  /\ snap = [r \in Runs |-> NoFiles]
  /\ created = [r \in Runs |-> FALSE]
  /\ verif = [r \in Runs |-> None] /\ tested = [r \in Runs |-> NoFiles]
  /\ copied = [r \in Runs |-> {}]
  /\ outcome = [r \in Runs |-> "FAILED"]
  /\ writes = 0

Goto(r, from, to) == pc[r] = from /\ pc' = [pc EXCEPT ![r] = to]
Orchestrated(r) == req[r].entry = "orchestrator"

\* KernelDatabase.record_run_state: a row keeps the objective it was created with.
RecordRunState(r, status) ==
  rows' = [rows EXCEPT ![r] =
    IF @ = None THEN [objective |-> req[r].objective, status |-> status]
    ELSE [@ EXCEPT !.status = status]]

\* _take_fs_snapshot: the files found, by content.
Snapshot(t) == ws[t]

-----------------------------------------------------------------------------
(* Steps 1 to 6 of run_objective. *)

\* establish_run: the row is written before any worker may act.
Establish(r) ==
  /\ Goto(r, "idle", "established")
  /\ RecordRunState(r, "CREATED")
  /\ UNCHANGED <<shared, ledger, filed, locals, writes>>

\* find_reusable_capabilities, with only_qualified: keywords of the objective.
Reusable(r) ==
  IF /\ registry # None /\ registry.status = "QUALIFIED"
     /\ req[r].objective \in {"convert", "calculate"}
  THEN {"temperature"} ELSE {}

\* The registry is asked, by the orchestrator only, and determine_route records ROUTED.
DetermineRoute(r) ==
  /\ Goto(r, "established", "routed")
  /\ caps' = [caps EXCEPT ![r] = IF Orchestrated(r) THEN Reusable(r) ELSE {}]
  /\ RecordRunState(r, "ROUTED")
  /\ UNCHANGED <<shared, ledger, filed, req, attempt, built, snap, created, verif, tested,
                 copied, outcome, writes>>

\* The workspace of the task is made, or found with its files, and the artifacts of
\* the reusable capabilities are copied from the target, whatever they hold now.
PrepareWorkspace(r) ==
  /\ Orchestrated(r)
  /\ Goto(r, "routed", "prepared")
  /\ ws' = [ws EXCEPT ![req[r].task] =
       [p \in Paths |-> IF p \in caps[r] /\ target[p] # None THEN target[p] ELSE @[p]]]
  /\ UNCHANGED <<target, author, registry, lease, records, locals, writes>>

\* Mutant: the lease names the task.
WriteTaskLease(r) ==
  /\ Goto(r, "prepared", "attempting")
  /\ lease' = req[r].task
  /\ UNCHANGED <<target, author, ws, registry, records, locals, writes>>

\* Step 6: one lease file for all runs.
WriteLease(r) ==
  /\ Goto(r, "prepared", "attempting")
  /\ lease' = r
  /\ UNCHANGED <<target, author, ws, registry, records, locals, writes>>

-----------------------------------------------------------------------------
(* Step 7: one attempt. *)

\* What the providers answer, given that the token the run just computed verifies:
\* GeminiBuilderProvider reaches no network, the Antigravity bridge may be absent.
BuilderResults(q) ==
  CASE q.provider = "gemini" ->
         {[exit |-> "FAILURE", error |-> "CAPABILITY_PROVIDER_UNAVAILABLE",
           modality |-> "EMPIRICAL"]}
    [] q.provider = "antigravity" ->
         {[exit |-> "SUCCESS", error |-> "", modality |-> "STRUCTURAL"],
          [exit |-> "FAILURE", error |-> "CAPABILITY_PROVIDER_UNAVAILABLE",
           modality |-> "STRUCTURAL"]}
    [] OTHER ->
         {IF q.objective \in {"convert", "calculate"}
          THEN [exit |-> "SUCCESS", error |-> "", modality |-> "DETERMINISTIC_TEST"]
          ELSE [exit |-> "FAILURE", error |-> "CAPABILITY_DEFICIT",
                modality |-> "DETERMINISTIC_TEST"]}

\* The files DeterministicBuilderProvider writes; the other adapters write none.
WrittenBy(q) ==
  CASE q.provider = "deterministic" /\ q.objective = "convert" ->
         {"temperature", "test_temperature"}
    [] q.provider = "deterministic" /\ q.objective = "calculate" -> {"eval", "test_eval"}
    [] OTHER -> {}

BuilderExecutes(r) ==
  /\ Goto(r, "attempting", "built")
  /\ \E b \in BuilderResults(req[r]) : built' = [built EXCEPT ![r] = b]
  /\ ws' = [ws EXCEPT ![req[r].task] =
       [p \in Paths |-> IF p \in WrittenBy(req[r]) THEN "correct" ELSE @[p]]]
  /\ UNCHANGED <<target, author, registry, lease, records, req, attempt, caps, snap, created,
                 verif, tested, copied, outcome, writes>>

\* The workspace is hashed and the invocation recorded: a worker that says EMPIRICAL
\* brings no provider receipt, and the record cannot be built.
RecordInvocation(r) ==
  /\ Goto(r, "built", IF ValidInvocation(built[r].modality, FALSE) THEN "snapped"
                      ELSE "raised")
  /\ snap' = [snap EXCEPT ![r] = Snapshot(req[r].task)]
  /\ UNCHANGED <<shared, records, req, attempt, caps, built, created, verif, tested,
                 copied, outcome, writes>>

\* register_candidate: a new row is UNQUALIFIED; a known one keeps its status and its
\* evidence, and gets the new hashes and the new originating run.
Registered(row, r, hash) ==
  IF row = None
  THEN [status |-> "UNQUALIFIED", run |-> r, hash |-> hash, evidence |-> None]
  ELSE [row EXCEPT !.run = r, !.hash = hash]

\* The worker's candidates are registered with the hashes of the snapshot.
RegisterCandidate(r) ==
  /\ Goto(r, "snapped", "registered")
  /\ registry' = IF "temperature" \notin WrittenBy(req[r]) THEN registry
                 ELSE Registered(registry, r, snap[r]["temperature"])
  /\ created' = [created EXCEPT ![r] = @ \/ "temperature" \in WrittenBy(req[r])]
  /\ UNCHANGED <<target, author, ws, lease, records, req, attempt, caps, built, snap, verif,
                 tested, copied, outcome, writes>>

\* pytest in directory f: some test is there, and each finds what it imports.
TestsPass(f) ==
  /\ \E p \in {"test_temperature", "test_eval"} : f[p] # None
  /\ f["test_temperature"] # None => f["temperature"] = "correct"
  /\ f["test_eval"] # None => f["eval"] = "correct" /\ f["temperature"] = "correct"

\* execute_independent_verification, in directory f; the timeout is a failure.
Verdicts(f) == {TestsPass(f)} \cup (IF Faults THEN {FALSE} ELSE {})

\* Mutant: a verification that failed counts as a success on the last attempt.
JudgeLastWins(r, passes) ==
  IF passes \/ attempt[r] = MaxAttempts THEN "passed" ELSE "attempting"

\* Where the loop goes from a verification.
Judge(r, passes) ==
  IF passes THEN "passed" ELSE IF attempt[r] < MaxAttempts THEN "attempting" ELSE "sealing"

\* A builder that failed is not tested.
Verify(r) ==
  \E passes \in IF built[r].exit = "SUCCESS" THEN Verdicts(ws[req[r].task]) ELSE {FALSE} :
    /\ Goto(r, "registered", Judge(r, passes))
    /\ verif' = [verif EXCEPT ![r] = VerificationOf("INDEPENDENT_BEHAVIORAL_ORACLE", passes)]
    /\ tested' = [tested EXCEPT ![r] = ws[req[r].task]]
    /\ attempt' = [attempt EXCEPT ![r] = IF passes \/ @ = MaxAttempts THEN @ ELSE @ + 1]
    /\ outcome' = [outcome EXCEPT ![r] =
         IF passes THEN "VERIFIED_SUCCESS"
         ELSE IF built[r].error = "CAPABILITY_DEFICIT" THEN "BLOCKED" ELSE "FAILED"]
    /\ UNCHANGED <<shared, records, req, caps, built, snap, created, copied, writes>>

\* First half of qualify_capability: the artifact is hashed and compared with the row.
Qualifiable(row, f) ==
  f["temperature"] # None /\ (row.hash # None => f["temperature"] = row.hash)

\* Step 9: a refusal is caught and the run goes on.
CheckCandidate(r) ==
  /\ Goto(r, "passed", IF created[r] /\ Qualifiable(registry, ws[req[r].task])
                       THEN "checked" ELSE "promoting")
  /\ UNCHANGED <<shared, records, locals, writes>>

\* Second half: the row becomes QUALIFIED, whatever it holds by now.
Qualify(r) ==
  /\ Goto(r, "checked", "promoting")
  /\ registry' = [registry EXCEPT !.status = "QUALIFIED", !.evidence = r]
  /\ UNCHANGED <<target, author, ws, lease, records, locals, writes>>

-----------------------------------------------------------------------------
(* Steps 10 to 13. *)

\* The files of the snapshot that are still to be copied.
ToPromote(r) == IF req[r].promote THEN Present(snap[r]) \ copied[r] ELSE {}

\* Mutant: a file that is gone is skipped.
PromoteFileIfThere(r, p) ==
  /\ p \in ToPromote(r)
  /\ Goto(r, "promoting", "promoting")
  /\ target' = IF ws[req[r].task][p] = None THEN target
               ELSE [target EXCEPT ![p] = ws[req[r].task][p]]
  /\ author' = IF ws[req[r].task][p] = None THEN author ELSE [author EXCEPT ![p] = r]
  /\ copied' = [copied EXCEPT ![r] = @ \cup {p}]
  /\ UNCHANGED <<ws, registry, lease, records, req, attempt, caps, built, snap, created,
                 verif, tested, outcome, writes>>

\* One file is copied, as the workspace has it now; a missing one raises.
PromoteFile(r, p) ==
  /\ p \in ToPromote(r)
  /\ LET f == ws[req[r].task] IN
     /\ Goto(r, "promoting", IF f[p] = None THEN "raised" ELSE "promoting")
     /\ target' = IF f[p] = None THEN target ELSE [target EXCEPT ![p] = f[p]]
     /\ author' = IF f[p] = None THEN author ELSE [author EXCEPT ![p] = r]
     /\ copied' = IF f[p] = None THEN copied ELSE [copied EXCEPT ![r] = @ \cup {p}]
  /\ UNCHANGED <<ws, registry, lease, records, req, attempt, caps, built, snap, created,
                 verif, tested, outcome, writes>>

\* promotion_payload, and promotion_rec of the kernel's own run_objective.
PromotionOf(r) ==
  IF outcome[r] # "VERIFIED_SUCCESS" THEN "REJECTED"
  ELSE IF req[r].promote THEN "PROMOTED" ELSE "SKIPPED_NO_PROMOTE"

Sealed(r) ==
  ReceiptOf(req[r].objective, outcome[r], verif[r], PromotionOf(r),
            snap[r] # NoFiles \/ (~Orchestrated(r) /\ verif[r] # None))

\* seal_and_persist_receipt, once the files are copied, in three writes: the file,
WriteReceipt(r) ==
  /\ pc[r] = "sealing" \/ (pc[r] = "promoting" /\ ToPromote(r) = {})
  /\ pc' = [pc EXCEPT ![r] = IF ValidReceipt(outcome[r], verif[r]) THEN "written"
                             ELSE "raised"]
  /\ filed' = IF ValidReceipt(outcome[r], verif[r]) THEN [filed EXCEPT ![r] = Sealed(r)]
              ELSE filed
  /\ UNCHANGED <<shared, rows, ledger, locals, writes>>

\* the row of the receipts table,
InsertReceipt(r) ==
  /\ Goto(r, "written", "inserted")
  /\ ledger' = [ledger EXCEPT ![r] = Sealed(r)]
  /\ UNCHANGED <<shared, rows, filed, locals, writes>>

\* Mutant: the run is closed before its row is in the receipts table.
RecordFinalEarly(r) ==
  /\ \/ Goto(r, "written", "inserted") \/ Goto(r, "inserted", "final")
  /\ RecordRunState(r, outcome[r])
  /\ UNCHANGED <<shared, ledger, filed, locals, writes>>

\* and the status of the run.
RecordFinal(r) ==
  /\ Goto(r, "inserted", IF Orchestrated(r) THEN "final" ELSE "reported")
  /\ RecordRunState(r, outcome[r])
  /\ UNCHANGED <<shared, ledger, filed, locals, writes>>

\* Steps 12 and 13: the lease file is removed, whichever run it names by now; a removal
\* that fails is passed over and the run reports as well.
Finish(r) ==
  /\ Goto(r, "final", "reported")
  /\ lease' \in {None} \cup (IF Faults THEN {lease} ELSE {})
  /\ UNCHANGED <<target, author, ws, registry, records, locals, writes>>

\* cmd_run of ts_run.py: exit code 0 of the command line.
ExitsZero(r) ==
  /\ pc[r] = "reported" /\ VerifyReceipt(filed[r], rows[r])
  /\ outcome[r] = "VERIFIED_SUCCESS"

-----------------------------------------------------------------------------
(* TenShadowsKernel.run_objective, with its default builder, which writes nothing. *)

KernelDelegates(r) ==
  /\ ~Orchestrated(r) /\ RouteOf(req[r].objective) = "DIRECT_DELEGATION"
  /\ Goto(r, "routed", "sealing")
  /\ outcome' = [outcome EXCEPT ![r] = "COMPLETED_UNVERIFIED"]
  /\ UNCHANGED <<shared, records, req, attempt, caps, built, snap, created, verif,
                 tested, copied, writes>>

\* The tests run in the target itself.
KernelVerifies(r) ==
  /\ ~Orchestrated(r) /\ RouteOf(req[r].objective) # "DIRECT_DELEGATION"
  /\ Goto(r, "routed", "sealing")
  /\ \E passes \in Verdicts(target) :
       /\ verif' = [verif EXCEPT ![r] = VerificationOf(req[r].verifier, passes)]
       /\ outcome' = [outcome EXCEPT ![r] = IF passes THEN "VERIFIED_SUCCESS" ELSE "FAILED"]
  /\ tested' = [tested EXCEPT ![r] = target]
  /\ UNCHANGED <<shared, records, req, attempt, caps, built, snap, created, copied, writes>>

-----------------------------------------------------------------------------
(* Everyone else. *)

\* The tools that hooks.json sends to the gate; the writing ones are treated alike.
Tools == {"write_to_file", "run_command"}

\* is_active_run_authorized: the lease names a run and covers the place.  Workspaces
\* lie under scratch/, no lease covers the code base.
LeaseCovers(place) == lease # None /\ place = "workspace"

\* evaluate_write_tool: scratch/ is open at any time, and so are planning documents and
\* paths with .gemini or antigravity and brain in them.  evaluate_command_tool denies nothing.
GateAllows(tool, place, p) ==
  \/ tool = "run_command"
  \/ place = "workspace" \/ p \in FreePaths \/ LeaseCovers(place)

\* What an agent does by a tool the gate decides on; a command also removes files.
AgentWrites(tool, place, t, p) ==
  /\ writes < MaxWrites /\ writes' = writes + 1
  /\ GateAllows(tool, place, p)
  /\ \E v \in {"other"} \cup (IF tool = "run_command" THEN {None} ELSE {}) :
       IF place = "workspace"
       THEN ws' = [ws EXCEPT ![t][p] = v] /\ UNCHANGED <<target, author>>
       ELSE /\ target' = [target EXCEPT ![p] = v] /\ author' = [author EXCEPT ![p] = "agent"]
            /\ UNCHANGED ws
  /\ UNCHANGED <<registry, lease, records, pc, locals>>

\* A workspace's files are cleaned away: scratch/ is nobody's to keep.
Cleanup(t, p) ==
  /\ writes < MaxWrites /\ writes' = writes + 1
  /\ ws[t][p] # None
  /\ ws' = [ws EXCEPT ![t][p] = None]
  /\ UNCHANGED <<target, author, registry, lease, records, pc, locals>>

\* The process of a run dies.
Crash(r) ==
  /\ Faults
  /\ pc[r] \notin Ended \cup {"idle"}
  /\ pc' = [pc EXCEPT ![r] = "died"]
  /\ UNCHANGED <<shared, records, locals, writes>>

RunStep(r) ==
  \/ Establish(r) \/ DetermineRoute(r) \/ PrepareWorkspace(r)
  \/ WriteLease(r) \/ BuilderExecutes(r) \/ RecordInvocation(r) \/ RegisterCandidate(r)
  \/ Verify(r) \/ CheckCandidate(r) \/ Qualify(r)
  \/ \E p \in Paths : PromoteFile(r, p)
  \/ WriteReceipt(r) \/ InsertReceipt(r) \/ RecordFinal(r) \/ Finish(r)
  \/ KernelDelegates(r) \/ KernelVerifies(r)

Next ==
  \/ \E r \in Runs : RunStep(r) \/ Crash(r)
  \/ \E t \in Tasks, p \in Touched :
       \/ Cleanup(t, p)
       \/ \E tool \in Tools, place \in {"workspace", "codebase"} : AgentWrites(tool, place, t, p)

Spec == Init /\ [][Next]_vars

-----------------------------------------------------------------------------
(* What the orchestration promises. *)

\* The types of the state.
TypeOK ==
  /\ target \in Files /\ ws \in [Tasks -> Files]
  /\ author \in [Paths -> Runs \cup {"agent", None}]
  /\ registry \in {None} \cup CapabilityRows
  /\ lease \in Runs \cup {None}
  /\ rows \in [Runs -> {None} \cup RunRows]
  /\ ledger \in [Runs -> {None} \cup Receipts] /\ filed \in [Runs -> {None} \cup Receipts]
  /\ pc \in [Runs -> PC] /\ \A r \in Runs : req[r] \in Requests[r]
  /\ attempt \in [Runs -> 1..MaxAttempts]
  /\ caps \in [Runs -> SUBSET Paths] /\ copied \in [Runs -> SUBSET Paths]
  /\ built \in [Runs -> Builds]
  /\ snap \in [Runs -> Files] /\ tested \in [Runs -> Files]
  /\ created \in [Runs -> BOOLEAN]
  /\ verif \in [Runs -> {None} \cup Verifications]
  /\ outcome \in [Runs -> FinalStatuses]
  /\ writes \in 0..MaxWrites

\* The three writes of the seal agree as far as they have come: a run closed in the
\* runs table has its receipt in the receipts table with that status, and the receipt
\* file says the same (seal_and_persist_receipt, against a death in between).
SealedInOrder ==
  \A r \in Runs :
    /\ ledger[r] # None => filed[r] = ledger[r]
    /\ rows[r] # None /\ rows[r].status \in FinalStatuses =>
         ledger[r] # None /\ ledger[r].status = rows[r].status

\* What is_ten_shadows_execution says of a run is so.  Every run that reported is
\* recognised, and cmd_run exits with 0 exactly for those that succeeded.  A recognised
\* success was verified, by something else than the builder's own tests, and every file
\* of its snapshot is in the target, unless an agent took it away since: none was left
\* behind by a death or a failed copy.
RecognisedIsTrue ==
  \A r \in Runs : LET recognised == IsTenShadowsExecution(rows[r], filed[r], ledger[r]) IN
    /\ pc[r] = "reported" =>
         recognised /\ (ExitsZero(r) <=> rows[r].status = "VERIFIED_SUCCESS")
    /\ recognised /\ filed[r].status = "VERIFIED_SUCCESS" =>
         /\ Verified(verif[r]) /\ TestsPass(tested[r])
         /\ filed[r].claims.promoted /\ Orchestrated(r) =>
              \A p \in Present(snap[r]) : target[p] # None \/ author[p] = "agent"

\* A capability offered for reuse was qualified by a run whose tests passed on files
\* that held it, and the run it names exists (capability_registry.py, invariants 2
\* and 3), however registrations, verifications and qualifications interleave.
QualifiedWasEarned ==
  registry # None /\ registry.status = "QUALIFIED" =>
    /\ registry.evidence # None
    /\ TestsPass(tested[registry.evidence])
    /\ tested[registry.evidence]["temperature"] = "correct"
    /\ rows[registry.run] # None /\ rows[registry.run].status # "CREATED"

-----------------------------------------------------------------------------
(* The abstract view: a run opens, passes verification, delivers, closes; agents *)
(* write next to the runs, and whose work a file is stays visible.              *)

stage == [r \in Runs |->
  IF pc[r] = "idle" THEN "absent"
  ELSE IF pc[r] \in Ended THEN "closed"
  ELSE IF Verified(verif[r]) /\ Orchestrated(r) THEN "passed" ELSE "open"]
permitted == {r \in Runs : req[r].promote}
Governed == INSTANCE GovernedRuns
Implements == Governed!Spec
=============================================================================
