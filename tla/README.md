# Verification of 10 SHADOWS

TLA+ specifications of the stateful core of this repository - custody and promotion,
the Rust kernel, governed runs, routes and artifacts, the writers of source files, the
relational memory with its constitution, and Forge - with the TLC instances that check
them and the TLAPS proofs about them.

10 SHADOWS runs generated work products ("candidates") through sealed manifests,
physical verification, privileged state transitions and promotion onto a git
branch.  What it claims is *custody*: nothing is called verified, promoted or
sufficient unless the evidence, the repository and the database say so.  What can
break that claim is not a single function but the order of steps of several
processes over one SQLite database, one git repository and several directories,
any of which may die between two statements.  That is what is modelled here.

## 1. Inventory

Paths are relative to `src/`.

| Component | State it keeps | Operations | Interacts with |
|---|---|---|---|
| Custody states (`loop_engine/schema.py`) | - | `State`, `LEGAL_STATE_TRANSITIONS` | all of the Python kernel |
| Proposal database (`loop_engine/kernel_db.py`) | tables proposals, verified_receipts, promotion_wal, strike_log, quarantine_log, runs, escalations, approvals, semantic_proofs, domain_authorities, authority_evidence | `record_proposal`, `_raw_transition_proposal_state`, `update_state`, `record_verified_receipt`, `record_promotion_wal_step`, `get_pending_promotions`, `record_run_state`, `record_escalation`, `record_approval`, `record_authority_evidence` | everything that persists |
| Transition engine (`transition.py`, `authority.py`, `governance.py`) | set of spent witnesses | `execute_transition` | database; verifier gate and promoter call it |
| Physical verifier gate (`verifier_gate.py`) | - | `verify_candidate` (gates 1-8) | worktree, pytest, database, engine |
| Promotion coordinator (`promoter.py`) | - | `promote`, `reconcile_interrupted_promotions` | git target branch, database, engine |
| Rust kernel (`crates/ten_shadows_kernel`) | run state machine, worktree, ledger, receipts on disk, ledger database | capture baseline, prepare workspace, authorize, dispatch, verify, repair, promote and seal, evaluate receipt | git, worker process, files, SQLite |
| Execution authority and orchestrator (`execution_authority.py`, `orchestrator.py`, `capability_registry.py`, `providers/`) | lease file, capability rows, runs, receipts, workspaces, the target directory | establish and route a run, build, verify, register and qualify capabilities, promote files, seal a receipt | database, files, the agent's write gate |
| Step governor (`governor.py`, `governance.yaml`) | strikes, failure signatures, last candidate | `run_step`: attempts, retries, oscillation | router, self-healing, runners, database |
| Verifier daemon (`verifier_daemon.py`) | intent, candidates, channel and ledger receipts, strikes | `process_intent`, `run_daemon` | clients, the target file, database |
| Self-healing (`runners/alchemist_runner.py`, `alchemist/`, `harness/git_worktree.py`, `verifiers/`) | worktrees, receipts of repairs | parse, patch, sandbox, gates, commit | step governor, git, the target file |
| Router and artifacts (`router.py`, `artifacts.py`) | runs, escalations, artifact rows and files | `execute`, `resolve_escalation`, `stage_artifact`, `transition_state`, `load_artifact_content` | runners, database, file system |
| Relational memory (`relational/`) | node and edge tables | retraction and downgrade cascades, projection of receipts, gap planning, scheduling, structural transfer | its own SQLite database |
| Constitution (`constitution/`) | objectives and their versions | qualify and revise intents, weigh evidence, evaluate sufficiency, bind capabilities | relational memory |
| Shadows (`runners`, `herald`, `scribe`, `slicer`, `media`, `model`) | scratch files, their outputs | specify, stage, audit, commit | router, step governor |
| Forge (`Forge/`) | runs, transactions, authorizations, proofs; the capability registry; sandbox files | the action pipeline; `run`: derive, resolve, compile, execute, provision | its own store, the sandbox |
| SVRIS (`svris/`), auditor (`zero_trust_engine/`) | research store; none | separate tools | files |
| Front ends (`start_ten_shadows.py`, `ts_run.py`, `gamemaster/`, `scripts/`) | - | command lines and projections | the above |

What is hard in it:

- *Statements that are not one transaction.*  `verify_candidate` moves the proposal
  and then inserts the receipt; `promote` moves the row, writes the log, moves the
  branch, moves the row again; the Rust kernel merges and then writes a receipt.
- *Failures that are swallowed.*  `execute_transition` ignores every error of its
  compare-and-swap (`transition.py:268`), so its callers run on.
- *Several processes over one row and one branch.*  Two promote calls, the
  reconciler, `update_state` and developers who push.
- *Answers that are stale when used.*  The state read before git runs, the branch
  head read before the merge, the list of pending promotions.
- *Checks that are not atomic with what they allow.*  A capability is hashed and then
  updated, an idempotency key looked up and then inserted, a payload written before
  its key is looked up, a status ranked and then overwritten.
- *Shared files nobody locks.*  The lease, the scratch files of an objective, the source
  file that daemon and self-healing both write.
- *Crashes* at every point, with a reconciliation that looks at one state only.

Properties that make each component correct are listed with its module below; the
hazards, line by line, are in `PROJECT.json`.

## 2. Plan

The order of work, the most important behaviour first; all of it is done.

| | Modules | Abstract specification | Section |
|---|---|---|---|
| 1 | `Promotion` with states, engine, gate, promoter, reconciler, branch | `ProposalCustody` | 3 |
| 2 | `KernelRun` | - | 4 |
| 3 | `Orchestration` | `GovernedRuns` | 5 |
| 4 | `RouteExecution` with `StepGovernor` | - | 6 |
| 5 | `SourceWriters`: `VerifierDaemon` and self-healing over one file | - | 7 |
| 6 | `RelationalMemory`, composed of the processes on one graph; the constitution's functions | - | 8 |
| 7 | `Forge`: `ForgeActions` and the execution graphs of `ForgeResolution` on one sandbox | - | 9 |

Each group has an `MC` module with its instances and a `Proofs` module with its
inductive invariant, the safety invariants that follow and, where there is an
abstract specification, the refinement.  Where
code and documentation disagree is said in the last part of each section, and for the two
disagreements that a run exhibits in section 10; section 11 says what is only
model-checked and what is not modelled.

## 3. Promotion

### 3.1 Modules

| Module | What it holds |
|---|---|
| `ProposalStates` | `State`, the legal table, `PrivilegedStates` |
| `ProposalCustody` | the abstract specification: a proposal moves along the table, is called promoted only once its candidate is on the branch, and what landed stays landed |
| `Promotion` | the pipeline, statement by statement |
| `MCPromotion` | the small instances |
| `PromotionProofs` | the theorems |

### 3.2 Correspondence

| Variable | Code |
|---|---|
| `state`, `sealed` | columns `state` and `candidate_commit_sha` of table proposals |
| `receipts` | rows of verified_receipts: task, commit, status |
| `wal` | rows of promotion_wal |
| `head` | commit `git rev-parse target_branch` answers |
| `verifier[v]`, `promoter[p]`, `reconciler` | program counter and local variables of a `verify_candidate`, `promote` or `reconcile_interrupted_promotions` call |
| `tested` | history variable: pairs whose acceptance run passed; nothing reads it |

| Actions | Code |
|---|---|
| `Seal`, `UpdateState` | `record_proposal`, `update_state` / `transition_proposal_state` |
| `VerifyRefuse` | gates 1 to 4 and the missing-test check: a receipt, no transition |
| `VerifyRun`, `VerifyFail`, `VerifyPass`, `VerifyClaim`, `VerifyRecord` | pytest starts; a failing run files its receipt; a passing run reads the state, asks the engine, files its receipt |
| `Call`, `CheckTarget` | `promote` up to its first transition |
| `Request...`, `Rollback`, `Log...` | one `_request_transition` or `record_promotion_wal_step` each |
| `Checkout`, `Merge`, `MergeFails`, `PostTest` | the git and pytest commands of `promote` |
| `ListPending`, `Examine`, `Settle`, `SettleFails` | the loop of the reconciliation |
| `Crash...` | the process dies; its locals are lost, the database and git are not |
| `ForeignCommit` | external: somebody pushes on top of the branch |

`EngineTransition` is the heart of it.  `execute_transition` refuses an illegal
pair; otherwise it runs `UPDATE ... WHERE state = from` and swallows every error.
So its caller, who is told that the transition happened, sees either the swap or no
change - because the row was in another state or, when `DbBusy`, because SQLite
answered that the database is locked.

Abstractions:

- Commits and their ancestry are constants.  `git merge --ff-only c` succeeds when
  the head is an ancestor of `c`, or `c` one of the head's ("already up to date");
  it may fail at any time (index lock, local changes), and so may `git checkout` and
  the clean-worktree check.
- The target branch exists, so `git rev-parse` does not fail, and nobody checks out
  another branch in `repo_dir` between a promote call's checkout (`promoter.py:162`) and
  its merge (`:172`), which merges into whatever is checked out.
- The three reads at the start of `promote` (receipt, proposal, state) are one step.
  The first two read rows that are never changed after they were inserted.
- Witness, claim digest and governance digest are left out: each caller makes a fresh
  witness over exactly the claim it submits and the governance digest is cached in
  the process, so the engine's checks 2 to 4 cannot refuse.
- A promote call with another task's receipt raises; like an answer of False it
  leaves everything as it was, and both are `declined`.
- Rows are sets: two equal receipts are one.  No code compares receipt numbers.
- Which gate refused is abstracted to the status of the receipt it files.

### 3.3 Runs

| Run | Instance | Shows |
|---|---|---|
| `promotion_race` | one task, two promoters, a verifier, the reconciler, two foreign commits (one that diverges from the candidate and one on top of it), both failing statuses, busy database | the safety invariants, `LandsOnlyVerified` and the refinement of `ProposalCustody` hold whatever interleaves |
| `promotion_stacked` | two tasks, the second candidate built on the first, one promoter, manifests that bring any state | `NoStowaways`, `TargetOnlyGrows`, and `PrivilegeIsEarned`: no later move of a proposal asserts more than was earned, whatever state it was inserted in |

Why these bounds are enough to be interesting: two promoters are what a lost
compare-and-swap needs; the reconciler makes a third writer and `UpdateState` a
fourth; a foreign commit is what makes a merge fail or the base move; a second task
is needed only for commits that ride along, and for two tasks in the reconciler's
list.  A third promoter would meet the same rows in the same states.  The number of
calls is not bounded: after it returns or crashes a process may call again, and all
runs exhaust the state space.

`CHECK_DEADLOCK FALSE` in every instance: when all calls have returned, everything
is promoted and no test is requested, the system has nothing to do.

`promotion_race` lets callers seal CANDIDATE_SEALED only: that a proposal called promoted
is on the branch, or has a receipt, is not true of a row that was inserted as PROMOTED.
`record_proposal` accepts such a row (`kernel_db.py:333`; the repository's own test 9 seals
PROMOTION_PENDING), so `promotion_stacked` checks what is left without that premise, as
properties of the moves made afterwards.

Symmetry: promoters are interchangeable in `promotion_race`, and neither its invariants nor
the abstract specification mention them.  No fairness is assumed and nothing is claimed to
happen at last: nothing in the repository runs the reconciliation outside its tests.

### 3.4 Proofs

`PromotionProofs` proves, for every set of tasks, commits, promoters and verifiers
and every commit graph that is reflexive and transitive (`GitAssumption`):

| Theorem | Statement |
|---|---|
| `Soundness` | `Spec => []Sound` |
| `TypeCorrect` | `Spec => []TypeOK` |
| `BranchOnlyGrows` | `Spec => TargetOnlyGrows` |
| `LogCorrect` | `Spec => []LogIsTruthful` |
| `SafetyCorrect` | if no caller seals a privileged state, `[]` of `PromotedIsOnTarget` and `PromotionIsCertified` |
| `PromotionCertified` | the last one on its own |
| `PrivilegesEarned` | `Spec => PrivilegeIsEarned`, whatever callers seal |
| `BranchIsVerified` | `Spec => LandsOnlyVerified` |
| `MergeBringsNoStowaways` | `Spec => NoStowaways` |
| `RefinesCustody` | if each task has one manifest, sealed as CANDIDATE_SEALED, `Spec => ImplementsCustody` |

The argument.  None of the invariants is inductive: that a proposal called PROMOTED
is on the branch depends on what the promote call about to say so did three
statements ago.  `Sound` states that for every program point: past its merge a call's
commit is on the branch, past its base check the sealed base is, past its first log
row the row is there, and its receipt and proposal exist; a verifier that claims
has passed; the reconciler's positive answer is still true when it acts on it.  It
is inductive because of `NextGrows`: no step retracts a receipt, a log row, a test
result, a seal or a commit of the branch, so no process can take away what another
has established.  The type of a promote call's task needs it too, so
`TypeOK` is a conjunct of `Sound`.  `NextStates` then lists who moves a row and at
which program point, and each safety invariant follows from `Sound` by looking at
the movers.  The hypothesis of `SafetyCorrect` is needed: `record_proposal`
stores the state a manifest brings (`kernel_db.py:333`), so a caller that seals PROMOTED
is believed, although `transition.py:10` says that privileged states cannot be
asserted by callers.  `PrivilegesEarned` needs no hypothesis: it speaks of the moves, and
every mover knows from `Sound` what it is about to assert.

### 3.5 Read off the model, without a run of their own

- A second concurrent promotion is not rejected; it merges (`promoter.py:172`), because
  `execute_transition` swallows a failed compare-and-swap and returns a transition
  receipt all the same (`transition.py:268`).  For the same reason `promote` may answer
  True for a proposal that is not POST_PROMOTION_VERIFIED (`promoter.py:201`).
- A receipt for another candidate of the task promotes the proposal (`promoter.py:108`).
- A manifest may bring VERIFIED or PROMOTED with it and is stored so (`kernel_db.py:333`),
  although `transition.py:10` says that callers cannot assert a privileged state.
- A crash after the move to PROMOTED is never reconciled (`promoter.py:185`): the
  reconciliation reads rows in PROMOTION_PENDING only (`kernel_db.py:541`), although
  `test_zero_trust_hardened_kernel.py:14` says that every boundary is reconciled.

What survives, for proposals that were not born privileged: even with swallowed failures, what is called promoted is on the
branch and certified, because `promote` does the work before it makes the claim.

## 4. KernelRun

### 4.1 Modules

| Module | What it holds |
|---|---|
| `KernelRun` | any number of `ts run` processes over one target repository; contracts, obligations, entailment of evidence and the Law 6 rule |
| `MCKernelRun` | the small instances: repositories, contracts, evidence |
| `KernelRunProofs` | the theorems |

### 4.2 Correspondence

| Variable | Code |
|---|---|
| `tip`, `current` | branches of the target repository and the one checked out |
| `devs` | number of commits made by developers, a bound and a name for them |
| `sandbox[r]` | commit of the worktree and branch of `GovernedWorkspace` |
| `journal`, `filed[r]`, `ledger` | `runs_journal.jsonl`, the receipt file, `receipts_journal.jsonl` |
| `pc[r]` | the typestate of `KernelRun<S>` together with the line of `main` |
| `run[r]` | what `KernelRun::new` was given |
| `attempt`, `workers`, `cand` | `current_attempt`, the modalities in `worker_invocations`, `candidate_classification` with `final_head` |
| `verif[r]` | `verification`, and (history) the commit the tests ran on |
| `landed[r]` | `promotion_succeeded`, as the branch that was moved |

| Actions | Code |
|---|---|
| `Create`, `RecordRunCreated` | `KernelRun::new`, `KernelDb::record_run_created` |
| `PrepareGoverned`, `PrepareAudit` | `prepare_governed_workspace`, `prepare_audit_workspace`, each with `authorize_worker` |
| `WorkerCommits`, `WorkerReturns`, `Audit` | the worker process; `dispatch_and_produce_candidate`, `record_governed_candidate`, `record_external_candidate` |
| `Verify`, `RetryRepair` | `SubprocessVerifier::execute` with `record_verification`; `retry_repair` |
| `CheckHead`, `Decline`, `Merge`, `MergeFails`, `Seal` | `promote_and_seal`: its test of HEAD, the git merge, the receipt, `destroy` |
| `FileReceipt`, `RecordReceipt` | the end of `main` and `record_receipt` |
| `Abort`, `Crash` | a `?` of `main`; the process is killed |
| `DevCommit`, `Checkout` | external: developers in the target repository |

`ExecutionValid`, `ProductionValid` and `Accomplished` are the three functions of
`predicate.rs`; `Judge` and `IsSufficient` are the loop of `promote_and_seal` and
`evaluate_sufficiency`.

Abstractions:

- A commit is the set of changes in its history, so that one commit is an ancestor of
  another when it is a subset.  A change is made once and by somebody - run and
  attempt, or developer and number - so a set names one commit.  The empty set is a
  HEAD that `resolve_git_head` did not resolve: a repository without a commit or, when
  `Faults`, any failed `git rev-parse` (`ResolvedHeads`).
- What a worker reports as `workspace_after_sha` is the HEAD of its workspace or, when
  `Faults`, what the adapters fall back to: the HEAD before this attempt's commit, and
  in its place the baseline (`ReportedHeads`).
- `git merge --ff-only` is a fast forward or "already up to date", and may fail at any
  time when `Faults`.  The check of HEAD and the merge are two steps, and so are
  the merge and the seal.
- Run identifiers are unique.  (`state_machine.rs:78` makes them from the task and
  milliseconds modulo ten million; that is listed as a hazard, not modelled.)
- The list of worker invocations is the set of its modalities.  No adapter's provider
  receipt parses (section 4.5), so an empirical invocation never has one.
- The head recorded for an external candidate is left out (`External`); nothing
  reads it.
- Evidence says who made it: an oracle, a `BUILDER_TEST`, or the builder under its own
  identifier.  `main` names an oracle; an embedding program may name any.  Rejection
  reasons, texts, times and the signature are left out.
- `Custom` sufficiency rules are evaluated like `AllMandatory` by the code, and
  so here.
- Of the public functions that `main` does not call, contracts and `retry_repair` are
  modelled: an embedding program, like the crate's own tests, attaches and calls
  them.  The command line is the instance with no contract and one attempt, so
  `VERIFIED_SUCCESS` cannot be reached from it.

### 4.3 Runs

| Run | Instance | Shows |
|---|---|---|
| `kernel_race` | two command-line runs, one developer commit, two branches, every failure and crash, a HEAD that may not resolve | the safety invariants, `BranchesOnlyGrow` and `GovernedUntilMerged` whatever interleaves |
| `kernel_candidate` | one embedded run with two attempts | violates `CandidateIsTested` (section 10) |
| `kernel_objective` | one embedded run: nine contracts or none, eighteen pieces of evidence, both modalities, two attempts, failures | `PredicatesAgree`, `CompletionIsEarned`; `PromotedWasTested`: what is merged is what was tested last, whatever commit the worker reported; `Sound` for repairs |
| `kernel_live` | two runs, a developer, two branches, no failure, under `FairSpec` | `SomeonePromotes`: runs that nobody disturbs do not all lose; `VerifiedConcludes` |

Why the bounds are enough: a lost race needs two runs, and the developer is a third
writer of the branch; the second branch is what lets HEAD move without a commit.  One
developer commit suffices to make a check of HEAD fail before or after it was made.
Contracts and evidence matter within a run only, so `kernel_objective` has one
run; its contracts have one or two obligations of the same or of different effects,
mandatory or not, contested or not, both rules, and none at all.  Two attempts
are what a stale verification or candidate needs, on one branch, since a second branch
only moves HEAD.  All passing runs exhaust the state space.  An invocation
is over for good when it ends, so `CHECK_DEADLOCK FALSE`: at last there is
nothing left to do.  Runs are interchangeable, hence the symmetry of `kernel_race`;
`kernel_live` uses none.

Fairness (`FairSpec`): a kernel process that has its verification goes on
(`WF(Concludes(r))`), since from there on it waits for nobody but git and the disk.
Nothing is assumed of workers and of the test run: the kernel waits for both without
a timeout.  `VerifiedConcludes` has failures switched off, because a process that
crashed does not conclude; what it then says is that no combination of verdict,
candidate kind, HEAD and merge result is without an answer.

### 4.4 Proofs

`KernelRunProofs` proves, for every number of runs, branches, contracts, attempts
and developers' commits, under `KernelAssumption` (which types the constants):

| Theorem | Statement |
|---|---|
| `TypeCorrect` | `Spec => []TypeOK` |
| `BranchesGrow` | `Spec => BranchesOnlyGrow` |
| `Soundness` | `Spec => []Sound` |
| `JournalComesFirst` | `Spec => []EffectsAreJournaled` |
| `PromotedIsTested` | `Spec => []PromotedWasTested` |
| `EvaluationsAgree` | `Spec => []PredicatesAgree` |
| `CompletionEarned` | `Spec => []CompletionIsEarned` |
| `SerialPromotions` | `Spec => []PromotionsAreSerial` |
| `MutationsGoverned` | `Spec => GovernedUntilMerged` |
| `SomeonePromoted` | if the repository has a commit, `Spec => []SomeonePromotes` |

The argument.  `Sound` has one conjunct per piece of state a process relies on across
its steps: the journal knows it, its worktree is there and holds nothing but the
baseline and its own changes, its governed candidate is a commit of that worktree
above the baseline and the worktree as it is was tested, what was tested stays on the
branch it was merged to and no other change of the run is on any, a receipt
is the one its run would write now, and - `PrivacySound` - until it is promoted
nobody else has a change of its.  The candidate need not be the tested commit: when an
adapter of a repair attempt cannot read HEAD after its commit, the receipt names the
commit of the attempt before (`kernel_candidate`), so `PromotedWasTested` says what
holds nevertheless, of the merged commit.  One lemma per conjunct shows that every step keeps
it; `OthersKeep`, `BranchWriters` and `TipsGrow` say once for all of them who may
change what.

`SerialPromotions` does not follow from the test of HEAD, which is stale when the merge
runs.  It follows from the merge itself (`MergeIsForward`): the worktree holds a change
that, by `PrivacySound`, is on no branch, so "already up to date" is impossible
and only a fast forward is left; then it contains everything on the branch,
what the other run merged included, and since by `WorkspaceSound` all that is not
its own comes from its baseline, it started from there.  The mutant that merges
without `--ff-only` breaks it.

`CompletionEarned` rests on the lemma `SufficientEvidence` about Law 6: a contract judged
by one piece of evidence is sufficient only if that evidence is about every mandatory
obligation.  A contract with two mandatory obligations of different effects can
therefore never be completed.

`EvaluationsAgree` names the receipts that `predicate.rs` refuses whatever they claim
(`Refused`) and proves that the two evaluations agree on all others.

`MutationsGoverned` speaks of the runs that resolved a baseline, and needs no premise: by
`RunsBring` a change of a run comes to a branch by that run's merge, by its commit
outside a worktree, or from a branch it is on; by `WorkspaceSound` a run with a baseline
commits in its worktree only.  A mutation run without one works in the target itself
(section 4.5).

`SomeonePromoted` rests on `NobodyLost`, which speaks of the time before the first
promotion: as long as nothing failed, no developer wrote and nobody was promoted,
every run that has begun started from what HEAD still is, and none that was judged
had a verified governed candidate.  Its step is `JudgedWhy`: a run with such a
candidate is turned down only because HEAD moved or git refused the merge, and
before a promotion neither can be.  Its hypothesis, that the repository has a commit,
is what `HeadKnown` turns into an invariant of the time without failures.

### 4.5 Read off the model, without a run of their own

- A mutation run whose HEAD does not resolve works in the target itself (`main.rs:130`),
  although `ADR-002`, line 24, has every mutation in a worktree of its own: the premise of
  `GovernedUntilMerged`.
- The merge precedes the receipt, and nothing looks for a missing one (`main.rs:211`).
- A run of the empirical provider is never valid production, because its provider
  receipt does not parse and is dropped (`state_machine.rs:350`).
- The ledger says PROMOTED of every run (`RecordReceipt`, `db.rs:112`).
- A run that ends by an error leaves its worktree and branch (`Abort`, `main.rs:171`).
- A branch switched during a run, at the same commit, receives its promotion (`Merge`,
  `state_machine.rs:619`).

## 5. Governed runs in Python

### 5.1 Modules

| Module | What it holds |
|---|---|
| `Orchestration` | governed runs as processes over one target directory: the functions of `execution_authority.py` (route of an objective, verification record, worker's provenance, status of a receipt, `is_ten_shadows_execution`), `orchestrator.py`, `capability_registry.py`, the seal, the lease and the write gate of the agent |
| `GovernedRuns` | the abstract specification: a run opens, passes or not, and closes; only one that passed and may promote changes the target, in its own name; agents change it in theirs |
| `MCOrchestration`, `OrchestrationProofs` | the instance and the theorems |

### 5.2 Correspondence

| Variable | Code |
|---|---|
| `target`, `ws[t]` | the target directory and the task's workspace, which is never removed |
| `registry` | the row of the one capability that the runs build |
| `lease` | `scratch/active_run_lease.json` |
| `rows[r]`, `ledger[r]`, `filed[r]` | the run's row, its row of the receipts table, its receipt file |
| `pc`, `attempt`, `built`, `snap`, `verif`, `copied`, `outcome` | local variables of `run_objective` |
| `tested` | history: the files the last verification ran on |
| `author[p]` | history: who last wrote or removed a file of the target |

`Establish`, `DetermineRoute`, `PrepareWorkspace`, `WriteLease`, `BuilderExecutes`,
`RecordInvocation`, `RegisterCandidate`, `Verify`, `CheckCandidate`, `Qualify`,
`PromoteFile` (one file), `WriteReceipt`, `InsertReceipt`, `RecordFinal`, `Finish` are
the statements of `run_objective` and `seal_and_persist_receipt` that touch shared
state, in their order; `KernelDelegates` and `KernelVerifies` the shorter entry
of `TenShadowsKernel`.  `Finish` removes the lease, or fails to and reports all the
same (`orchestrator.py:490`).  `AgentWrites` is an agent's tool call that
`antigravity_execution_gate.py` lets through: a write tool in a workspace, in a path
the gate excepts (`FreePaths`) or under a lease that covers the place, and every
command anywhere, which may write a file or remove it.  `Cleanup` and `Crash` are
external.

Abstractions: a file is a version, `correct` or `other`, because the verdict is all that
is asked of it; the signature and text of a receipt are left out; run
identifiers are unique.  One capability stands for the registry: no query reads two
together.

### 5.3 Runs

`orchestration`: two runs of one task, the first a promoting run through the orchestrator,
the second any of eight requests - each provider, each route, promoting or not, or the
kernel's own entry with each kind of verifier - with deaths, test timeouts, a lease that
stays, an agent at the gate and a cleaner; two attempts and one outside write.  Two runs are what the lease, the shared
workspace and the registry need to go wrong; the second attempt is what makes
a verification stale; a second outside write would meet the files in the same
versions.  `FreePaths` is empty, since commands reach every file anyway.  The run ends
when every run has reported, hence `CHECK_DEADLOCK FALSE`.  No fairness is assumed; the
properties are safety.

The lease has no property.  It is one file for all runs, overwritten and removed
without a look at whose it is, and it may stay; but nothing says it must not, and the
gate's answer never depends on it, as workspaces lie under `scratch/`, which is open.

### 5.4 Proofs

`OrchestrationProofs`, for every set of runs, tasks and requests and every bound, under
`OrchestrationAssumption` and `NoneAssumption`: `Soundness`, `TypeCorrect`,
`SealsAgree`, `RecognitionIsTrue`, `QualificationIsEarned`, `RefinesGovernedRuns`.

The argument.  The properties speak of receipts and rows that were written many steps
after the verification they report.  The invariant says for every program point
what the run's verdict is (`VerdictsSound`), which of the three records exist and
agree (`RecordsSound`), that what was copied is in the target unless an agent took it
away (`DeliveriesSound`; no run deletes a file there), and that a run whose candidate
qualified is not judged again (`QualificationSound` - a second attempt would replace
`tested` behind the registry's back).
`RunsKeepApart` says once that a step of one run leaves the others' locals and
records alone.  For the refinement, `stage` is a function of row and program
point; `StageMoves` shows that each step moves at most one run's stage.

### 5.5 Read off the model, without a run of their own

- The gate is asked about commands and denies none (`antigravity_execution_gate.py:145`),
  although its line 6 says that the code base changes by governed runs only; that is why
  `GovernedRuns` has a step for agents.
- The receipts row says PROMOTED for a run with `--no-promote`
  (`execution_authority.py:798`).
- Registering again keeps QUALIFIED for new hashes (`capability_registry.py:133`).
  `QualifiedWasEarned` holds nevertheless, because the files of one task's workspace
  are the ones tested.

## 6. Routes and artifacts

### 6.1 Modules

| Module | What it holds |
|---|---|
| `StepGovernor` | `StepGovernor.run_step` as functions: fresh, may attempt, raised, oscillates, rejected; shared with self-healing |
| `RouteExecution` | `execute_route` and `resolve_escalation`, with the runners' specification, staging, audit and commit, and the registry of `artifacts.py` |
| `MCRouteExecution`, `RouteProofs` | the instances and the theorems |

### 6.2 Correspondence

| Variable | Code |
|---|---|
| `runs`, `artifacts`, `receipts`, `escalations` | tables |
| `files` | payload files of the registry |
| `script`, `dag` | the runners' scratch files: of the objective, so of all its runs; a task without an identifier of its own has private ones (`OwnFile`) |
| `lost` | history: steps that were committed and registered nothing |
| `exec[e]` | locals of one `execute_route` call with its governor |
| `now` | the second an escalation identifier holds |

`Start`, `UseCached`, `Escalate` then `Park`, `Attempt`, `CommitSource`,
`CommitBlueprint` then `CommitMarkdown`, `CommitPlan`, `RecordReceipt`, `WriteArtifact`
then `Stage`, `Verify`, `Promote`, `Complete` and `ResolveEscalation` are the
statements with an effect, each on its own; `Die`, `ClearScratch` and `Tick` are external.
Payload file and row are two steps, and so are the two script files.  `SkipArtifact` is the
router's silent branch: the step is counted completed (`router.py:434`), its files are gone
when the router looks for them, nothing is registered (`:514`) and the next step gets the
input and the source hash that this one got; the slicer then plans the objective instead
of a script.

Abstractions: `plan_route` chooses a plan from words; the plan is a constant, one of
two the code makes.  A candidate is a value its audit accepts or not.  Run
identifiers are unique; escalation identifiers are not.

### 6.3 Runs

`routes`: two executors, two parent runs of one objective with the full plan, an
escalation and two starts; executors are interchangeable (symmetry).  Two executors may
execute one parent run twice or two runs that share files: both happen.  Two starts
are a run and its resume; two strikes a retry and an exhaustion; two seconds make
identifiers differ or collide.  scratch/ may be emptied between any two steps.
`CompletedIsEarned` says what a COMPLETED row is worth: its steps are joined hash by hash,
and the only one that may lack an artifact is a committed one whose files had vanished; no
other way of skipping exists, whatever dies and resumes.  `stale_payload` is the counterexample of
section 10.  No fairness is assumed.

### 6.4 Proofs

`RouteProofs`, for every number of executors and parent runs, every set of candidates,
every bound and both plans, under `RouteAssumption` and `GovernorAssumption`:
`Soundness`, `TypeCorrect`, `ReuseIsEarned`, `CompletionIsEarned`,
`WaitingIsEscalated`.

The argument.  Nobody keeps two executors apart, so an executor's knowledge must survive
the other's steps.  `Grows` collects what no step takes back: receipts, the keys of
payload files, the content and usability of registered artifacts, lost steps, escalations;
the scratch files are not among it.  `CallsSound` states per program point what a call has established, in
those terms only.  A call that stands at step `i` has a chain of `i - 1`
hashes behind it (`Chained`); `Promote` and `UseCached` extend it by that of a usable
artifact made under the last, `SkipArtifact` by the last itself, with the receipt that the
step has, and `Complete` hands it to the run.

### 6.5 Read off the model, without a run of their own

- An approved step meets the approval gate again when the run resumes
  (`router.py:364`), and `resume=True` asks for no approval.
- A COMPLETED run may hold artifacts that were never PROMOTED: the look-up accepts
  VERIFIED (`artifacts.py:383`).
- The oscillation check compares with the last candidate only (`governor.py:233`), though
  its message and `governor.py:35` speak of a prior failed attempt.
- Two escalations of one step in one second have one identifier (`router.py:548`).
- The receipt names the candidate's hash and the markdown's file.

## 7. Writers of the source file

### 7.1 Modules

| Module | What it holds |
|---|---|
| `VerifierDaemon` | the source file; `process_intent`, the receipts, the archive and the loop of `verifier_daemon.py` |
| `SourceWriters` | the Alchemist under the step governor, in a git worktree; and both writers at once |
| `MCSourceWriters`, `SourceWritersProofs` | the instances and the theorems |

### 7.2 Correspondence

| Variable | Code |
|---|---|
| `source`, `handles` | the target file: its lines and whether the last one ends; who has it open for writing |
| `intent`, `candidate`, `channel`, `ledger`, `strikes` | files and rows of the daemon |
| `daemon`, `heal[h]` | local state |
| `sandboxes` | worktrees and their branches; a name is a safe task identifier and a time stamp |
| `passed`, `failures`, `late`, `abandoned`, `cut`, `overlapped` | history |

One action per effect of `process_intent`: `ReadIntent`, `CommandPasses`,
`CommandFails`, `RecordStrike`, `MoveCandidate`, `ReplaceTarget`,
`WriteChannel`, `WriteLedger`, `ArchiveIntent`, which may leave the intent where it is.  A
healing run stages a patch, creates its worktree or fails to, passes or fails its gates
there, removes it or fails to, and writes the whole patched text: `OpenSource` empties
the file, `WriteRepair` writes.  `Submit`, `FinishSubmit`, `WriteCandidate`,
`DaemonStarts` are external.  Clients write candidates at any time, also while the
daemon works on one; they write an intent when the channel is free.

Abstractions: a text is a sequence of line kinds, so that a patch of one line and the
newline that `splitlines` loses are visible.  A write is one step after the opening, and
what it leaves of a longer text is `Garbled`.  Files are those of a POSIX system: a
handle stays on the file that `os.replace` took away.

### 7.3 Runs

`source_writers`: one task, a ceiling of two strikes, two healing runs with one time stamp,
so that their worktrees' names collide, and one death.  The task reaches the ceiling, and
an intent is processed again because it could not be archived.  Two healers are what names
and overlapping writes need; one death can be put between any two effects.

`CHECK_DEADLOCK FALSE`: nothing is left to do when the daemon is dead and the bounds
are used up.  Healers are interchangeable.  No fairness is assumed and no answer is
promised: nothing in the repository starts a dead daemon, and its archive may fail.

### 7.4 Proofs

`SourceWritersProofs`, for every set of tasks, candidates, healers, traces, names and
stamps: `Soundness`, `StrikesAreBounded`, `OnlyVerifiedLands`, `SandboxesAreOwned`.  The
invariant counts failures not yet struck (`FailuresCounted`: at most the one in hand and
one for each death), holds that what either writer is about to write has passed or was
put in the place of what had (`WritersSound`), and gives each worktree to one run or to
the abandoned (`SandboxesSound`).  Nothing is assumed of clients, of git or of the
atomicity of a write.

### 7.5 Read off the model, without a run of their own

- A timeout is recorded as a strike like any failure (`verifier_daemon.py:138`), although
  `schema.py:60` says that failures of the environment are none; and strikes are counted
  over a task's whole history (`:80`), although line 7 speaks of three in a row.
  `StrikeCeilingHolds` is about the count the code keeps.
- The receipts are called immutable (`verifier_daemon.py:9`) and are overwritten per task.
- A candidate written between the command's exit and the move is promoted unjudged
  (`verifier_daemon.py:152`): the set `late` of `LandedWasVerified`.
- A death between moving the candidate and replacing the target (`verifier_daemon.py:155`)
  loses the candidate; the intent is then answered VERIFIED without a promotion.
- An intent that cannot be parsed stays for ever, and an exception ends the loop.
- A repair overwrites a promotion that came between its reading and its writing
  (`alchemist_runner.py:206`); `LandedWasVerified` holds, the promotion is lost.  When the
  promotion comes between the opening and the writing, the repair is lost and has a
  receipt.
- A death between opening and writing leaves the file empty (`cut`).
- For a file that ends in a newline the check for identical candidates never fires
  (`alchemist_runner.py:128`).

## 8. Relational memory and constitution

### 8.1 Modules

| Module | What it holds |
|---|---|
| `RelationalGraph` | nodes, edges and the store's transactions; scheduling and structural transfer, pure functions of the graph |
| `TruthMaintenance` | retraction cascades and downgrades, read by read and write by write |
| `CapabilityPlanning` | plans over the graph and the gaps they leave |
| `Constitution` | pure functions of the constitution: qualification and revision of intents, evidence, conditional capabilities |
| `SufficiencyEvaluation` | Law 6 of `constitution/sufficiency.py` over the live graph |
| `RelationalMemory` | the projection of receipts, and all of these processes on one graph |
| `MCRelationalMemory`, `RelationalMemoryProofs` | the instance and the theorems |

### 8.2 Correspondence

| Variable | Code |
|---|---|
| `nodes`, `edges` | the tables of `graph_db.py` |
| `tms[r]` | locals of `retract_and_cascade` or `downgrade_evidence` |
| `projection[p]`, `planner[p]`, `evaluator[v]` | locals of `project_receipt`, `plan_traversal` with `resolve_gap_and_replan`, `evaluate_specification` |
| `gaps` | the number in a gap's identifier |
| `retracted` | history: the nodes a retraction was the last to write |
| `excused` | history: pairs of a node and what it rests on that a cascade need not have joined, because a retraction died, one of the two was written later, or the link is newer |
| `raised[v]` | history: what others made usable since evaluation `v` began |

Every read and every write of the store is a transaction, and a step.  The read and the
write of one node inside a retraction are one step; the rank check and the write
of a downgrade are two.  Whatever the code lets a process write is written: a receipt is
projected over a retracted node, and a downgrade may lower a node to a status that
is still usable.

`EvaluateClaim` drops an observation whose digest was seen before, and the digest leaves
`is_falsified` out (`evidence.py:116`, `:203`), as the model does.

The run also evaluates, as assumptions of `MCRelationalMemory`, the pure functions on
every input of a small size: the topological order orders exactly the acyclic
graphs (`OrderIsTopological`), the frontier is not empty while work is left
(`FrontierAdvances`), a prerequisite outside the list is reported as a cycle
(`OutsideIsACycle`), evidence that contradicts is not outweighed, unless it differs from an
earlier observation in its falsification only and is dropped as its duplicate
(`EvidenceIsWeighed`), a qualified specification drops no clause (`NoClauseIsDropped`), two
revisions from one base get one version number (`RevisionsCollide`), likeness is structural
(`LikenessIsStructural`), required operations are bound or reported missing
(`OperationsAreBoundOrMissing`).

### 8.3 Runs

`relational_memory` checks `CascadeIsComplete` and `SatisfiedHadSupport` with three calls, one
death and two gaps.  It has two interchangeable retractors, one projector, planner and evaluator, on a
graph with two chains of justifications that meet.  Three calls let two cascades run while
a third process reads or writes; the chains have length two, so that a cascade goes on
after its first neighbour.  One receipt is projected over a piece of evidence and one over a
requirement; evidence is downgraded out of use, contested, and lowered to a
status that stays usable.  No fairness is assumed; `CHECK_DEADLOCK FALSE` because calls
run out.

### 8.4 Proofs

For every graph of the stores' shape (`GraphAssumption`), every number of processes and every
bound, without a premise on what is written where:

| Theorem | Statement |
|---|---|
| `Soundness` | `Spec => []IInv`, the inductive invariant |
| `CascadesAreComplete` | `Spec => []CascadeIsComplete` |
| `SatisfactionHadSupport` | `Spec => []SatisfiedHadSupport` |

`CascadesAreComplete`.  A cascade walks the graph while others extend and renew it, so what
is derived from a retracted node may stand for a while, or for good.  The property says for
which reasons; the invariant makes them inductive.  Each justification of a node that a
retraction wrote last is retracted too, `excused`, or `Owed`: a running retraction has its source in
its queue, or has still to read the edges of its target (`JustificationsFollowed`).  What a
retraction wrote last is invalidated (`RetractedSound`).  A step of one retraction takes
nothing from what the others owe (`OthersOwe`); one that visits a node owes all its
justifications from then on, except to what it visited before and somebody renewed behind it;
one that dies excuses what it owed; every other write of a node excuses the node
(`RenewedKeeps`), and a new link is newer than the retraction (`UpsertEdgeKeeps`).

`SatisfactionHadSupport`.  The property relates readings at different times to one moment.
What is usable now was usable when the evaluation began, or is in `raised`
(`EvaluationSound`); so is what an evaluation read, and so is what its proof rests on
(`ProofSound`).  A step of anybody else only adds to `raised` (`WatchingKeeps`).

### 8.5 Read off the model, without a run of their own

- A downgrade compares ranks in one transaction and writes in another
  (`truth_maintenance.py:124`), so a retraction between the two is undone, although line 6
  says that nothing is silently upgraded; `CascadeIsComplete` has it in `excused`.
- An evaluation looks at nothing twice (`sufficiency.py:126`): an objective may be satisfied on
  evidence retracted since, although line 7 speaks of the live graph.
- A downgrade to CONTESTED ends as INVALIDATED.
- Projecting a receipt makes an invalidated node AUTHORITATIVE, QUALIFIED, OBSERVED or VERIFIED again.
- A plan's REQUIRES edges stay QUALIFIED after the capability was retracted.  One
  falsified support invalidates a node that has others.
- Gap nodes accumulate with every replan, and BLOCKS edges are never resolved.
- Two revisions of one base collide (`lifecycle.py:357`), and an authorization can be used
  again; contradictory evidence retracted during an evaluation can make its objective
  satisfied.
- A falsified observation offered after the same one unfalsified is dropped as a duplicate.
- Only DEPENDS_ON edges block a node (`dependency_scheduler.py:67`), and the dependents of
  an invalidated node are blocked for ever.

## 9. Forge

### 9.1 Modules

| Module | What it holds |
|---|---|
| `ForgeActions` | the action pipeline: routing, authorization, consumption, execution, outcome; the one adapter that writes a file |
| `ForgeResolution` | contracts, bindings, who grounds them, obligations; the registry's built-ins, matching, selection, induced operations, the gates |
| `Forge` | `ForgeEngine.run`: derivation, resolution, compilation, execution, gates, provisioning; and both entries on one sandbox |
| `MCForge`, `ForgeProofs` | the instance and the theorems |

### 9.2 Correspondence

| Variable | Code |
|---|---|
| `actor[a]` | locals of one pipeline call, or of a caller that keeps a decision |
| `runs`, `transactions`, `authorizations` | tables of `core/store.py` |
| `performed` | history: who performed a key's operation |
| `graph`, `registry`, `proofs` | locals of `run`, the capability registry, table semantic_proofs |
| `sandbox` | files of the sandbox |

The look-up of an idempotency key (`EvaluateProposal`) and its insertion
(`IssueAuthorization`) are two steps, and so are consumption, execution and outcome;
`PresentAgain` is a caller that presents one decision again; `ActorDies` is external.
Values are left out: a key of an execution graph's store is present or not.  Where a result
comes from is not: after any exception `execute_graph` calls the adapter a second time, with the
whole store as its one argument, and takes what it returns (`compiler.py:216`).  `FirstCall` and
`SecondCall` say what either may return, and an entry of the trace has it in `from`: the operation's
inputs, the calculator's default of 0 (`registry.py:420`), or the whole store.

Assumptions that TLC evaluates in `MCForge`: `GatesAgree` (the later gates refuse nothing
the resolver accepted, over all requests and registries of the instance),
`ProposalsNeedAuthority` (a model's proposal becomes an obligation only with an approval
or a domain authority), `NothingIsDropped` (adequate for execution: every
clause was traced, every ambiguous one gated).

`Operations` and `Resolves` say the resolver's loop without its accumulator: each obligation
is resolved with what the caller's inputs and the operations before it produce.
Resolution falls back to a capability whose operator has the effect's name
(`resolution.py:96-110`); of the selection's ranks and weights only what can decide between
two capabilities of the model is kept.

### 9.3 Runs

`forge` checks `PerformedAtMostOnce` and `SuccessIsEarned`.

It has two interchangeable actors and graphs on one sandbox, two keys, four proposals, fourteen
requests, three calls, one death.  Two actors with one key race for the insertion;
the third call presents again or follows a provisioning.  The requests have no, one or
two clauses with contracts that match, induce another operation, name an operator instead of an
effect, or are in deficit; one repeats a clause's identifier with another text, which
an older proof must not fit; two clauses need provisioned capabilities one of which works on what the other
promises, so that an input may be missing when its operation runs.  No fairness is assumed;
`CHECK_DEADLOCK FALSE` because calls run out.

### 9.4 Proofs

`ForgeProofs`, for every set of actors, keys, proposals, requests and provisionable
capabilities, under `ForgeAssumption` (requirements are a sequence; what the provisioner may
be given has the manifest it builds, `provisioner.py:158`):

| Theorem | Statement |
|---|---|
| `Soundness` | the inductive invariant of the action pipeline |
| `PerformedOnce` | `Spec => []PerformedAtMostOnce` |
| `GraphSoundness` | `Spec => []GraphSound`, the inductive invariant of the graphs |
| `SuccessEarned` | `Spec => []SuccessIsEarned` |

`PerformedOnce`.  The invariant ties each actor's program point to the row of its key:
whoever holds a decision that can still be consumed holds the row, and a key is
consumed before its operation is performed, so a row that left AUTHORIZED was
performed at most once, by the actor that consumed it.

`SuccessEarned`.  `GraphSound` follows a clause through the stages of `run`.  The registry
holds sealed capabilities only and grows (`RegistrySealed`); the store is the caller's until
execution (`StoreFresh`); each obligation carries a clause with its text, its contract and the proof
recorded for the three (`ObligationsProved`, `EachDerived`); each operation is its
obligation's, on a capability whose outputs cover the contract (`OperationsProved`), which needs
that the capability selected is one of the candidates (`BestIsOneOf`) and that a
candidate fits, by its effect or by its operator's name (`CandidateOf`, `SelectedFits`); the
operation at a clause's place is the clause's (`ForClause`); what goes to execution was compiled
(`GraphCompiled`); the trace has one entry per operation, and the store keeps what the entries
wrote (`TraceKept`).  What closes it is the gate on the final state (`GatesPassed`).
Capabilities whose adapter is built in return all their keys or none, provisioned ones return
what they like; so the only inputs an operation may have run without are keys
that a provisioned one before it promised (`Promised`).  The second call is why the theorem
does not say that every result was computed from its inputs: the calculator and provisioned
adapters are excepted (`MayGuess`, section 9.5).

### 9.5 Read off the model, without a run of their own

- An adapter that raised is called again with the whole store (`compiler.py:216`), and the
  calculator then answers 0 (`registry.py:420-432`): the run ends in SUCCESS on it, although
  `forge.py:23` excludes synthetic defaults.
- A contract that names an operator for its effect is bound by that name
  (`resolution.py:96-110`), although `registry.py:70` and `closure.py:6` say that operators
  are no fallback.
- The pipeline draws a new idempotency key per run, so a retry after a crash writes
  again; a death after consumption loses the operation, its transaction stays OPEN.
- A second insertion of a key raises out of the pipeline; the run stays ROUTED.
- `evaluate` reads the file as it is now: the run of a COMMITTED transaction may end
  FAILED.
- `forge_sandbox_file_adapter` writes with a token no authorization row holds, though
  `adapters/actions.py:48` says that a verified token is required.
- The adapter of `forge_authorization_gate` calls a method that does not exist
  (`registry.py:393`).
- `run` passes no model proposals on, so approvals and domain authorities make no
  difference to it; a contract with evidence requirements ends in EVIDENCE_DEFICIT.
- An operation may run without an input that a provisioned capability promised and did not
  return: `execute_graph` passes what the store has (`compiler.py:202`).
- An empty intent ends in SUCCESS.  A capability without an effect type matches every
  effect.  A key the caller supplies can stand for an operation's output.

## 10. Findings

Each is a run that TLC ends with the counterexample; the quotations are in `PROJECT.json`.

| Run, property | What the code does | What says otherwise |
|---|---|---|
| `kernel_candidate`, `CandidateIsTested` | the branch is merged by name, the receipt has the SHA the worker reported, which falls back to the one before its commit (`state_machine.rs:621`, `deterministic_provider.py:104`): a repair's receipt names the commit of the attempt before | `workflow_2_post_build_claim_verification.md:33` |
| `stale_payload`, `FileMatchesRecord` | `stage_artifact` writes the payload before it looks its key up (`artifacts.py:240`): a second staging replaces the payload of the first's record, and loading compares the digest with nothing | `artifacts.py:404`, `:412` |

Other disagreements, met while modelling, are in the parts "Read off the model" of sections 3
to 9; the properties of those sections are stated as what holds in spite of them.

What still holds in spite of the two: for the payloads `UsableWasEarned` (whatever replaced one
was audited too), for the kernel `PromotedWasTested` (what was merged was tested).

## 11. Only model-checked, and not modelled

Only model-checked:

- Liveness: `VerifiedConcludes`.  The prover
  has no fairness reasoning.
- The pure functions of sections 8 and 9, on inputs of a small size.

Not modelled:

| Part | Why |
|---|---|
| `quarantine.py` | called by tests only |
| `GovernorEngine`, `RetryGovernor`, `TokenBucket` (`governor.py`) | called by tests only |
| `commit_and_merge` (`harness/git_worktree.py`) | called by tests only |
| `dispatcher/`, providers of the kernel | I/O with providers; `KernelRun` has a worker that commits or fails |
| code, forge, media and SVRIS runners | one request, one result, no state of their own |
| `herald/`, `media/`, `scribe/`, `slicer/` engines | pure text and media generation |
| `model/` | calls of external models and their measurement |
| `ast_guard.py`, `preflight.py`, `sterile_env.py` | one call each; the pipeline has them as gates that may refuse |
| `svris/` | a separate store, used by one process at a time |
| `zero_trust_engine/auditor.py` | reads and reports |
| front ends, projectors, `scripts/` | command lines and read-only views |
| `graph.rs` | a node type no step of a run uses |

What a component marked `partly` leaves out is noted with it in `PROJECT.json`.
