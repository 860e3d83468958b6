----------------------------- MODULE KernelRun -----------------------------
(***************************************************************************)
(* The Rust kernel `ts`: the typestate run of state_machine.rs as main.rs  *)
(* drives it, over one target repository.  Several runs are separate       *)
(* processes; developers commit and switch branches in the repository      *)
(* meanwhile, and a run may die between any two of its steps.              *)
(*                                                                         *)
(* A commit is the set of changes in its history.  Every change is made    *)
(* once, on one parent, so a set of changes names one commit, and commit c *)
(* is an ancestor of d exactly when c \subseteq d.  The empty set stands   *)
(* for no commit: a branch without one, or a HEAD that git rev-parse did   *)
(* not resolve.                                                            *)
(***************************************************************************)
EXTENDS Naturals

CONSTANTS
  Runs, Dev,      \* invocations of the kernel; the developers
  Branches,       \* branches of the target repository
  StartHead,      \* the commit checked out at first, {} in a new repository
  Contracts,      \* objective contracts of runs; NoContract for the command line
  NoContract,
  Modality,       \* evidence modalities of the providers asked for
  Evidence,       \* evidence a verification may carry
  Verdicts,       \* outcomes the test runs of this instance may have
  MaxAttempts,    \* bound: attempts of one run (the command line makes one)
  MaxDevCommits,  \* bound: commits of the developers
  Faults          \* TRUE: processes crash; git, files and workers may fail

Changes == (Runs \cup {Dev}) \X Nat

-----------------------------------------------------------------------------
(***************************************************************************)
(* Objective contracts, the evidence that satisfies or falsifies their     *)
(* obligations, and the Law 6 sufficiency rule.  A contract is a record    *)
(*   obligations : obligation id -> [effect, mandatory, status]            *)
(*   rule        : "ALL_MANDATORY" (Custom is evaluated alike) or "ANY_OF" *)
(*   anyOf       : the ids ANY_OF names                                    *)
(* and the evidence of a verification is a record                          *)
(*   effect : the tested effect, "" when the record has none               *)
(*   spec   : whether a verifier specification digest is present           *)
(*   by     : who made the verification                                    *)
(***************************************************************************)

ObligationStatus ==
  {"UNRESOLVED", "SATISFIED", "FALSIFIED", "INAPPLICABLE", "CONTESTED"}

IsContract(c) ==
  /\ \A i \in DOMAIN c.obligations :
       /\ c.obligations[i].mandatory \in BOOLEAN
       /\ c.obligations[i].status \in ObligationStatus
  /\ c.rule \in {"ALL_MANDATORY", "ANY_OF"}

Mandatory(c) == {i \in DOMAIN c.obligations : c.obligations[i].mandatory}

\* The obligations of c whose status is among S.
WithStatus(c, S) == {i \in DOMAIN c.obligations : c.obligations[i].status \in S}

\* Mutant: a test of any effect entails the obligation.
EntailsAny(evidence, obligation) == evidence.spec

\* verify_entailment: the tested effect is the required one, and a digest exists.
Entails(evidence, obligation) ==
  evidence.spec /\ evidence.effect = obligation.effect

\* The loop of promote_and_seal: every obligation is judged by the one piece of
\* evidence, and falsified when that evidence is about something else.
Judge(c, evidence) ==
  [obligations |->
     [i \in DOMAIN c.obligations |->
        [effect    |-> c.obligations[i].effect,
         mandatory |-> c.obligations[i].mandatory,
         status    |-> IF Entails(evidence, c.obligations[i])
                       THEN "SATISFIED" ELSE "FALSIFIED"]],
   rule  |-> c.rule,
   anyOf |-> c.anyOf]

\* evaluate_sufficiency: a contract without obligations has nothing satisfied.
IsSufficient(c) ==
  /\ Mandatory(c) \cap WithStatus(c, {"FALSIFIED"}) = {}
  /\ Mandatory(c) \cap WithStatus(c, {"UNRESOLVED", "CONTESTED"}) = {}
  /\ WithStatus(c, {"SATISFIED"}) \cap
       (IF c.rule = "ANY_OF" THEN c.anyOf ELSE DOMAIN c.obligations) # {}

\* Who made the verification: an oracle other than the builder, a test of the
\* builder's (BUILDER_TEST), or the builder under its own identifier.
Verifiers == {"ORACLE", "BUILDER_TEST", "BUILDER"}

ASSUME KernelAssumption ==
  /\ Dev \notin Runs
  /\ StartHead \subseteq {Dev} \X Nat
  /\ \A c \in Contracts \ {NoContract} : IsContract(c)
  /\ Modality \subseteq {"EMPIRICAL", "STRUCTURAL"}
  /\ \A e \in Evidence : e.by \in Verifiers
  /\ Verdicts \subseteq {"PASS", "EMPTY_PASS", "FAIL"}
  /\ MaxAttempts \in Nat \ {0} /\ MaxDevCommits \in Nat
  /\ Faults \in BOOLEAN
  /\ Branches # {}

-----------------------------------------------------------------------------
VARIABLES
  tip,       \* tip[b]: commit of branch b, {} while the branch has none
  current,   \* the branch checked out in the target
  devs,      \* number of developers' commits
  sandbox,   \* sandbox[r]: commit of run r's worktree and branch, {} if none
  journal,   \* runs in runs_journal.jsonl
  filed,     \* filed[r]: the receipts of run r on disk
  ledger,    \* receipts_journal.jsonl: [run, status, decision]
  pc,        \* pc[r]: the step invocation r does next, or how it ended
  run,       \* run[r]: what the run was created with
  attempt,   \* run[r].current_attempt
  workers,   \* modalities in run[r].worker_invocations
  cand,      \* run[r].candidate_classification and final_head
  verif,     \* run[r].verification, and (history) the commit it tested
  landed     \* promotion_succeeded: the branch that was moved, {} if none

disk == <<journal, filed, ledger>>
repo == <<tip, current, devs>>
vars == <<tip, current, devs, sandbox, journal, filed, ledger, pc, run, attempt,
          workers, cand, verif, landed>>

Ended == {"done", "aborted", "crashed"}
PC == Ended \cup
  {"idle", "created", "journaled", "audit", "working", "committed", "produced",
   "verified", "checked", "judged", "sealed", "filed"}

NoRun  == [mutate |-> FALSE, modality |-> "STRUCTURAL", contract |-> NoContract,
           start |-> {}]
\* Mutant: a run begins with a blank classification.
NoCandBlank == [kind |-> "", sha |-> {}]

NoCand == [kind |-> "NONE", sha |-> {}]
NoEvidence == [effect |-> "", spec |-> FALSE, by |-> "ORACLE"]
NoVerification == [verdict |-> "NONE", evidence |-> NoEvidence, tree |-> {}]

\* HEAD of the target repository.
Head == tip[current]

Init ==
  /\ current \in Branches
  /\ tip = [b \in Branches |-> IF b = current THEN StartHead ELSE {}]
  /\ devs = 0
  /\ sandbox = [r \in Runs |-> {}]
  /\ journal = {} /\ filed = [r \in Runs |-> {}] /\ ledger = {}
  /\ pc = [r \in Runs |-> "idle"]
  /\ run = [r \in Runs |-> NoRun]
  /\ attempt = [r \in Runs |-> 1]
  /\ workers = [r \in Runs |-> {}]
  /\ cand = [r \in Runs |-> NoCand]
  /\ verif = [r \in Runs |-> NoVerification]
  /\ landed = [r \in Runs |-> {}]

\* Invocation r moves from one step to another.
Goto(r, from, to) == pc[r] = from /\ pc' = [pc EXCEPT ![r] = to]

-----------------------------------------------------------------------------
(***************************************************************************)
(* Ingress: main reads HEAD, creates the run, appends it to the journal    *)
(* and prepares a workspace.                                               *)
(***************************************************************************)

\* What resolve_git_head answers: HEAD, or nothing when git could not be run, failed
\* or printed something else.
ResolvedHeads == {Head} \cup (IF Faults THEN {{}} ELSE {})

\* KernelRun::new, with the head main resolved just before.
Create(r) ==
  /\ Goto(r, "idle", "created")
  /\ \E mutate \in BOOLEAN, m \in Modality, c \in Contracts, h \in ResolvedHeads :
       run' = [run EXCEPT ![r] = [mutate |-> mutate, modality |-> m, contract |-> c,
                                  start |-> h]]
  /\ UNCHANGED <<repo, disk, sandbox, attempt, workers, cand, verif, landed>>

\* Mutant: the append is skipped.
RecordRunSkipped(r) ==
  /\ Goto(r, "created", "journaled")
  /\ UNCHANGED <<repo, disk, sandbox, run, attempt, workers, cand, verif, landed>>

\* record_run_created: appended and synced before anything else is touched.
RecordRunCreated(r) ==
  /\ Goto(r, "created", "journaled")
  /\ journal' = journal \cup {r}
  /\ UNCHANGED <<repo, filed, ledger, sandbox, run, attempt, workers, cand, verif,
                 landed>>

\* Mutant: every run mounts the target.
IsGovernableNever(r) == FALSE

\* A mutation run gets a worktree of its own when HEAD could be resolved.
IsGovernable(r) == run[r].mutate /\ run[r].start # {}

\* prepare_governed_workspace, then authorize_worker: `git worktree add -b`.
PrepareGoverned(r) ==
  /\ IsGovernable(r)
  /\ Goto(r, "journaled", "working")
  /\ sandbox' = [sandbox EXCEPT ![r] = run[r].start]
  /\ UNCHANGED <<repo, disk, run, attempt, workers, cand, verif, landed>>

\* prepare_audit_workspace, then authorize_worker: the target itself is mounted,
\* also for a mutation run without a HEAD.
PrepareAudit(r) ==
  /\ ~IsGovernable(r)
  /\ Goto(r, "journaled", IF run[r].mutate THEN "working" ELSE "audit")
  /\ UNCHANGED <<repo, disk, sandbox, run, attempt, workers, cand, verif, landed>>

-----------------------------------------------------------------------------
(***************************************************************************)
(* The worker process, the candidate and its verification.                 *)
(***************************************************************************)

\* HEAD of the directory the worker and the verifier of r run in.
WorkspaceHead(r) == IF sandbox[r] # {} THEN sandbox[r] ELSE Head

\* A provider adapter commits its files in the workspace it was given.
WorkerCommits(r) ==
  /\ Goto(r, "working", "committed")
  /\ IF sandbox[r] # {}
     THEN /\ sandbox' = [sandbox EXCEPT ![r] = @ \cup {<<r, attempt[r]>>}]
          /\ UNCHANGED tip
     ELSE /\ tip' = [tip EXCEPT ![current] = @ \cup {<<r, attempt[r]>>}]
          /\ UNCHANGED sandbox
  /\ UNCHANGED <<current, devs, disk, run, attempt, workers, cand, verif, landed>>

\* Which commit an external candidate names is read by nobody and left out.
External == [kind |-> "EXTERNAL", sha |-> {}]

\* Mutant: any successful worker's commit is a governed candidate.
CandidateOfAny(r, success, sha) ==
  IF success /\ sha # run[r].start THEN [kind |-> "GOVERNED", sha |-> sha] ELSE External

\* dispatch_and_produce_candidate: is_mutated, and record_governed_candidate's test.
CandidateOf(r, success, sha) ==
  IF success /\ sha # run[r].start /\ sandbox[r] # {}
  THEN [kind |-> "GOVERNED", sha |-> sha] ELSE External

\* HEAD of a worktree before this attempt's commit: before_sha of the adapters.
HeadBefore(r) == WorkspaceHead(r) \ {<<r, attempt[r]>>}

\* workspace_after_sha: the workspace's HEAD or, when rev-parse fails after the
\* commit, the one read before it, which falls back to the baseline.
ReportedHeads(r) ==
  {WorkspaceHead(r)} \cup (IF Faults THEN {HeadBefore(r), run[r].start} ELSE {})

\* The dispatcher returns a result: SUCCESS with changed files needs a commit.
WorkerReturns(r) ==
  /\ \E success \in BOOLEAN, sha \in ReportedHeads(r) :
       /\ success => pc[r] = "committed"
       /\ ~success => Faults
       /\ cand' = [cand EXCEPT ![r] = CandidateOf(r, success, sha)]
  /\ Goto(r, pc[r], "produced")
  /\ pc[r] \in {"working", "committed"}
  /\ workers' = [workers EXCEPT ![r] = @ \cup {run[r].modality}]
  /\ UNCHANGED <<repo, disk, sandbox, run, attempt, verif, landed>>

\* record_external_candidate of a run that mutates nothing.
Audit(r) ==
  /\ Goto(r, "audit", "produced")
  /\ cand' = [cand EXCEPT ![r] = External]
  /\ UNCHANGED <<repo, disk, sandbox, run, attempt, workers, verif, landed>>

\* SubprocessVerifier::execute, then record_verification.
Verify(r) ==
  /\ Goto(r, "produced", "verified")
  /\ \E verdict \in Verdicts, e \in Evidence :
       verif' = [verif EXCEPT ![r] = [verdict |-> verdict, evidence |-> e,
                                      tree |-> WorkspaceHead(r)]]
  /\ UNCHANGED <<repo, disk, sandbox, run, attempt, workers, cand, landed>>

\* retry_repair resets what the attempt produced; the workspace is kept as it is.
RetryRepair(r) ==
  /\ run[r].mutate /\ attempt[r] < MaxAttempts
  /\ Goto(r, "verified", "working")
  /\ attempt' = [attempt EXCEPT ![r] = @ + 1]
  /\ cand' = [cand EXCEPT ![r] = NoCand]
  /\ verif' = [verif EXCEPT ![r] = NoVerification]
  /\ UNCHANGED <<repo, disk, sandbox, run, workers, landed>>

-----------------------------------------------------------------------------
(***************************************************************************)
(* promote_and_seal: read HEAD, merge, judge the contract and seal; then   *)
(* main files the receipt and appends it to the ledger.                    *)
(***************************************************************************)

\* Mutant: any finished verification will do.
IsVerifiedLoose(r) == verif[r].verdict # "NONE"

\* Exit code 0 and at least one test passed.
IsVerified(r) == verif[r].verdict = "PASS"

IsGoverned(r) == cand[r].kind = "GOVERNED"

\* Mutant: HEAD is compared with the candidate.
HeadIsCandidate(r) == Head = cand[r].sha

\* The source did not diverge from the baseline.
HeadUnmoved(r) == Head = run[r].start

\* A verified governed candidate whose baseline is still HEAD goes on to the merge.
CheckHead(r) ==
  /\ IsVerified(r) /\ IsGoverned(r) /\ HeadUnmoved(r)
  /\ Goto(r, "verified", "checked")
  /\ UNCHANGED <<repo, disk, sandbox, run, attempt, workers, cand, verif, landed>>

\* Nothing is merged: not verified, not governed, diverged, or HEAD unreadable.
Decline(r) ==
  /\ Faults \/ ~(IsVerified(r) /\ IsGoverned(r) /\ HeadUnmoved(r))
  /\ Goto(r, "verified", "judged")
  /\ UNCHANGED <<repo, disk, sandbox, run, attempt, workers, cand, verif, landed>>

\* Mutant: `git merge` without --ff-only.
CanMergeAny(c) == TRUE

\* git merge --ff-only c: a fast forward, or "already up to date".
CanMerge(c) == Head \subseteq c \/ c \subseteq Head

\* The merge names the sandbox branch, and moves whichever branch is checked out.
Merge(r) ==
  /\ CanMerge(sandbox[r])
  /\ Goto(r, "checked", "judged")
  /\ tip' = [tip EXCEPT ![current] = IF sandbox[r] \subseteq @ THEN @ ELSE sandbox[r]]
  /\ landed' = [landed EXCEPT ![r] = {current}]
  /\ UNCHANGED <<current, devs, disk, sandbox, run, attempt, workers, cand, verif>>

\* Mutant: a merge that is no fast forward is waited for.
MergeWaits(r) ==
  /\ Faults
  /\ Goto(r, "checked", "judged")
  /\ UNCHANGED <<repo, disk, sandbox, run, attempt, workers, cand, verif, landed>>

\* The merge is refused: not a fast forward, a locked index, local changes.
MergeFails(r) ==
  /\ Faults \/ ~CanMerge(sandbox[r])
  /\ Goto(r, "checked", "judged")
  /\ UNCHANGED <<repo, disk, sandbox, run, attempt, workers, cand, verif, landed>>

HasContract(r) == run[r].contract # NoContract

\* The contract as promote_and_seal leaves it: evidence that failed judges nothing.
FinalContract(r) ==
  IF verif[r].verdict \in {"PASS", "EMPTY_PASS"}
  THEN Judge(run[r].contract, verif[r].evidence)
  ELSE run[r].contract

ObjectiveSatisfied(r) == HasContract(r) /\ IsSufficient(FinalContract(r))

Promoted(r) == landed[r] # {}

RunStatus == {"VERIFIED_SUCCESS", "OBJECTIVE_UNSATISFIED", "EXTERNAL_AUDIT_VERIFIED",
              "FAILED"}

FinalStatus(r) ==
  IF IsVerified(r) /\ IsGoverned(r) /\ Promoted(r)
  THEN IF ObjectiveSatisfied(r) THEN "VERIFIED_SUCCESS" ELSE "OBJECTIVE_UNSATISFIED"
  ELSE IF IsVerified(r) /\ ~IsGoverned(r) THEN "EXTERNAL_AUDIT_VERIFIED"
  ELSE "FAILED"

\* The receipt: facts of the run, its claims, its final status.
ReceiptOf(r) ==
  [start      |-> run[r].start,
   cand       |-> cand[r],
   workers    |-> workers[r],
   verdict    |-> verif[r].verdict,
   by         |-> verif[r].evidence.by,
   proof      |-> HasContract(r),
   promoted   |-> Promoted(r),
   custody    |-> IsGoverned(r) /\ Promoted(r),
   satisfied  |-> ObjectiveSatisfied(r),
   authorized |-> IsVerified(r) /\ IsGoverned(r) /\ Promoted(r) /\ ObjectiveSatisfied(r),
   status     |-> FinalStatus(r)]

Candidate == [kind : {"NONE", "GOVERNED", "EXTERNAL"}, sha : SUBSET Changes]

Receipt == [start : SUBSET Changes, cand : Candidate,
            workers : SUBSET (Modality \cup {"STRUCTURAL"}),
            verdict : Verdicts \cup {"NONE"}, by : Verifiers,
            proof : BOOLEAN, promoted : BOOLEAN,
            custody : BOOLEAN, satisfied : BOOLEAN, authorized : BOOLEAN,
            status : RunStatus]

\* promote_and_seal ends: the receipt is in memory and the worktree is destroyed,
\* unless git fails to; nobody looks.
Seal(r) ==
  /\ Goto(r, "judged", "sealed")
  /\ \/ sandbox' = [sandbox EXCEPT ![r] = {}]
     \/ Faults /\ UNCHANGED sandbox
  /\ UNCHANGED <<repo, disk, run, attempt, workers, cand, verif, landed>>

\* fs::write of the receipt.
FileReceipt(r) ==
  /\ Goto(r, "sealed", "filed")
  /\ filed' = [filed EXCEPT ![r] = {ReceiptOf(r)}]
  /\ UNCHANGED <<repo, journal, ledger, sandbox, run, attempt, workers, cand, verif,
                 landed>>

\* record_receipt: the decision is a constant of the code.
RecordReceipt(r) ==
  /\ Goto(r, "filed", "done")
  /\ ledger' = ledger \cup {[run |-> r, status |-> FinalStatus(r),
                             decision |-> "PROMOTED"]}
  /\ UNCHANGED <<repo, journal, filed, sandbox, run, attempt, workers, cand, verif,
                 landed>>

-----------------------------------------------------------------------------
(***************************************************************************)
(* Errors, crashes and the developers.                                     *)
(***************************************************************************)

\* A `?` of main: journal, worktree add, dispatch, receipt file or ledger failed.
\* The process ends and cleans nothing up.
Abort(r) ==
  /\ Faults
  /\ \/ pc[r] \in {"created", "working", "committed", "sealed", "filed"}
     \/ pc[r] = "journaled" /\ IsGovernable(r)
  /\ pc' = [pc EXCEPT ![r] = "aborted"]
  /\ UNCHANGED <<repo, disk, sandbox, run, attempt, workers, cand, verif, landed>>

\* The process is killed.
Crash(r) ==
  /\ Faults /\ pc[r] \notin Ended \cup {"idle"}
  /\ pc' = [pc EXCEPT ![r] = "crashed"]
  /\ UNCHANGED <<repo, disk, sandbox, run, attempt, workers, cand, verif, landed>>

\* External: a developer commits on the branch that is checked out.
DevCommit ==
  /\ devs < MaxDevCommits
  /\ devs' = devs + 1
  /\ tip' = [tip EXCEPT ![current] = @ \cup {<<Dev, devs + 1>>}]
  /\ UNCHANGED <<current, disk, sandbox, pc, run, attempt, workers, cand, verif, landed>>

\* External: a developer checks out another branch, created at HEAD if it is new.
Checkout(b) ==
  /\ b # current /\ Head # {}
  /\ current' = b
  /\ tip' = [tip EXCEPT ![b] = IF @ = {} THEN Head ELSE @]
  /\ UNCHANGED <<devs, disk, sandbox, pc, run, attempt, workers, cand, verif, landed>>

KernelStep(r) ==
  \/ Create(r) \/ RecordRunCreated(r) \/ PrepareGoverned(r) \/ PrepareAudit(r)
  \/ WorkerCommits(r) \/ WorkerReturns(r) \/ Audit(r) \/ Verify(r) \/ RetryRepair(r)
  \/ CheckHead(r) \/ Decline(r) \/ Merge(r) \/ MergeFails(r)
  \/ Seal(r) \/ FileReceipt(r) \/ RecordReceipt(r) \/ Abort(r) \/ Crash(r)

Next ==
  \/ \E r \in Runs : KernelStep(r)
  \/ DevCommit
  \/ \E b \in Branches : Checkout(b)

Spec == Init /\ [][Next]_vars

\* What the kernel does between its verification and its end needs nobody else.
Concludes(r) ==
  \/ CheckHead(r) \/ Decline(r) \/ Merge(r) \/ MergeFails(r)
  \/ Seal(r) \/ FileReceipt(r) \/ RecordReceipt(r)

FairSpec == Spec /\ \A r \in Runs : WF_vars(Concludes(r))

-----------------------------------------------------------------------------
(***************************************************************************)
(* predicate.rs: what a later reader concludes from a filed receipt.       *)
(***************************************************************************)

\* is_ten_shadows_execution.  The signature holds; no provider receipt of an adapter
\* parses, so an empirical invocation is always missing one.
ExecutionValid(r, receipt) ==
  /\ r \in journal
  /\ receipt.by # "BUILDER"
  /\ receipt.status = "VERIFIED_SUCCESS" =>
       receipt.verdict = "PASS" /\ receipt.by # "BUILDER_TEST"
  /\ "EMPIRICAL" \notin receipt.workers

\* Mutant: the classification of the candidate is not checked.
ProductionValidLoose(r, receipt) ==
  /\ ExecutionValid(r, receipt)
  /\ receipt.status \in {"VERIFIED_SUCCESS", "OBJECTIVE_UNSATISFIED",
                         "EXTERNAL_AUDIT_VERIFIED"}

\* is_ten_shadows_production.
ProductionValid(r, receipt) ==
  /\ ExecutionValid(r, receipt)
  /\ receipt.status \in {"VERIFIED_SUCCESS", "OBJECTIVE_UNSATISFIED"}
  /\ receipt.promoted
  /\ receipt.cand.kind = "GOVERNED" /\ receipt.custody
  /\ receipt.cand.sha # receipt.start

\* is_objective_accomplished.
Accomplished(r, receipt) ==
  /\ ProductionValid(r, receipt)
  /\ receipt.status = "VERIFIED_SUCCESS"
  /\ receipt.satisfied /\ receipt.authorized /\ receipt.proof

-----------------------------------------------------------------------------
(***************************************************************************)
(* Properties.                                                             *)
(***************************************************************************)

\* Every variable has its type: commits are sets of changes, a run's records are
\* those of the kernel's typestates.
TypeOK ==
  /\ tip \in [Branches -> SUBSET Changes] /\ current \in Branches /\ devs \in Nat
  /\ sandbox \in [Runs -> SUBSET Changes]
  /\ journal \subseteq Runs
  /\ filed \in [Runs -> SUBSET Receipt]
  /\ pc \in [Runs -> PC]
  /\ run \in [Runs -> [mutate : BOOLEAN, modality : Modality \cup {"STRUCTURAL"},
                       contract : Contracts \cup {NoContract},
                       start : SUBSET Changes]]
  /\ attempt \in [Runs -> Nat]
  /\ workers \in [Runs -> SUBSET (Modality \cup {"STRUCTURAL"})]
  /\ cand \in [Runs -> Candidate]
  /\ verif \in [Runs -> [verdict : Verdicts \cup {"NONE"},
                         evidence : Evidence \cup {NoEvidence},
                         tree : SUBSET Changes]]
  /\ landed \in [Runs -> SUBSET Branches]

\* The changes run r made that are on branch b.
On(r, b) == {c \in tip[b] : c[1] = r}

\* Write-ahead: whatever a run left in the repository or on disk - a worktree, a
\* commit on a branch, a receipt - the journal knows the run.
EffectsAreJournaled ==
  \A r \in Runs :
    \/ r \in journal
    \/ sandbox[r] = {} /\ filed[r] = {} /\ \A b \in Branches : On(r, b) = {}

\* promote_and_seal merges a branch by name: still, the commit that was tested last
\* passed and is on a branch, no change of the run is on a branch that this test did
\* not see, and the candidate of the receipt is that commit or one before it.
PromotedWasTested ==
  \A r \in Runs : \A receipt \in filed[r] :
    receipt.promoted =>
      /\ verif[r].verdict = "PASS"
      /\ \E b \in Branches : verif[r].tree \subseteq tip[b]
      /\ \A b \in Branches : On(r, b) \subseteq verif[r].tree
      /\ receipt.cand.sha \subseteq verif[r].tree

\* workflow_2_post_build_claim_verification.md:33: "exact tested artifact equals exact
\* candidate being promoted".
CandidateIsTested ==
  \A r \in Runs : \A receipt \in filed[r] :
    receipt.promoted => receipt.cand.sha = verif[r].tree

\* Runs that promote onto the same branch do so one after the other: one of them
\* started from a commit that contains what the other merged.
PromotionsAreSerial ==
  \A r, s \in Runs :
    r # s /\ landed[r] \cap landed[s] # {} =>
      verif[r].tree \subseteq run[s].start \/ verif[s].tree \subseteq run[r].start

\* Receipts that predicate.rs refuses whatever their claims say: an empirical worker
\* without a parsed provider receipt, a builder that verified itself, a success that
\* rests on a BUILDER_TEST.
Refused(receipt) ==
  \/ "EMPIRICAL" \in receipt.workers
  \/ receipt.by = "BUILDER"
  \/ receipt.by = "BUILDER_TEST" /\ receipt.status = "VERIFIED_SUCCESS"

\* The two evaluations of a run, the sealing code's and the predicate's, agree on
\* every receipt that is not refused, and a refused one never counts as production.
PredicatesAgree ==
  \A r \in Runs : \A receipt \in filed[r] :
    /\ ProductionValid(r, receipt) <=> receipt.custody /\ ~Refused(receipt)
    /\ Accomplished(r, receipt) <=> receipt.authorized /\ ~Refused(receipt)
    /\ receipt.authorized <=> receipt.status = "VERIFIED_SUCCESS"

\* An accomplished objective was earned: the commit that was merged is the one the
\* last test ran on, that test was another's than the builder's, passed, and tested
\* exactly the effect of every mandatory obligation - so they all require one and the
\* same effect, since a run is judged by one piece of evidence.
CompletionIsEarned ==
  \A r \in Runs : \A receipt \in filed[r] :
    Accomplished(r, receipt) =>
      /\ verif[r].verdict = "PASS" /\ verif[r].evidence.spec
      /\ verif[r].evidence.by = "ORACLE"
      /\ \E b \in Branches : verif[r].tree \subseteq tip[b]
      /\ receipt.cand.sha \subseteq verif[r].tree
      /\ \A b \in Branches : On(r, b) \subseteq verif[r].tree
      /\ \E i \in DOMAIN run[r].contract.obligations :
           run[r].contract.obligations[i].effect = verif[r].evidence.effect
      /\ \A i \in Mandatory(run[r].contract) :
           run[r].contract.obligations[i].effect = verif[r].evidence.effect

\* Optimistic promotion cannot make everybody lose: when all runs are over, none
\* failed and nobody else touched the repository, then if any run had a verified
\* governed candidate, one was promoted.
SomeonePromotes ==
  /\ ~Faults /\ devs = 0 /\ \A b \in Branches \ {current} : tip[b] = {}
  /\ \A r \in Runs : pc[r] = "done"
  /\ \E r \in Runs : IsVerified(r) /\ IsGoverned(r)
  => \E r \in Runs : Promoted(r)

\* No step of anybody takes a commit off a branch.
BranchesOnlyGrow == [][\A b \in Branches : tip[b] \subseteq tip'[b]]_vars

\* The step brings a change of r to branch b that was on no branch before, and is
\* not r's own merge.
Escapes(r, b) ==
  /\ ~(On(r, b)' \subseteq UNION {On(r, d) : d \in Branches})
  /\ ~(pc[r] = "checked" /\ pc'[r] = "judged")

\* The changes of a run that resolved a baseline first reach a branch by the merge of
\* that run, whatever other runs and developers merge and check out.
GovernedUntilMerged ==
  [][\A r \in Runs, b \in Branches : run[r].start # {} => ~Escapes(r, b)]_vars

\* Whatever others do to the branch, a verified run of a process that lives comes to
\* its end or to another attempt: no combination of verdict, kind and head is
\* without an answer.
VerifiedConcludes ==
  \A r \in Runs : pc[r] = "verified" ~> pc[r] \in {"done", "working"}

-----------------------------------------------------------------------------
(***************************************************************************)
(* The inductive invariant behind the safety properties.                   *)
(***************************************************************************)

\* Commit c has a change run r made.
Has(r, c) == \E change \in c : change[1] = r

JournalSound ==
  \A r \in Runs :
    /\ pc[r] \notin {"idle", "created", "aborted", "crashed"} => r \in journal
    /\ sandbox[r] # {} \/ filed[r] # {} => r \in journal
    /\ \A b \in Branches : Has(r, tip[b]) => r \in journal
    /\ \A s \in Runs : Has(r, sandbox[s]) => r \in journal

\* From the worker's start to the seal a governable run has its worktree, and there
\* is nothing in it but the baseline and the run's own changes.
WorkspaceSound ==
  \A r \in Runs :
    /\ pc[r] = "idle" => sandbox[r] = {}
    /\ pc[r] \in {"working", "committed"} => run[r].mutate
    /\ pc[r] = "audit" => ~run[r].mutate
    /\ pc[r] \in {"working", "committed", "produced", "verified", "checked"}
         /\ IsGovernable(r) => sandbox[r] # {}
    /\ sandbox[r] # {} => run[r].start # {} /\ run[r].start \subseteq sandbox[r]
    /\ \A change \in sandbox[r] : change \in run[r].start \/ change[1] = r

\* A governed candidate is on the worktree's branch, and what was tested is that
\* branch as it is: the attempt that made the candidate may have committed once more.
CandidateSound ==
  \A r \in Runs :
    /\ pc[r] = "idle" => cand[r] = NoCand
    /\ IsGoverned(r) =>
         /\ run[r].start \subseteq cand[r].sha /\ cand[r].sha # run[r].start
         /\ pc[r] \in {"produced", "verified", "checked"} =>
              sandbox[r] # {} /\ cand[r].sha \subseteq sandbox[r]
         /\ pc[r] \in {"verified", "checked"} => verif[r].tree = sandbox[r]
    /\ pc[r] = "checked" => IsVerified(r) /\ IsGoverned(r)

PromotionSound ==
  \A r \in Runs : Promoted(r) =>
    /\ pc[r] \in {"judged", "sealed", "filed"} \cup Ended
    /\ IsVerified(r) /\ IsGoverned(r) /\ cand[r].sha \subseteq verif[r].tree
    /\ run[r].start # {}
    /\ \A b \in landed[r] : verif[r].tree \subseteq tip[b]
    /\ \A b \in Branches : On(r, b) \subseteq verif[r].tree

ReceiptsSound ==
  \A r \in Runs : filed[r] # {} =>
    pc[r] \in {"filed"} \cup Ended /\ filed[r] = {ReceiptOf(r)}

\* Until it is promoted, nobody else sees the changes of a run with a baseline.
PrivacySound ==
  \A r \in Runs : (pc[r] = "idle" \/ run[r].start # {}) /\ ~Promoted(r) =>
    /\ \A b \in Branches : ~Has(r, tip[b])
    /\ \A s \in Runs \ {r} : ~Has(r, sandbox[s]) /\ ~Has(r, run[s].start)

\* The baseline of a run is on a branch, and was made before the run.
BaselineSound ==
  \A r \in Runs :
    /\ ~Has(r, run[r].start)
    /\ \E b \in Branches : run[r].start \subseteq tip[b]

\* What every process in the middle of a run may rely on, whatever other runs and
\* developers do to the repository meanwhile.
Sound ==
  /\ TypeOK /\ JournalSound /\ WorkspaceSound /\ CandidateSound /\ PromotionSound
  /\ ReceiptsSound /\ PrivacySound /\ BaselineSound

=============================================================================
