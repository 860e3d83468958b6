------------------------------ MODULE Promotion ------------------------------
(***************************************************************************)
(* The promotion pipeline of loop_engine: proposals and verifier receipts  *)
(* in KernelDatabase, PhysicalVerifierGate.verify_candidate,               *)
(* PrivilegedTransitionEngine, PromotionCoordinator.promote and its         *)
(* reconcile_interrupted_promotions, over one git target branch.            *)
(*                                                                         *)
(* Verifiers, promoters and the reconciler are separate processes over one *)
(* database and one repository.  Every database transaction and every git  *)
(* command is one step, and a process may crash between any two of them.   *)
(***************************************************************************)
EXTENDS ProposalStates

CONSTANTS
  Task, NoTask,        \* task identifiers; no task
  Commit, NoCommit,    \* commits of the repository; no commit
  Ancestors,           \* Ancestors[c]: c and the commits it descends from
  Base,                \* Base[c]: base_commit_sha in the manifest of candidate c
  Offered,             \* Offered[t]: candidates manifests of task t may carry
  Foreign,             \* commits that reach the branch outside the pipeline
  Root,                \* the commit the target branch starts at
  Promoter, Verifier,  \* processes that run promote and verify_candidate
  SealStates,          \* states a caller may put into a manifest it seals
  Failures,            \* statuses of the failing receipts of this instance
  DbBusy               \* TRUE: a statement may exceed SQLite's lock timeout

ASSUME GitAssumption ==
  /\ Root \in Commit /\ NoCommit \notin Commit /\ Foreign \subseteq Commit
  /\ Ancestors \in [Commit -> SUBSET Commit]
  /\ \A c \in Commit : c \in Ancestors[c]
  /\ \A c, d, e \in Commit :
       c \in Ancestors[d] /\ d \in Ancestors[e] => c \in Ancestors[e]

ASSUME ManifestAssumption ==
  /\ NoTask \notin Task
  /\ Base \in [Commit -> Commit]
  /\ Offered \in [Task -> SUBSET Commit]
  /\ SealStates \subseteq State
  /\ Failures \subseteq {"REJECTED", "BLOCKED"}
  /\ DbBusy \in BOOLEAN

VARIABLES
  state,        \* proposals.state, or Absent
  sealed,       \* proposals.candidate_commit_sha, or NoCommit
  receipts,     \* rows of verified_receipts: [task, commit, status]
  wal,          \* rows of promotion_wal: [task, commit, state]
  head,         \* commit the target branch points at
  tested,       \* history: <<task, commit>> whose acceptance tests passed
  verifier,     \* local state of each verify_candidate call
  promoter,     \* local state of each promote call
  reconciler    \* local state of reconcile_interrupted_promotions

vars == <<state, sealed, receipts, wal, head, tested, verifier, promoter,
          reconciler>>

\* Where a verify_candidate call is: running tests, or about to do the named step.
VerifierPC == {"idle", "run", "claim", "record"}

\* Where a promote call is: the step it does next, or the answer it returned.
PromoterPC == {"idle", "accepted", "declined", "check", "pend", "walPend",
               "checkout", "merge", "rollback", "promote", "walPromote",
               "postTest", "reject", "finish", "walFinish"}

ReceiptStatus == {"VERIFIED", "REJECTED", "BLOCKED"}
Receipt  == [task : Task, commit : Commit, status : ReceiptStatus]
WalEntry == [task : Task, commit : Commit, state : State]

IdleVerifier   == [pc |-> "idle", task |-> NoTask, commit |-> NoCommit,
                   from |-> Absent]
IdlePromoter   == [pc |-> "idle", task |-> NoTask, commit |-> NoCommit]
IdleReconciler == [pc |-> "idle", task |-> NoTask, merged |-> FALSE, todo |-> {}]

Init ==
  /\ state      = [t \in Task |-> Absent]
  /\ sealed     = [t \in Task |-> NoCommit]
  /\ receipts   = {}
  /\ wal        = {}
  /\ head       = Root
  /\ tested     = {}
  /\ verifier   = [v \in Verifier |-> IdleVerifier]
  /\ promoter   = [p \in Promoter |-> IdlePromoter]
  /\ reconciler = IdleReconciler

-----------------------------------------------------------------------------
(***************************************************************************)
(* KernelDatabase: the proposals table and the transition engine.          *)
(***************************************************************************)

\* Mutant: the UPDATE forgets "AND state = from".
SwapBlind(t, from, to) == [state EXCEPT ![t] = to]

\* The proposals table after the UPDATE ... WHERE state = from, legal moves only.
Swap(t, from, to) ==
  IF to \in LegalNext(from) /\ state[t] = from
  THEN [state EXCEPT ![t] = to]
  ELSE state

(***************************************************************************)
(* execute_transition: the caller's witness is fresh and the governance    *)
(* digest is cached, so only the legality check can refuse.  The exception  *)
(* of a failed compare-and-swap, or of a locked database, is swallowed and *)
(* the caller is told the transition happened.                             *)
(***************************************************************************)
EngineTransition(t, from, to) ==
  \/ state' = Swap(t, from, to)
  \/ DbBusy /\ UNCHANGED state

\* record_proposal: one insert per task; the manifest brings its own state.
Seal(t, c) ==
  /\ state[t] = Absent
  /\ \E s \in SealStates : state' = [state EXCEPT ![t] = s]
  /\ sealed' = [sealed EXCEPT ![t] = c]
  /\ UNCHANGED <<receipts, wal, head, tested, verifier, promoter, reconciler>>

\* Mutant: the privileged states are not refused.
PublicTargetsAll(s) == LegalNext(s)

\* States transition_proposal_state and update_state let any caller write.
PublicTargets(s) == LegalNext(s) \ PrivilegedStates

\* A caller of update_state; the one that loses the compare-and-swap gets an error.
UpdateState(t) ==
  /\ \E to \in PublicTargets(state[t]) : state' = Swap(t, state[t], to)
  /\ UNCHANGED <<sealed, receipts, wal, head, tested, verifier, promoter,
                 reconciler>>

-----------------------------------------------------------------------------
(***************************************************************************)
(* PhysicalVerifierGate.verify_candidate.                                  *)
(***************************************************************************)

\* Mutant: the row takes its status from the proposal.
FileReceiptState(t, c, status) ==
  receipts' = receipts \cup {[task |-> t, commit |-> c, status |-> state[t]]}

\* record_verified_receipt: rows are only ever added.
FileReceipt(t, c, status) ==
  receipts' = receipts \cup {[task |-> t, commit |-> c, status |-> status]}

\* Gates 1 to 4 or the missing-test check refuse: a receipt, no state change.
VerifyRefuse(v, t, c) ==
  /\ verifier[v].pc = "idle"
  /\ \E status \in Failures : FileReceipt(t, c, status)
  /\ UNCHANGED <<state, sealed, wal, head, tested, verifier, promoter,
                 reconciler>>

\* The manifest passes gates 1 to 4 and pytest starts.
VerifyRun(v, t, c) ==
  /\ verifier[v].pc = "idle"
  /\ verifier' = [verifier EXCEPT ![v] =
       [IdleVerifier EXCEPT !.pc = "run", !.task = t, !.commit = c]]
  /\ UNCHANGED <<state, sealed, receipts, wal, head, tested, promoter,
                 reconciler>>

\* Gates 6 to 8 after a run that failed, timed out or collected no test.
VerifyFail(v) ==
  /\ verifier[v].pc = "run"
  /\ \E status \in Failures :
       FileReceipt(verifier[v].task, verifier[v].commit, status)
  /\ verifier' = [verifier EXCEPT ![v] = IdleVerifier]
  /\ UNCHANGED <<state, sealed, wal, head, tested, promoter, reconciler>>

\* The state the VERIFIED claim starts from: the one read, or CANDIDATE_SEALED.
ClaimFrom(s) ==
  IF s \in {"CANDIDATE_SEALED", "VERIFYING"} THEN s ELSE "CANDIDATE_SEALED"

\* The run passed: the current state is read for the claim.
VerifyPass(v) ==
  /\ verifier[v].pc = "run"
  /\ tested' = tested \cup {<<verifier[v].task, verifier[v].commit>>}
  /\ verifier' = [verifier EXCEPT ![v] =
       [pc |-> "claim", task |-> @.task, commit |-> @.commit,
        from |-> ClaimFrom(state[@.task])]]
  /\ UNCHANGED <<state, sealed, receipts, wal, head, promoter, reconciler>>

\* The engine moves the proposal to VERIFIED, or fails to and says it did.
VerifyClaim(v) ==
  /\ verifier[v].pc = "claim"
  /\ EngineTransition(verifier[v].task, verifier[v].from, "VERIFIED")
  /\ verifier' = [verifier EXCEPT ![v].pc = "record"]
  /\ UNCHANGED <<sealed, receipts, wal, head, tested, promoter, reconciler>>

\* The receipt is inserted in a transaction of its own.
VerifyRecord(v) ==
  /\ verifier[v].pc = "record"
  /\ FileReceipt(verifier[v].task, verifier[v].commit, "VERIFIED")
  /\ verifier' = [verifier EXCEPT ![v] = IdleVerifier]
  /\ UNCHANGED <<state, sealed, wal, head, tested, promoter, reconciler>>

CrashVerifier(v) ==
  /\ verifier[v].pc # "idle"
  /\ verifier' = [verifier EXCEPT ![v] = IdleVerifier]
  /\ UNCHANGED <<state, sealed, receipts, wal, head, tested, promoter,
                 reconciler>>

-----------------------------------------------------------------------------
(***************************************************************************)
(* The target branch.                                                      *)
(***************************************************************************)

\* Another developer's commit is pushed on top of the branch.
ForeignCommit(c) ==
  /\ head \in Ancestors[c] /\ c # head
  /\ head' = c
  /\ UNCHANGED <<state, sealed, receipts, wal, tested, verifier, promoter,
                 reconciler>>

\* git merge --ff-only succeeds: the branch is behind c, or already has c.
CanMerge(c) == head \in Ancestors[c] \/ c \in Ancestors[head]

\* Mutant: the branch is set to c even when it already has c.
MergedHeadReset(c) == c

\* The commit the branch points at afterwards.
MergedHead(c) == IF c \in Ancestors[head] THEN head ELSE c

-----------------------------------------------------------------------------
(***************************************************************************)
(* PromotionCoordinator.promote.                                           *)
(***************************************************************************)

NotCalled(p) == promoter[p].pc \in {"idle", "accepted", "declined"}

Goto(p, pc) == promoter' = [promoter EXCEPT ![p].pc = pc]

\* Mutant: the receipt's status is not looked at.
AdmissibleAnyStatus(t, r) == r.task = t /\ state[t] # Absent

\* The receipt is the task's own and says VERIFIED; the proposal exists.
Admissible(t, r) ==
  /\ r.task = t
  /\ r.status = "VERIFIED"
  /\ state[t] # Absent

\* promote(t, r): fetch the receipt and the proposal, read the state.
Call(p, t, r) ==
  /\ NotCalled(p)
  /\ promoter' = [promoter EXCEPT ![p] =
       [task |-> t, commit |-> r.commit,
        pc |-> IF ~Admissible(t, r) THEN "declined"
               ELSE IF state[t] = "POST_PROMOTION_VERIFIED" THEN "accepted"
               ELSE "check"]]
  /\ UNCHANGED <<state, sealed, receipts, wal, head, tested, verifier,
                 reconciler>>

\* Mutant: the base is not compared with the branch.
BaseUnchecked(t) == TRUE

\* The sealed base is the branch head or an ancestor of it.
BaseOnTarget(t) == Base[sealed[t]] \in Ancestors[head]

\* Clean worktree, branch resolved, base on the branch; a dirty tree is always possible.
CheckTarget(p) ==
  /\ promoter[p].pc = "check"
  /\ \/ BaseOnTarget(promoter[p].task) /\ Goto(p, "pend")
     \/ Goto(p, "declined")
  /\ UNCHANGED <<state, sealed, receipts, wal, head, tested, verifier,
                 reconciler>>

\* One _request_transition of promote, between program points at and next.
Request(p, at, from, to, next) ==
  /\ promoter[p].pc = at
  /\ EngineTransition(promoter[p].task, from, to)
  /\ Goto(p, next)
  /\ UNCHANGED <<sealed, receipts, wal, head, tested, verifier, reconciler>>

\* One record_promotion_wal_step of promote.
LogStep(p, at, s, next) ==
  /\ promoter[p].pc = at
  /\ wal' = wal \cup {[task |-> promoter[p].task, commit |-> promoter[p].commit,
                       state |-> s]}
  /\ Goto(p, next)
  /\ UNCHANGED <<state, sealed, receipts, head, tested, verifier, reconciler>>

RequestPending(p) ==
  Request(p, "pend", "VERIFIED", "PROMOTION_PENDING", "walPend")

\* Mutant: the branch is touched without a logged intent.
LogPendingSkipped(p) ==
  /\ promoter[p].pc = "walPend"
  /\ Goto(p, "checkout")
  /\ UNCHANGED <<state, sealed, receipts, wal, head, tested, verifier,
                 reconciler>>

LogPending(p) == LogStep(p, "walPend", "PROMOTION_PENDING", "checkout")

\* git checkout of the target branch may fail (local changes, index lock).
Checkout(p) ==
  /\ promoter[p].pc = "checkout"
  /\ \E next \in {"merge", "rollback"} : Goto(p, next)
  /\ UNCHANGED <<state, sealed, receipts, wal, head, tested, verifier,
                 reconciler>>

\* git merge --ff-only of the receipt's commit into what is checked out: nobody
\* checks out another branch in repo_dir between Checkout and here.
Merge(p) ==
  /\ promoter[p].pc = "merge"
  /\ CanMerge(promoter[p].commit)
  /\ head' = MergedHead(promoter[p].commit)
  /\ Goto(p, "promote")
  /\ UNCHANGED <<state, sealed, receipts, wal, tested, verifier, reconciler>>

\* Mutant: the exit code of the merge is ignored.
MergeFailsIgnored(p) ==
  /\ promoter[p].pc = "merge"
  /\ Goto(p, "promote")
  /\ UNCHANGED <<state, sealed, receipts, wal, head, tested, verifier,
                 reconciler>>

\* The merge is not a fast-forward, or git fails.
MergeFails(p) ==
  /\ promoter[p].pc = "merge"
  /\ Goto(p, "rollback")
  /\ UNCHANGED <<state, sealed, receipts, wal, head, tested, verifier,
                 reconciler>>

Rollback(p) ==
  Request(p, "rollback", "PROMOTION_PENDING", "VERIFIED", "declined")
RequestPromoted(p) ==
  Request(p, "promote", "PROMOTION_PENDING", "PROMOTED", "walPromote")
LogPromoted(p) == LogStep(p, "walPromote", "PROMOTED", "postTest")

\* The fixture suite on the target branch; with no test file it passes.
PostTest(p) ==
  /\ promoter[p].pc = "postTest"
  /\ \E next \in {"finish", "reject"} : Goto(p, next)
  /\ UNCHANGED <<state, sealed, receipts, wal, head, tested, verifier,
                 reconciler>>

RequestRejected(p) == Request(p, "reject", "PROMOTED", "REJECTED", "declined")
RequestFinal(p) ==
  Request(p, "finish", "PROMOTED", "POST_PROMOTION_VERIFIED", "walFinish")
LogFinal(p) == LogStep(p, "walFinish", "POST_PROMOTION_VERIFIED", "accepted")

CrashPromoter(p) ==
  /\ ~NotCalled(p)
  /\ promoter' = [promoter EXCEPT ![p] = IdlePromoter]
  /\ UNCHANGED <<state, sealed, receipts, wal, head, tested, verifier,
                 reconciler>>

-----------------------------------------------------------------------------
(***************************************************************************)
(* PromotionCoordinator.reconcile_interrupted_promotions.                  *)
(***************************************************************************)

Pending == {t \in Task : state[t] = "PROMOTION_PENDING"}

\* get_pending_promotions: the list is read once.
ListPending ==
  /\ reconciler.pc = "idle" /\ Pending # {}
  /\ reconciler' = [IdleReconciler EXCEPT !.pc = "next", !.todo = Pending]
  /\ UNCHANGED <<state, sealed, receipts, wal, head, tested, verifier, promoter>>

\* merge-base --is-ancestor of the sealed candidate against the head just read.
Examine(t) ==
  /\ reconciler.pc = "next" /\ t \in reconciler.todo
  /\ reconciler' = [pc |-> "decide", task |-> t, todo |-> reconciler.todo,
                     merged |-> sealed[t] \in Ancestors[head]]
  /\ UNCHANGED <<state, sealed, receipts, wal, head, tested, verifier, promoter>>

\* Mutant: every pending proposal is completed.
VerdictOptimistic(merged) == "POST_PROMOTION_VERIFIED"

\* Where the ancestry answer sends a pending proposal.
Verdict(merged) == IF merged THEN "POST_PROMOTION_VERIFIED" ELSE "VERIFIED"

\* The raw transition, and the next task of the list.
Settle ==
  LET t == reconciler.task
      rest == reconciler.todo \ {t}
  IN /\ reconciler.pc = "decide"
     /\ state[t] = "PROMOTION_PENDING"
     /\ state' = Swap(t, "PROMOTION_PENDING", Verdict(reconciler.merged))
     /\ reconciler' = IF rest = {} THEN IdleReconciler
                      ELSE [IdleReconciler EXCEPT !.pc = "next", !.todo = rest]
     /\ UNCHANGED <<sealed, receipts, wal, head, tested, verifier, promoter>>

\* The compare-and-swap of the raw transition fails: the error ends the loop.
SettleFails ==
  /\ reconciler.pc = "decide"
  /\ state[reconciler.task] # "PROMOTION_PENDING" \/ DbBusy
  /\ reconciler' = IdleReconciler
  /\ UNCHANGED <<state, sealed, receipts, wal, head, tested, verifier, promoter>>

CrashReconciler ==
  /\ reconciler.pc # "idle"
  /\ reconciler' = IdleReconciler
  /\ UNCHANGED <<state, sealed, receipts, wal, head, tested, verifier, promoter>>

-----------------------------------------------------------------------------
VerifierStep(v) ==
  \/ \E t \in Task : \E c \in Offered[t] : VerifyRefuse(v, t, c) \/ VerifyRun(v, t, c)
  \/ VerifyFail(v) \/ VerifyPass(v) \/ VerifyClaim(v) \/ VerifyRecord(v)
  \/ CrashVerifier(v)

\* The steps a promote call takes by itself once it has begun.
PromoterStep(p) ==
  \/ CheckTarget(p) \/ RequestPending(p) \/ LogPending(p)
  \/ Checkout(p) \/ Merge(p) \/ MergeFails(p) \/ Rollback(p)
  \/ RequestPromoted(p) \/ LogPromoted(p)
  \/ PostTest(p) \/ RequestRejected(p) \/ RequestFinal(p) \/ LogFinal(p)

ReconcilerStep ==
  ListPending \/ (\E t \in Task : Examine(t)) \/ Settle \/ SettleFails

Next ==
  \/ \E t \in Task : (\E c \in Offered[t] : Seal(t, c)) \/ UpdateState(t)
  \/ \E v \in Verifier : VerifierStep(v)
  \/ \E c \in Foreign : ForeignCommit(c)
  \/ \E p \in Promoter :
       \/ \E t \in Task, r \in receipts : Call(p, t, r)
       \/ PromoterStep(p) \/ CrashPromoter(p)
  \/ ReconcilerStep \/ CrashReconciler

Spec == Init /\ [][Next]_vars

-----------------------------------------------------------------------------
(***************************************************************************)
(* Properties.                                                             *)
(***************************************************************************)

\* Every variable holds a value of its type.
TypeOK ==
  /\ state \in [Task -> State \cup {Absent}]
  /\ sealed \in [Task -> Commit \cup {NoCommit}]
  /\ receipts \subseteq Receipt
  /\ wal \subseteq WalEntry
  /\ head \in Commit
  /\ tested \subseteq Task \X Commit
  /\ verifier \in [Verifier ->
       [pc : VerifierPC, task : Task \cup {NoTask},
        commit : Commit \cup {NoCommit}, from : State \cup {Absent}]]
  /\ promoter \in [Promoter ->
       [pc : PromoterPC, task : Task \cup {NoTask},
        commit : Commit \cup {NoCommit}]]
  /\ reconciler \in [pc : {"idle", "next", "decide"}, task : Task \cup {NoTask},
                     merged : BOOLEAN, todo : SUBSET Task]

OnTarget(c) == c \in Ancestors[head]
Certified(t) == \E r \in receipts : r.task = t /\ r.status = "VERIFIED"

\* States promote and the reconciler reach only after a merge.
LandedStates == {"PROMOTED", "POST_PROMOTION_VERIFIED"}

\* A proposal called promoted has a candidate on the target branch, whatever
\* crashed, raced or swallowed its failed compare-and-swap on the way.
PromotedIsOnTarget ==
  \A t \in Task : state[t] \in LandedStates => \E c \in Offered[t] : OnTarget(c)

\* A proposal in promotion has a persisted VERIFIED receipt: promote works from
\* receipts of the database only (the receipt is written after the state).
PromotionIsCertified ==
  \A t \in Task :
    state[t] \in LandedStates \cup {"PROMOTION_PENDING"} => Certified(t)

\* The promotion log never records a landing that the branch does not show, and
\* logs the intent before the branch moves.
LogIsTruthful ==
  \A e \in wal :
    e.state \in LandedStates =>
      /\ OnTarget(e.commit)
      /\ [e EXCEPT !.state = "PROMOTION_PENDING"] \in wal

\* The pipeline moves the branch only to a commit with a VERIFIED receipt.
LandsOnlyVerified ==
  [][head' # head => \/ head' \in Foreign
                     \/ \E r \in receipts : r.commit = head' /\ r.status = "VERIFIED"
    ]_vars

\* Whatever state its manifest brought, no later move of a proposal asserts more
\* than was earned: VERIFIED needs a passed run (or is the rollback of a
\* promotion), PROMOTION_PENDING a persisted receipt, and a landed state a
\* candidate on the branch.  The claims are made by callers that hold stale reads.
PrivilegeIsEarned ==
  [][\A t \in Task : state[t] \notin {Absent, state'[t]} =>
       /\ state'[t] = "VERIFIED" /\ state[t] # "PROMOTION_PENDING" =>
            \E c \in Offered[t] : <<t, c>> \in tested
       /\ state'[t] = "PROMOTION_PENDING" => Certified(t)
       /\ state'[t] \in LandedStates => \E c \in Offered[t] : OnTarget(c)
    ]_vars

\* Call p's next step is its merge.
Merging(p) == promoter[p].pc = "merge" /\ promoter'[p].pc = "promote"

\* A merge brings in only what lies between the sealed base and the candidate:
\* no commit of another, unpromoted, proposal rides along.
NoStowaways ==
  [][\A p \in Promoter :
       Merging(p) =>
         Ancestors[head'] \ Ancestors[head] \subseteq
           Ancestors[promoter[p].commit] \ Ancestors[Base[sealed[promoter[p].task]]]
    ]_vars

\* Nothing that reached the branch is ever taken off it.
TargetOnlyGrows == [][Ancestors[head] \subseteq Ancestors[head']]_vars

\* The pipeline implements the custody specification, when every manifest
\* offered for a task is the one that was sealed.
Custody == INSTANCE ProposalCustody
             WITH landed <- {t \in Task : sealed[t] \in Commit /\ OnTarget(sealed[t])}
ImplementsCustody == Custody!Spec

-----------------------------------------------------------------------------
(***************************************************************************)
(* The inductive invariant behind the invariants above: what each process  *)
(* in the middle of a call may rely on, whatever the others do.            *)
(***************************************************************************)

\* Program points of a promote call after its merge, after its first log row, and
\* after its check of the target branch.
PastMerge == {"promote", "walPromote", "postTest", "reject", "finish", "walFinish"}
PastIntent == PastMerge \cup {"checkout", "merge"}
PastCheck == PastIntent \cup {"pend", "walPend"}

ReceiptsSound ==
  \A r \in receipts :
    /\ r.commit \in Offered[r.task]
    /\ r.status = "VERIFIED" => <<r.task, r.commit>> \in tested

SealsSound ==
  \A t \in Task :
    IF state[t] = Absent THEN sealed[t] = NoCommit ELSE sealed[t] \in Offered[t]

VerifierSound(v) ==
  verifier[v].pc # "idle" =>
    /\ verifier[v].task \in Task
    /\ verifier[v].commit \in Offered[verifier[v].task]
    /\ verifier[v].pc \in {"claim", "record"} =>
         <<verifier[v].task, verifier[v].commit>> \in tested

PromoterSound(p) ==
  ~NotCalled(p) =>
    /\ promoter[p].task \in Task
    /\ state[promoter[p].task] # Absent
    /\ [task |-> promoter[p].task, commit |-> promoter[p].commit,
        status |-> "VERIFIED"] \in receipts
    /\ promoter[p].pc \in PastCheck =>
         Base[sealed[promoter[p].task]] \in Ancestors[head]
    /\ promoter[p].pc \in PastMerge => OnTarget(promoter[p].commit)
    /\ promoter[p].pc \in PastIntent =>
         [task |-> promoter[p].task, commit |-> promoter[p].commit,
          state |-> "PROMOTION_PENDING"] \in wal

VerifiersSound == \A v \in Verifier : VerifierSound(v)
PromotersSound == \A p \in Promoter : PromoterSound(p)

ReconcilerSound ==
  /\ \A t \in reconciler.todo : state[t] # Absent
  /\ reconciler.pc = "decide" =>
       /\ reconciler.task \in reconciler.todo
       /\ reconciler.merged => OnTarget(sealed[reconciler.task])

\* Every process in the middle of a call may rely on what it established before:
\* its test result, its receipt, its checked base, its logged intent and its
\* merge are still there, whatever the others did, lost or overwrote since.
Sound ==
  /\ TypeOK
  /\ ReceiptsSound /\ SealsSound /\ VerifiersSound /\ PromotersSound
  /\ ReconcilerSound

=============================================================================
