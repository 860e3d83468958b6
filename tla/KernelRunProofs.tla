--------------------------- MODULE KernelRunProofs ---------------------------
(***************************************************************************)
(* Proofs about KernelRun, for every set of runs, branches, contracts and  *)
(* bounds.                                                                 *)
(***************************************************************************)
EXTENDS KernelRun, TLAPS

\* A new repository or one with commits, no run created: everything holds.
LEMMA InitSound == Init => Sound
<1> SUFFICES ASSUME Init PROVE Sound
  OBVIOUS
<1> USE KernelAssumption
<1>1. TypeOK
  BY DEF Init, TypeOK, Changes, PC, Ended, NoRun, NoCand, NoVerification, Candidate
<1>2. JournalSound
  BY DEF Init, JournalSound, Has
<1>3. WorkspaceSound
  BY DEF Init, WorkspaceSound
<1>4. CandidateSound
  BY DEF Init, CandidateSound, IsGoverned, NoCand
<1>5. PromotionSound /\ ReceiptsSound
  BY DEF Init, PromotionSound, ReceiptsSound, Promoted
<1>6. PrivacySound
  BY DEF Init, PrivacySound, Has, NoRun
<1>7. BaselineSound
  BY DEF Init, BaselineSound, NoRun, Has
<1> QED BY <1>1, <1>2, <1>3, <1>4, <1>5, <1>6, <1>7 DEF Sound

-----------------------------------------------------------------------------
(***************************************************************************)
(* Type correctness.                                                       *)
(***************************************************************************)

\* Whoever made the evidence, the kernel has a name for it.
LEMMA EvidenceMaker ==
  ASSUME TypeOK, NEW r \in Runs
  PROVE  verif[r].evidence.by \in Verifiers
<1>1. verif[r].evidence \in Evidence \cup {NoEvidence}
  BY DEF TypeOK
<1>2. NoEvidence.by \in Verifiers
  BY DEF NoEvidence, Verifiers
<1> QED BY <1>1, <1>2, KernelAssumption

\* A run of any kind, verified or not, has a receipt.
LEMMA ReceiptType ==
  ASSUME TypeOK, NEW r \in Runs
  PROVE  ReceiptOf(r) \in Receipt
<1>1. FinalStatus(r) \in RunStatus
  BY DEF FinalStatus, RunStatus
<1>2. /\ ObjectiveSatisfied(r) \in BOOLEAN /\ HasContract(r) \in BOOLEAN
      /\ Promoted(r) \in BOOLEAN /\ IsGoverned(r) \in BOOLEAN
      /\ IsVerified(r) \in BOOLEAN
  BY DEF ObjectiveSatisfied, HasContract, Promoted, IsGoverned, IsVerified, IsSufficient
<1>3. /\ run[r].start \in SUBSET Changes /\ cand[r] \in Candidate
      /\ workers[r] \in SUBSET (Modality \cup {"STRUCTURAL"})
      /\ verif[r].verdict \in Verdicts \cup {"NONE"}
      /\ verif[r].evidence.by \in Verifiers
  BY EvidenceMaker DEF TypeOK
<1> QED BY <1>1, <1>2, <1>3 DEF ReceiptOf, Receipt

\* Every step of a run keeps the types.
LEMMA RunTypeOK ==
  ASSUME TypeOK, NEW r \in Runs, KernelStep(r)
  PROVE  TypeOK'
<1> USE KernelAssumption DEF TypeOK, Goto, repo, disk
<1>1. CASE Create(r)
  BY <1>1 DEF Create, ResolvedHeads, Head, PC
<1>2. CASE RecordRunCreated(r)
  BY <1>2 DEF RecordRunCreated, PC
<1>3. CASE PrepareGoverned(r)
  BY <1>3 DEF PrepareGoverned, PC
<1>4. CASE PrepareAudit(r)
  BY <1>4 DEF PrepareAudit, PC
<1>5. CASE WorkerCommits(r)
  <2> DEFINE change == {<<r, attempt[r]>>}
  <2>1. sandbox[r] \cup change \in SUBSET Changes /\ tip[current] \cup change \in SUBSET Changes
    BY DEF Changes
  <2>2. pc' \in [Runs -> PC]
    BY <1>5 DEF WorkerCommits, PC
  <2> HIDE DEF change
  <2>3. CASE sandbox' = [sandbox EXCEPT ![r] = sandbox[r] \cup change] /\ UNCHANGED tip
    BY <1>5, <2>1, <2>2, <2>3 DEF WorkerCommits
  <2>4. CASE tip' = [tip EXCEPT ![current] = tip[current] \cup change] /\ UNCHANGED sandbox
    BY <1>5, <2>1, <2>2, <2>4 DEF WorkerCommits
  <2> QED BY <1>5, <2>3, <2>4 DEF WorkerCommits, change
<1>6. CASE WorkerReturns(r)
  <2>1. PICK success \in BOOLEAN, sha \in ReportedHeads(r) :
          cand' = [cand EXCEPT ![r] = CandidateOf(r, success, sha)]
    BY <1>6 DEF WorkerReturns
  <2>2. sha \in SUBSET Changes
    BY <2>1 DEF ReportedHeads, HeadBefore, WorkspaceHead, Head
  <2>3. CandidateOf(r, success, sha) \in Candidate
    BY <2>2 DEF CandidateOf, External, Candidate
  <2>4. cand' \in [Runs -> Candidate] /\ pc' \in [Runs -> PC]
    BY <1>6, <2>1, <2>3 DEF WorkerReturns, PC
  <2> QED BY <1>6, <2>4 DEF WorkerReturns
<1>7. CASE Audit(r)
  BY <1>7 DEF Audit, PC, External, Candidate
<1>8. CASE Verify(r)
  BY <1>8 DEF Verify, PC, WorkspaceHead, Head
<1>9. CASE RetryRepair(r)
  BY <1>9 DEF RetryRepair, PC, NoCand, NoVerification, Candidate
<1>10. CASE CheckHead(r) \/ Decline(r) \/ MergeFails(r)
  BY <1>10 DEF CheckHead, Decline, MergeFails, PC
<1>11. CASE Merge(r)
  BY <1>11 DEF Merge, PC
<1>12. CASE Seal(r)
  BY <1>12 DEF Seal, PC
<1>13. CASE FileReceipt(r) \/ RecordReceipt(r)
  <2>1. {ReceiptOf(r)} \in SUBSET Receipt
    BY ReceiptType
  <2>2. filed' \in [Runs -> SUBSET Receipt]
    BY <1>13, <2>1 DEF FileReceipt, RecordReceipt
  <2>3. pc' \in [Runs -> PC]
    BY <1>13 DEF FileReceipt, RecordReceipt, PC, Ended
  <2> QED BY <1>13, <2>2, <2>3 DEF FileReceipt, RecordReceipt
<1>14. CASE Abort(r) \/ Crash(r)
  BY <1>14 DEF Abort, Crash, PC, Ended
<1> QED
  BY <1>1, <1>2, <1>3, <1>4, <1>5, <1>6, <1>7, <1>8, <1>9, <1>10, <1>11, <1>12,
     <1>13, <1>14 DEF KernelStep

\* So does every step of a developer.
LEMMA RepoTypeOK ==
  ASSUME TypeOK, DevCommit \/ \E b \in Branches : Checkout(b)
  PROVE  TypeOK'
<1> USE KernelAssumption DEF TypeOK, disk
<1>1. CASE DevCommit
  BY <1>1 DEF DevCommit, Changes
<1>2. ASSUME NEW b \in Branches, Checkout(b) PROVE TypeOK'
  BY <1>2 DEF Checkout, Head
<1> QED BY <1>1, <1>2

LEMMA TypeStep ==
  ASSUME TypeOK, [Next]_vars
  PROVE  TypeOK'
<1>1. CASE UNCHANGED vars
  BY <1>1 DEF vars, TypeOK
<1> QED BY <1>1, RunTypeOK, RepoTypeOK DEF Next

\* Every variable always has its type.
THEOREM TypeCorrect == Spec => []TypeOK
<1>1. Init => TypeOK
  BY InitSound DEF Sound
<1>2. TypeOK /\ [Next]_vars => TypeOK'
  BY TypeStep
<1> QED BY <1>1, <1>2, PTL DEF Spec

-----------------------------------------------------------------------------
(***************************************************************************)
(* What a step leaves alone.                                               *)
(***************************************************************************)

\* Everything run s keeps for itself.
Keeps(s) ==
  /\ pc'[s] = pc[s] /\ run'[s] = run[s] /\ attempt'[s] = attempt[s]
  /\ workers'[s] = workers[s] /\ cand'[s] = cand[s] /\ verif'[s] = verif[s]
  /\ landed'[s] = landed[s] /\ sandbox'[s] = sandbox[s] /\ filed'[s] = filed[s]

\* A run writes nobody else's records, worktree or receipt.
LEMMA OthersKeep ==
  ASSUME TypeOK, NEW r \in Runs, KernelStep(r), NEW s \in Runs, s # r
  PROVE  Keeps(s)
<1> USE DEF TypeOK, Goto, repo, disk, Keeps
<1>1. CASE Create(r) \/ RecordRunCreated(r) \/ PrepareGoverned(r) \/ PrepareAudit(r)
  BY <1>1 DEF Create, RecordRunCreated, PrepareGoverned, PrepareAudit
<1>2. CASE WorkerCommits(r) \/ WorkerReturns(r) \/ Audit(r)
  BY <1>2 DEF WorkerCommits, WorkerReturns, Audit
<1>3. CASE Verify(r) \/ RetryRepair(r)
  BY <1>3 DEF Verify, RetryRepair
<1>4. CASE CheckHead(r) \/ Decline(r) \/ Merge(r) \/ MergeFails(r)
  BY <1>4 DEF CheckHead, Decline, Merge, MergeFails
<1>5. CASE Seal(r) \/ FileReceipt(r) \/ RecordReceipt(r) \/ Abort(r) \/ Crash(r)
  BY <1>5 DEF Seal, FileReceipt, RecordReceipt, Abort, Crash
<1> QED BY <1>1, <1>2, <1>3, <1>4, <1>5 DEF KernelStep

\* Developers write no run's records.
LEMMA DevelopersKeep ==
  ASSUME DevCommit \/ \E b \in Branches : Checkout(b), NEW s \in Runs
  PROVE  Keeps(s)
BY DEF DevCommit, Checkout, Keeps, disk

\* A run that does not create itself keeps its baseline.
LEMMA BaselineKept ==
  ASSUME TypeOK, NEW r \in Runs, KernelStep(r), ~Create(r)
  PROVE  run' = run
<1> USE DEF Goto, repo, disk
<1>1. CASE RecordRunCreated(r) \/ PrepareGoverned(r) \/ PrepareAudit(r)
  BY <1>1 DEF RecordRunCreated, PrepareGoverned, PrepareAudit
<1>2. CASE WorkerCommits(r) \/ WorkerReturns(r) \/ Audit(r) \/ Verify(r) \/ RetryRepair(r)
  BY <1>2 DEF WorkerCommits, WorkerReturns, Audit, Verify, RetryRepair
<1>3. CASE CheckHead(r) \/ Decline(r) \/ Merge(r) \/ MergeFails(r)
  BY <1>3 DEF CheckHead, Decline, Merge, MergeFails
<1>4. CASE Seal(r) \/ FileReceipt(r) \/ RecordReceipt(r) \/ Abort(r) \/ Crash(r)
  BY <1>4 DEF Seal, FileReceipt, RecordReceipt, Abort, Crash
<1> QED BY <1>1, <1>2, <1>3, <1>4 DEF KernelStep

\* Two steps of a run write a branch, a worker's commit outside a worktree and the
\* merge.
LEMMA BranchWriters ==
  ASSUME TypeOK, NEW r \in Runs, KernelStep(r)
  PROVE  \/ tip' = tip
         \/ /\ WorkerCommits(r) /\ sandbox[r] = {}
            /\ tip' = [tip EXCEPT ![current] = @ \cup {<<r, attempt[r]>>}]
         \/ Merge(r)
<1> USE DEF Goto, repo, disk
<1>1. CASE Create(r) \/ RecordRunCreated(r) \/ PrepareGoverned(r) \/ PrepareAudit(r)
  BY <1>1 DEF Create, RecordRunCreated, PrepareGoverned, PrepareAudit
<1>2. CASE WorkerCommits(r)
  BY <1>2 DEF WorkerCommits
<1>3. CASE WorkerReturns(r) \/ Audit(r) \/ Verify(r) \/ RetryRepair(r)
  BY <1>3 DEF WorkerReturns, Audit, Verify, RetryRepair
<1>4. CASE CheckHead(r) \/ Decline(r) \/ MergeFails(r)
  BY <1>4 DEF CheckHead, Decline, MergeFails
<1>5. CASE Seal(r) \/ FileReceipt(r) \/ RecordReceipt(r) \/ Abort(r) \/ Crash(r)
  BY <1>5 DEF Seal, FileReceipt, RecordReceipt, Abort, Crash
<1> QED BY <1>1, <1>2, <1>3, <1>4, <1>5 DEF KernelStep

\* A branch never loses a commit: git merges fast forward only, or not at all.
LEMMA TipsGrow ==
  ASSUME TypeOK, [Next]_vars, NEW b \in Branches
  PROVE  tip[b] \subseteq tip'[b]
<1>1. CASE UNCHANGED vars
  BY <1>1 DEF vars
<1>2. ASSUME NEW r \in Runs, KernelStep(r) PROVE tip[b] \subseteq tip'[b]
  <2>1. CASE tip' = tip
    BY <2>1
  <2>2. CASE tip' = [tip EXCEPT ![current] = @ \cup {<<r, attempt[r]>>}]
    BY <2>2 DEF TypeOK
  <2>3. CASE Merge(r)
    BY <2>3 DEF Merge, CanMerge, Head, TypeOK
  <2> QED BY <1>2, <2>1, <2>2, <2>3, BranchWriters
<1>3. CASE DevCommit
  BY <1>3 DEF DevCommit, TypeOK
<1>4. ASSUME NEW c \in Branches, Checkout(c) PROVE tip[b] \subseteq tip'[b]
  BY <1>4 DEF Checkout, TypeOK
<1> QED BY <1>1, <1>2, <1>3, <1>4 DEF Next

\* No step of anybody takes a commit off a branch.
THEOREM BranchesGrow == Spec => BranchesOnlyGrow
<1>1. TypeOK /\ [Next]_vars => [\A b \in Branches : tip[b] \subseteq tip'[b]]_vars
  BY TipsGrow
<1> QED BY <1>1, TypeCorrect, PTL DEF Spec, BranchesOnlyGrow

-----------------------------------------------------------------------------
(***************************************************************************)
(* The inductive invariant, one lemma for each of its parts.               *)
(***************************************************************************)

\* Past its first append a run is in the journal.
LEMMA JournaledBefore ==
  ASSUME Sound, NEW r \in Runs, KernelStep(r)
  PROVE  /\ journal \subseteq journal'
         /\ pc'[r] \in {"created", "aborted", "crashed"} \/ r \in journal'
<1> USE DEF Sound, TypeOK, JournalSound, Goto, repo, disk, Ended
<1>1. CASE Create(r) \/ RecordRunCreated(r)
  BY <1>1 DEF Create, RecordRunCreated
<1>2. CASE PrepareGoverned(r) \/ PrepareAudit(r) \/ WorkerCommits(r)
  BY <1>2 DEF PrepareGoverned, PrepareAudit, WorkerCommits
<1>3. CASE WorkerReturns(r) \/ Audit(r) \/ Verify(r) \/ RetryRepair(r)
  BY <1>3 DEF WorkerReturns, Audit, Verify, RetryRepair
<1>4. CASE CheckHead(r) \/ Decline(r) \/ Merge(r) \/ MergeFails(r)
  BY <1>4 DEF CheckHead, Decline, Merge, MergeFails
<1>5. CASE Seal(r) \/ FileReceipt(r) \/ RecordReceipt(r)
  BY <1>5 DEF Seal, FileReceipt, RecordReceipt
<1>6. CASE Abort(r) \/ Crash(r)
  BY <1>6 DEF Abort, Crash
<1> QED BY <1>1, <1>2, <1>3, <1>4, <1>5, <1>6 DEF KernelStep

\* How the worktree of a run comes about and what a step makes of it.
LEMMA WorktreeSteps ==
  ASSUME TypeOK, NEW r \in Runs, KernelStep(r)
  PROVE  \/ sandbox' = sandbox
         \/ PrepareGoverned(r) /\ sandbox'[r] = run[r].start
         \/ WorkerCommits(r) /\ sandbox[r] # {}
              /\ sandbox'[r] = sandbox[r] \cup {<<r, attempt[r]>>}
         \/ Seal(r) /\ sandbox'[r] = {}
<1> USE DEF TypeOK, Goto, repo, disk
<1>1. CASE Create(r) \/ RecordRunCreated(r) \/ PrepareAudit(r)
  BY <1>1 DEF Create, RecordRunCreated, PrepareAudit
<1>2. CASE PrepareGoverned(r) \/ WorkerCommits(r) \/ Seal(r)
  BY <1>2 DEF PrepareGoverned, WorkerCommits, Seal
<1>3. CASE WorkerReturns(r) \/ Audit(r) \/ Verify(r) \/ RetryRepair(r)
  BY <1>3 DEF WorkerReturns, Audit, Verify, RetryRepair
<1>4. CASE CheckHead(r) \/ Decline(r) \/ Merge(r) \/ MergeFails(r)
  BY <1>4 DEF CheckHead, Decline, Merge, MergeFails
<1>5. CASE FileReceipt(r) \/ RecordReceipt(r) \/ Abort(r) \/ Crash(r)
  BY <1>5 DEF FileReceipt, RecordReceipt, Abort, Crash
<1> QED BY <1>1, <1>2, <1>3, <1>4, <1>5 DEF KernelStep

\* A receipt is filed by one step only.
LEMMA ReceiptSteps ==
  ASSUME TypeOK, NEW r \in Runs, KernelStep(r)
  PROVE  \/ filed' = filed
         \/ FileReceipt(r) /\ filed'[r] = {ReceiptOf(r)}
<1> USE DEF TypeOK, Goto, repo, disk
<1>1. CASE Create(r) \/ RecordRunCreated(r) \/ PrepareGoverned(r) \/ PrepareAudit(r)
  BY <1>1 DEF Create, RecordRunCreated, PrepareGoverned, PrepareAudit
<1>2. CASE WorkerCommits(r) \/ WorkerReturns(r) \/ Audit(r) \/ Verify(r) \/ RetryRepair(r)
  BY <1>2 DEF WorkerCommits, WorkerReturns, Audit, Verify, RetryRepair
<1>3. CASE CheckHead(r) \/ Decline(r) \/ Merge(r) \/ MergeFails(r)
  BY <1>3 DEF CheckHead, Decline, Merge, MergeFails
<1>4. CASE Seal(r) \/ FileReceipt(r) \/ RecordReceipt(r) \/ Abort(r) \/ Crash(r)
  BY <1>4 DEF Seal, FileReceipt, RecordReceipt, Abort, Crash
<1> QED BY <1>1, <1>2, <1>3, <1>4 DEF KernelStep

\* Whose changes can be on a branch after a step.
LEMMA BranchAuthors ==
  ASSUME Sound, NEW r \in Runs, KernelStep(r), NEW s \in Runs, NEW b \in Branches,
         Has(s, tip'[b])
  PROVE  \/ Has(s, tip[b])
         \/ Merge(r) /\ Has(s, sandbox[r])
         \/ s = r /\ WorkerCommits(r) /\ sandbox[r] = {}
<1> USE DEF Sound, TypeOK
<1>1. CASE tip' = tip
  BY <1>1
<1>2. CASE /\ WorkerCommits(r) /\ sandbox[r] = {}
           /\ tip' = [tip EXCEPT ![current] = @ \cup {<<r, attempt[r]>>}]
  <2>1. tip'[b] \subseteq tip[b] \cup {<<r, attempt[r]>>}
    BY <1>2
  <2>2. \E change \in tip[b] \cup {<<r, attempt[r]>>} : change[1] = s
    BY <2>1 DEF Has
  <2> QED BY <1>2, <2>2 DEF Has
<1>3. CASE Merge(r)
  <2>1. tip'[b] = tip[b] \/ tip'[b] = sandbox[r]
    BY <1>3 DEF Merge
  <2> QED BY <1>3, <2>1 DEF Has
<1> QED BY <1>1, <1>2, <1>3, BranchWriters

\* Whose changes can be in the worktree of a run after its step.
LEMMA WorktreeAuthors ==
  ASSUME Sound, NEW r \in Runs, KernelStep(r), NEW s \in Runs, Has(s, sandbox'[r])
  PROVE  \/ Has(s, sandbox[r])
         \/ PrepareGoverned(r) /\ Has(s, run[r].start)
         \/ s = r /\ WorkerCommits(r)
<1> USE DEF Sound
<1>1. CASE sandbox' = sandbox
  BY <1>1
<1>2. CASE PrepareGoverned(r) /\ sandbox'[r] = run[r].start
  BY <1>2
<1>3. CASE WorkerCommits(r) /\ sandbox'[r] = sandbox[r] \cup {<<r, attempt[r]>>}
  <2>1. \E change \in sandbox[r] \cup {<<r, attempt[r]>>} : change[1] = s
    BY <1>3 DEF Has
  <2> QED BY <1>3, <2>1 DEF Has
<1>4. CASE sandbox'[r] = {}
  BY <1>4 DEF Has
<1> QED BY <1>1, <1>2, <1>3, <1>4, WorktreeSteps

LEMMA BaselineAuthors ==
  ASSUME Sound, NEW s \in Runs, NEW r \in Runs, Has(s, run[r].start)
  PROVE  \E b \in Branches : Has(s, tip[b])
BY DEF Sound, BaselineSound, Has

\* The journal stays ahead of what runs leave behind.
LEMMA JournalStep ==
  ASSUME Sound, NEW r \in Runs, KernelStep(r)
  PROVE  JournalSound'
<1> SUFFICES ASSUME NEW s \in Runs
             PROVE  /\ pc'[s] \notin {"idle", "created", "aborted", "crashed"} => s \in journal'
                    /\ sandbox'[s] # {} \/ filed'[s] # {} => s \in journal'
                    /\ \A b \in Branches : Has(s, tip'[b]) => s \in journal'
                    /\ \A t \in Runs : Has(s, sandbox'[t]) => s \in journal'
  BY DEF JournalSound, Has
<1> USE DEF Sound
<1>1. journal \subseteq journal'
  BY JournaledBefore
<1>2. WorkerCommits(r) \/ PrepareGoverned(r) \/ FileReceipt(r) => r \in journal
  BY DEF JournalSound, WorkerCommits, PrepareGoverned, FileReceipt, Goto
<1>3. pc'[s] \notin {"idle", "created", "aborted", "crashed"} => s \in journal'
  BY <1>1, JournaledBefore, OthersKeep DEF JournalSound, Keeps
<1>4. sandbox'[s] # {} => s \in journal'
  <2>1. CASE s = r
    BY <1>1, <1>2, <2>1, WorktreeSteps DEF JournalSound
  <2>2. CASE s # r
    BY <1>1, <2>2, OthersKeep DEF JournalSound, Keeps
  <2> QED BY <2>1, <2>2
<1>5. filed'[s] # {} => s \in journal'
  <2>1. CASE s = r
    BY <1>1, <1>2, <2>1, ReceiptSteps DEF JournalSound
  <2>2. CASE s # r
    BY <1>1, <2>2, OthersKeep DEF JournalSound, Keeps
  <2> QED BY <2>1, <2>2
<1>6. ASSUME NEW b \in Branches, Has(s, tip'[b]) PROVE s \in journal'
  BY <1>1, <1>2, <1>6, BranchAuthors DEF JournalSound
<1>7. ASSUME NEW t \in Runs, Has(s, sandbox'[t]) PROVE s \in journal'
  <2>1. CASE t = r
    BY <1>1, <1>2, <1>7, <2>1, WorktreeAuthors, BaselineAuthors DEF JournalSound
  <2>2. CASE t # r
    BY <1>1, <1>7, <2>2, OthersKeep DEF JournalSound, Keeps
  <2> QED BY <2>1, <2>2
<1> QED BY <1>3, <1>4, <1>5, <1>6, <1>7

\* A worktree holds the baseline and the run's own changes until it is destroyed.
LEMMA WorkspaceStep ==
  ASSUME Sound, NEW r \in Runs, KernelStep(r)
  PROVE  WorkspaceSound'
<1> DEFINE Good(s, p, own, x) ==
      /\ p = "idle" => own = {}
      /\ p \in {"working", "committed"} => x.mutate
      /\ p = "audit" => ~x.mutate
      /\ p \in {"working", "committed", "produced", "verified", "checked"}
           /\ x.mutate /\ x.start # {} => own # {}
      /\ own # {} => x.start # {} /\ x.start \subseteq own
      /\ \A change \in own : change \in x.start \/ change[1] = s
<1>1. \A s \in Runs : Good(s, pc[s], sandbox[s], run[s])
  BY DEF Sound, WorkspaceSound, IsGovernable
<1>2. SUFFICES ASSUME NEW s \in Runs PROVE Good(s, pc'[s], sandbox'[s], run'[s])
  BY DEF WorkspaceSound, IsGovernable
<1>3. CASE s # r
  <2> HIDE DEF Good
  <2> QED BY <1>1, <1>3, OthersKeep DEF Sound, Keeps
<1>4. CASE s = r
  <2> USE <1>4, <1>1 DEF Sound, TypeOK, Goto, repo, disk, Ended
  <2>1. CASE Create(r)
    BY <2>1 DEF Create
  <2>2. CASE RecordRunCreated(r)
    BY <2>2 DEF RecordRunCreated
  <2>3. CASE PrepareGoverned(r)
    BY <2>3 DEF PrepareGoverned, IsGovernable
  <2>4. CASE PrepareAudit(r)
    BY <2>4 DEF PrepareAudit, IsGovernable
  <2>5. CASE WorkerCommits(r)
    <3>1. CASE sandbox[r] = {}
      BY <2>5, <3>1 DEF WorkerCommits
    <3>2. CASE sandbox[r] # {}
      <4>1. /\ sandbox'[r] = sandbox[r] \cup {<<r, attempt[r]>>}
            /\ pc[r] = "working" /\ pc'[r] = "committed" /\ run' = run
        BY <2>5, <3>2 DEF WorkerCommits
      <4> QED BY <3>2, <4>1
    <3> QED BY <3>1, <3>2
  <2>6. CASE WorkerReturns(r)
    BY <2>6 DEF WorkerReturns
  <2>7. CASE Audit(r)
    BY <2>7 DEF Audit
  <2>8. CASE Verify(r)
    BY <2>8 DEF Verify
  <2>9. CASE RetryRepair(r)
    BY <2>9 DEF RetryRepair
  <2>10. CASE CheckHead(r) \/ Decline(r)
    <3>1. /\ pc[r] = "verified" /\ pc'[r] \in {"checked", "judged"}
          /\ sandbox' = sandbox /\ run' = run
      BY <2>10 DEF CheckHead, Decline
    <3> QED BY <3>1
  <2>11. CASE Merge(r) \/ MergeFails(r)
    BY <2>11 DEF Merge, MergeFails
  <2>12. CASE Seal(r) \/ FileReceipt(r) \/ RecordReceipt(r)
    <3>1. /\ pc'[r] \in {"sealed", "filed", "done"} /\ run' = run
          /\ sandbox'[r] = sandbox[r] \/ sandbox'[r] = {}
      BY <2>12 DEF Seal, FileReceipt, RecordReceipt
    <3> QED BY <3>1
  <2>13. CASE Abort(r) \/ Crash(r)
    <3>1. pc'[r] \in {"aborted", "crashed"} /\ sandbox' = sandbox /\ run' = run
      BY <2>13 DEF Abort, Crash
    <3> QED BY <3>1
  <2> QED BY <2>1, <2>2, <2>3, <2>4, <2>5, <2>6, <2>7, <2>8, <2>9, <2>10, <2>11,
             <2>12, <2>13 DEF KernelStep
<1> QED BY <1>3, <1>4

\* A governed candidate stays a commit of its worktree, and the worktree the tested
\* one, while it is judged.
LEMMA CandidateStep ==
  ASSUME Sound, NEW r \in Runs, KernelStep(r)
  PROVE  CandidateSound'
<1> DEFINE Good(p, own, x, c, v) ==
      /\ p = "idle" => c = NoCand
      /\ c.kind = "GOVERNED" =>
           /\ x.start \subseteq c.sha /\ c.sha # x.start
           /\ p \in {"produced", "verified", "checked"} => own # {} /\ c.sha \subseteq own
           /\ p \in {"verified", "checked"} => v.tree = own
      /\ p = "checked" => v.verdict = "PASS" /\ c.kind = "GOVERNED"
<1>1. \A s \in Runs : Good(pc[s], sandbox[s], run[s], cand[s], verif[s])
  BY DEF Sound, CandidateSound, IsGoverned, IsVerified
<1>2. SUFFICES ASSUME NEW s \in Runs
               PROVE  Good(pc'[s], sandbox'[s], run'[s], cand'[s], verif'[s])
  BY DEF CandidateSound, IsGoverned, IsVerified
<1>3. CASE s # r
  <2> HIDE DEF Good
  <2> QED BY <1>1, <1>3, OthersKeep DEF Sound, Keeps
<1>4. CASE s = r
  <2> USE <1>4, <1>1 DEF Sound, TypeOK, Goto, repo, disk, Ended
  <2>1. CASE Create(r)
    BY <2>1 DEF Create, NoCand
  <2>2. CASE RecordRunCreated(r)
    BY <2>2 DEF RecordRunCreated
  <2>3. CASE PrepareGoverned(r)
    BY <2>3 DEF PrepareGoverned
  <2>4. CASE PrepareAudit(r)
    BY <2>4 DEF PrepareAudit
  <2>5. CASE WorkerCommits(r)
    BY <2>5 DEF WorkerCommits
  <2>6. CASE WorkerReturns(r)
    <3>1. PICK success \in BOOLEAN, sha \in ReportedHeads(r) :
            cand'[r] = CandidateOf(r, success, sha)
      BY <2>6 DEF WorkerReturns
    <3>2. pc'[r] = "produced" /\ run' = run /\ sandbox' = sandbox
      BY <2>6 DEF WorkerReturns
    <3>3. ASSUME sandbox[r] # {}
          PROVE  run[r].start \subseteq sha /\ sha \subseteq sandbox[r]
      <4>1. /\ run[r].start \subseteq sandbox[r]
            /\ \A change \in run[r].start : change[1] # r
        BY <3>3 DEF WorkspaceSound, BaselineSound, Has
      <4>2. sha \in {sandbox[r], sandbox[r] \ {<<r, attempt[r]>>}, run[r].start}
        BY <3>1, <3>3 DEF ReportedHeads, HeadBefore, WorkspaceHead
      <4>3. <<r, attempt[r]>> \notin run[r].start
        BY <4>1
      <4> QED BY <4>1, <4>2, <4>3
    <3> QED BY <3>1, <3>2, <3>3 DEF CandidateOf, External
  <2>7. CASE Audit(r)
    BY <2>7 DEF Audit, External
  <2>8. CASE Verify(r)
    BY <2>8 DEF Verify, WorkspaceHead
  <2>9. CASE RetryRepair(r)
    BY <2>9 DEF RetryRepair, NoCand
  <2>10. CASE CheckHead(r) \/ Decline(r)
    BY <2>10 DEF CheckHead, Decline, IsVerified, IsGoverned
  <2>11. CASE Merge(r) \/ MergeFails(r)
    BY <2>11 DEF Merge, MergeFails
  <2>12. CASE Seal(r) \/ FileReceipt(r) \/ RecordReceipt(r)
    BY <2>12 DEF Seal, FileReceipt, RecordReceipt
  <2>13. CASE Abort(r) \/ Crash(r)
    BY <2>13 DEF Abort, Crash
  <2> QED BY <2>1, <2>2, <2>3, <2>4, <2>5, <2>6, <2>7, <2>8, <2>9, <2>10, <2>11,
             <2>12, <2>13 DEF KernelStep
<1> QED BY <1>3, <1>4

\* From the merge on, a run's records of its verdict do not change.
LEMMA JudgedKeeps ==
  ASSUME Sound, NEW r \in Runs, KernelStep(r),
         pc[r] \in {"judged", "sealed", "filed"} \cup Ended
  PROVE  /\ pc'[r] \in {"judged", "sealed", "filed"} \cup Ended
         /\ run'[r] = run[r] /\ workers'[r] = workers[r] /\ cand'[r] = cand[r]
         /\ verif'[r] = verif[r] /\ landed'[r] = landed[r] /\ tip' = tip
<1> USE DEF Sound, TypeOK, Goto, repo, disk, Ended
<1>1. CASE Create(r) \/ RecordRunCreated(r) \/ PrepareGoverned(r) \/ PrepareAudit(r)
  BY <1>1 DEF Create, RecordRunCreated, PrepareGoverned, PrepareAudit
<1>2. CASE WorkerCommits(r) \/ WorkerReturns(r) \/ Audit(r) \/ Verify(r) \/ RetryRepair(r)
  BY <1>2 DEF WorkerCommits, WorkerReturns, Audit, Verify, RetryRepair
<1>3. CASE CheckHead(r) \/ Decline(r) \/ Merge(r) \/ MergeFails(r)
  BY <1>3 DEF CheckHead, Decline, Merge, MergeFails
<1>4. CASE Seal(r) \/ FileReceipt(r) \/ RecordReceipt(r)
  BY <1>4 DEF Seal, FileReceipt, RecordReceipt
<1>5. CASE Abort(r) \/ Crash(r)
  BY <1>5 DEF Abort, Crash
<1> QED BY <1>1, <1>2, <1>3, <1>4, <1>5 DEF KernelStep

\* Only the merge promotes.
LEMMA PromotionSteps ==
  ASSUME TypeOK, NEW r \in Runs, KernelStep(r)
  PROVE  landed' = landed \/ Merge(r)
<1> USE DEF Goto, repo, disk
<1>1. CASE Create(r) \/ RecordRunCreated(r) \/ PrepareGoverned(r) \/ PrepareAudit(r)
  BY <1>1 DEF Create, RecordRunCreated, PrepareGoverned, PrepareAudit
<1>2. CASE WorkerCommits(r) \/ WorkerReturns(r) \/ Audit(r) \/ Verify(r) \/ RetryRepair(r)
  BY <1>2 DEF WorkerCommits, WorkerReturns, Audit, Verify, RetryRepair
<1>3. CASE CheckHead(r) \/ Decline(r) \/ MergeFails(r)
  BY <1>3 DEF CheckHead, Decline, MergeFails
<1>4. CASE Seal(r) \/ FileReceipt(r) \/ RecordReceipt(r) \/ Abort(r) \/ Crash(r)
  BY <1>4 DEF Seal, FileReceipt, RecordReceipt, Abort, Crash
<1> QED BY <1>1, <1>2, <1>3, <1>4 DEF KernelStep

\* The merge puts the tested commit on the branch that is checked out.
LEMMA MergeLands ==
  ASSUME Sound, NEW r \in Runs, Merge(r)
  PROVE  /\ IsVerified(r) /\ IsGoverned(r) /\ verif[r].tree = sandbox[r]
         /\ cand[r].sha \subseteq sandbox[r] /\ sandbox[r] # run[r].start
         /\ sandbox[r] # {} /\ run[r].start # {}
         /\ landed'[r] = {current} /\ sandbox[r] \subseteq tip'[current]
         /\ \A b \in Branches : tip'[b] = tip[b] \/ tip'[b] = sandbox[r]
         /\ pc'[r] = "judged" /\ cand' = cand /\ verif' = verif /\ run' = run
<1>1. pc[r] = "checked" /\ pc'[r] = "judged"
  BY DEF Merge, Goto, Sound, TypeOK
<1>2. IsVerified(r) /\ IsGoverned(r)
  BY <1>1 DEF Sound, CandidateSound
<1>3. /\ verif[r].tree = sandbox[r] /\ cand[r].sha \subseteq sandbox[r] /\ sandbox[r] # {}
      /\ run[r].start \subseteq cand[r].sha /\ cand[r].sha # run[r].start
  BY <1>1, <1>2 DEF Sound, CandidateSound
<1>4. run[r].start # {}
  BY <1>3 DEF Sound, WorkspaceSound
<1>5. /\ landed'[r] = {current} /\ sandbox[r] \subseteq tip'[current]
      /\ \A b \in Branches : tip'[b] = tip[b] \/ tip'[b] = sandbox[r]
  BY DEF Merge, Sound, TypeOK
<1>6. cand' = cand /\ verif' = verif /\ run' = run
  BY DEF Merge
<1> QED BY <1>1, <1>2, <1>3, <1>4, <1>5, <1>6

\* Where a change of run s comes from that is on a branch after a step of run q.
LEMMA RunsBring ==
  ASSUME Sound, NEW q \in Runs, KernelStep(q),
         NEW s \in Runs, NEW b \in Branches, NEW change \in tip'[b], change[1] = s
  PROVE  \/ \E d \in Branches : change \in tip[d]
         \/ s = q /\ Merge(q) /\ change \in sandbox[q]
         \/ s = q /\ WorkerCommits(q) /\ sandbox[q] = {}
<1> USE DEF Sound, TypeOK
<1>1. CASE tip' = tip
  BY <1>1
<1>2. CASE /\ WorkerCommits(q) /\ sandbox[q] = {}
           /\ tip' = [tip EXCEPT ![current] = @ \cup {<<q, attempt[q]>>}]
  <2>1. change \in tip[b] \/ change = <<q, attempt[q]>>
    BY <1>2
  <2> QED BY <1>2, <2>1
<1>3. CASE Merge(q)
  <2>1. tip'[b] = tip[b] \/ tip'[b] = sandbox[q]
    BY <1>3, MergeLands
  <2>2. CASE s # q /\ change \in sandbox[q]
    <3>1. change \in run[q].start
      BY <2>2 DEF WorkspaceSound
    <3> QED BY <3>1 DEF BaselineSound
  <2> QED BY <1>3, <2>1, <2>2
<1> QED BY <1>1, <1>2, <1>3, BranchWriters

\* What is promoted was tested, stays on its branch, and no other change of the run
\* comes to any branch.
LEMMA PromotionStep ==
  ASSUME Sound, NEW r \in Runs, KernelStep(r)
  PROVE  PromotionSound'
<1> SUFFICES ASSUME NEW s \in Runs, landed'[s] # {}
             PROVE  /\ pc'[s] \in {"judged", "sealed", "filed"} \cup Ended
                    /\ verif'[s].verdict = "PASS" /\ cand'[s].kind = "GOVERNED"
                    /\ cand'[s].sha \subseteq verif'[s].tree
                    /\ run'[s].start # {}
                    /\ \A b \in landed'[s] : verif'[s].tree \subseteq tip'[b]
                    /\ \A b \in Branches : \A change \in tip'[b] :
                         change[1] = s => change \in verif'[s].tree
  BY DEF PromotionSound, Promoted, IsVerified, IsGoverned, On
<1>1. /\ TypeOK
      /\ \A b \in Branches : tip[b] \subseteq tip'[b]
      /\ landed[s] \subseteq Branches
  BY TipsGrow DEF Sound, Next, TypeOK
<1>2. ASSUME landed[s] # {}
      PROVE  /\ pc[s] \in {"judged", "sealed", "filed"} \cup Ended
             /\ verif[s].verdict = "PASS" /\ cand[s].kind = "GOVERNED"
             /\ cand[s].sha \subseteq verif[s].tree
             /\ run[s].start # {}
             /\ \A b \in landed[s] : verif[s].tree \subseteq tip[b]
             /\ \A b \in Branches : \A change \in tip'[b] :
                  change[1] = s => change \in verif[s].tree
  <2>1. /\ pc[s] \in {"judged", "sealed", "filed"} \cup Ended
        /\ verif[s].verdict = "PASS" /\ cand[s].kind = "GOVERNED"
        /\ cand[s].sha \subseteq verif[s].tree
        /\ run[s].start # {}
        /\ \A b \in landed[s] : verif[s].tree \subseteq tip[b]
    BY <1>2 DEF Sound, PromotionSound, Promoted, IsVerified, IsGoverned
  <2>2. ASSUME NEW d \in Branches, NEW change \in tip[d], change[1] = s
        PROVE  change \in verif[s].tree
    <3>1. On(s, d) \subseteq verif[s].tree
      BY <1>2 DEF Sound, PromotionSound, Promoted
    <3> QED BY <2>2, <3>1 DEF On
  <2>3. ASSUME NEW b \in Branches, NEW change \in tip'[b], change[1] = s
        PROVE  \E d \in Branches : change \in tip[d]
    <3>1. s = r => ~Merge(r) /\ ~WorkerCommits(r)
      BY <2>1 DEF Merge, WorkerCommits, Goto, Ended
    <3> QED BY <2>3, <3>1, RunsBring
  <2> QED BY <2>1, <2>2, <2>3
<1>3. CASE s # r
  <2>1. Keeps(s)
    BY <1>1, <1>3, OthersKeep
  <2> QED BY <1>1, <1>2, <2>1 DEF Keeps
<1>4. CASE s = r /\ Merge(r)
  <2>1. landed[r] = {}
    <3>1. pc[r] = "checked"
      BY <1>4 DEF Merge, Goto
    <3> QED BY <3>1 DEF Sound, PromotionSound, Promoted, Ended
  <2>2. \A b \in Branches : \A change \in tip[b] : change[1] # r
    BY <1>4, <2>1, MergeLands DEF Sound, PrivacySound, Promoted, Has
  <2> QED BY <1>4, <2>2, MergeLands DEF IsVerified, IsGoverned
<1>5. CASE s = r /\ landed' = landed
  <2>1. /\ pc'[r] \in {"judged", "sealed", "filed"} \cup Ended
        /\ cand'[r] = cand[r] /\ verif'[r] = verif[r] /\ run'[r] = run[r]
    BY <1>2, <1>5, JudgedKeeps
  <2> QED BY <1>1, <1>2, <1>5, <2>1
<1> QED BY <1>1, <1>3, <1>4, <1>5, PromotionSteps

\* A receipt depends on its own run's records only.
LEMMA ReceiptStable ==
  ASSUME NEW s, run'[s] = run[s], workers'[s] = workers[s], cand'[s] = cand[s],
         verif'[s] = verif[s], landed'[s] = landed[s]
  PROVE  ReceiptOf(s)' = ReceiptOf(s)
<1>1. HasContract(s)' = HasContract(s) /\ FinalContract(s)' = FinalContract(s)
  BY DEF HasContract, FinalContract
<1>2. ObjectiveSatisfied(s)' = ObjectiveSatisfied(s)
  BY <1>1 DEF ObjectiveSatisfied
<1>3. /\ IsVerified(s)' = IsVerified(s) /\ IsGoverned(s)' = IsGoverned(s)
      /\ Promoted(s)' = Promoted(s)
  BY DEF IsVerified, IsGoverned, Promoted
<1>4. FinalStatus(s)' = FinalStatus(s)
  BY <1>2, <1>3 DEF FinalStatus
<1> QED BY <1>1, <1>2, <1>3, <1>4 DEF ReceiptOf

\* A filed receipt goes on to say what its run is.
LEMMA ReceiptsStep ==
  ASSUME Sound, NEW r \in Runs, KernelStep(r)
  PROVE  ReceiptsSound'
<1> SUFFICES ASSUME NEW s \in Runs, filed'[s] # {}
             PROVE  pc'[s] \in {"filed"} \cup Ended /\ filed'[s] = {ReceiptOf(s)'}
  BY DEF ReceiptsSound
<1>1. filed[s] # {} => pc[s] \in {"filed"} \cup Ended /\ filed[s] = {ReceiptOf(s)}
  BY DEF Sound, ReceiptsSound
<1>2. CASE s # r
  <2>1. Keeps(s)
    BY <1>2, OthersKeep DEF Sound
  <2>2. ReceiptOf(s)' = ReceiptOf(s)
    BY <2>1, ReceiptStable DEF Keeps
  <2> QED BY <1>1, <2>1, <2>2 DEF Keeps
<1>3. CASE s = r /\ FileReceipt(r)
  <2>1. /\ filed'[r] = {ReceiptOf(r)} /\ pc'[r] = "filed"
        /\ UNCHANGED <<run, workers, cand, verif, landed>>
    BY <1>3 DEF FileReceipt, Goto, Sound, TypeOK
  <2>2. ReceiptOf(r)' = ReceiptOf(r)
    BY <2>1, ReceiptStable
  <2> QED BY <1>3, <2>1, <2>2
<1>4. CASE s = r /\ filed' = filed
  <2>1. pc[r] \in {"filed"} \cup Ended
    BY <1>1, <1>4
  <2>2. ReceiptOf(r)' = ReceiptOf(r)
    BY <2>1, JudgedKeeps, ReceiptStable
  <2>3. pc'[r] \in {"filed"} \cup Ended
    <3> USE <2>1 DEF Sound, TypeOK, Goto, Ended
    <3>1. CASE Create(r) \/ RecordRunCreated(r) \/ PrepareGoverned(r) \/ PrepareAudit(r)
      BY <3>1 DEF Create, RecordRunCreated, PrepareGoverned, PrepareAudit
    <3>2. CASE \/ WorkerCommits(r) \/ WorkerReturns(r) \/ Audit(r) \/ Verify(r)
               \/ RetryRepair(r)
      BY <3>2 DEF WorkerCommits, WorkerReturns, Audit, Verify, RetryRepair
    <3>3. CASE CheckHead(r) \/ Decline(r) \/ Merge(r) \/ MergeFails(r)
      BY <3>3 DEF CheckHead, Decline, Merge, MergeFails
    <3>4. CASE Seal(r) \/ FileReceipt(r) \/ RecordReceipt(r)
      BY <3>4 DEF Seal, FileReceipt, RecordReceipt
    <3>5. CASE Abort(r) \/ Crash(r)
      BY <3>5 DEF Abort, Crash
    <3> QED BY <3>1, <3>2, <3>3, <3>4, <3>5 DEF KernelStep
  <2> QED BY <1>1, <1>4, <2>2, <2>3
<1> QED BY <1>2, <1>3, <1>4, ReceiptSteps DEF Sound

\* The changes of a run with a baseline are its own until it promotes them.
LEMMA PrivacyStep ==
  ASSUME Sound, NEW r \in Runs, KernelStep(r)
  PROVE  PrivacySound'
<1> SUFFICES ASSUME NEW s \in Runs, pc'[s] = "idle" \/ run'[s].start # {}, landed'[s] = {}
             PROVE  /\ \A b \in Branches : ~Has(s, tip'[b])
                    /\ \A t \in Runs \ {s} : ~Has(s, sandbox'[t]) /\ ~Has(s, run'[t].start)
  BY DEF PrivacySound, Promoted, Has
<1> USE DEF Sound
<1>1. landed[s] = {} /\ ~(s = r /\ Merge(r))
  BY PromotionSteps, OthersKeep, MergeLands DEF Keeps
<1>2. pc[s] = "idle" \/ run[s].start # {}
  <2>1. CASE s # r
    BY <2>1, OthersKeep DEF Keeps
  <2>2. CASE s = r /\ Create(r)
    BY <2>2 DEF Create, Goto
  <2>3. CASE s = r /\ run' = run
    <3>1. pc'[r] # "idle"
      <4> USE DEF TypeOK, Goto
      <4>1. CASE Create(r) \/ RecordRunCreated(r) \/ PrepareGoverned(r) \/ PrepareAudit(r)
        BY <4>1 DEF Create, RecordRunCreated, PrepareGoverned, PrepareAudit
      <4>2. CASE \/ WorkerCommits(r) \/ WorkerReturns(r) \/ Audit(r) \/ Verify(r)
                 \/ RetryRepair(r)
        BY <4>2 DEF WorkerCommits, WorkerReturns, Audit, Verify, RetryRepair
      <4>3. CASE CheckHead(r) \/ Decline(r) \/ Merge(r) \/ MergeFails(r)
        BY <4>3 DEF CheckHead, Decline, Merge, MergeFails
      <4>4. CASE Seal(r) \/ FileReceipt(r) \/ RecordReceipt(r) \/ Abort(r) \/ Crash(r)
        BY <4>4 DEF Seal, FileReceipt, RecordReceipt, Abort, Crash
      <4> QED BY <4>1, <4>2, <4>3, <4>4 DEF KernelStep
    <3> QED BY <2>3, <3>1
  <2> QED BY <2>1, <2>2, <2>3, BaselineKept
<1>3. /\ \A b \in Branches : ~Has(s, tip[b])
      /\ \A t \in Runs \ {s} : ~Has(s, sandbox[t]) /\ ~Has(s, run[t].start)
  BY <1>1, <1>2 DEF PrivacySound, Promoted
<1>4. ASSUME NEW b \in Branches PROVE ~Has(s, tip'[b])
  <2>1. CASE s = r
    <3>1. ~(WorkerCommits(r) /\ sandbox[r] = {})
      BY <1>2, <2>1 DEF WorkspaceSound, IsGovernable, WorkerCommits, Goto
    <3> QED BY <1>1, <1>3, <2>1, <3>1, BranchAuthors
  <2>2. CASE s # r
    BY <1>3, <2>2, BranchAuthors
  <2> QED BY <2>1, <2>2
<1>5. ASSUME NEW t \in Runs \ {s} PROVE ~Has(s, sandbox'[t])
  <2>1. CASE t = r
    BY <1>3, <1>5, <2>1, WorktreeAuthors
  <2>2. CASE t # r
    BY <1>3, <1>5, <2>2, OthersKeep DEF Keeps
  <2> QED BY <2>1, <2>2
<1>6. ASSUME NEW t \in Runs \ {s} PROVE ~Has(s, run'[t].start)
  <2>1. CASE t = r /\ Create(r)
    <3>1. (run'[r].start = tip[current] \/ run'[r].start = {}) /\ current \in Branches
      BY <2>1 DEF Create, ResolvedHeads, Head, TypeOK
    <3> QED BY <1>3, <2>1, <3>1 DEF Has
  <2>2. CASE run' = run
    BY <1>3, <2>2
  <2>3. CASE t # r
    BY <1>3, <1>6, <2>3, OthersKeep DEF Keeps
  <2> QED BY <2>1, <2>2, <2>3, BaselineKept
<1> QED BY <1>4, <1>5, <1>6

\* The commit a run started from is not taken off its branch.
LEMMA BaselineStep ==
  ASSUME Sound, NEW r \in Runs, KernelStep(r)
  PROVE  BaselineSound'
<1> SUFFICES ASSUME NEW s \in Runs
             PROVE  /\ ~Has(s, run'[s].start)
                    /\ \E b \in Branches : run'[s].start \subseteq tip'[b]
  BY DEF BaselineSound, Has
<1> USE DEF Sound
<1>1. \A b \in Branches : tip[b] \subseteq tip'[b]
  BY TipsGrow DEF Next
<1>2. ~Has(s, run[s].start) /\ \E b \in Branches : run[s].start \subseteq tip[b]
  BY DEF BaselineSound
<1>3. CASE s # r
  BY <1>1, <1>2, <1>3, OthersKeep DEF Keeps
<1>4. CASE s = r /\ Create(r)
  <2>1. (run'[r].start = tip[current] \/ run'[r].start = {}) /\ current \in Branches
    BY <1>4 DEF Create, ResolvedHeads, Head, TypeOK
  <2>2. pc[r] = "idle" /\ ~Promoted(r)
    BY <1>4 DEF Create, Goto, PromotionSound, Ended
  <2>3. ~Has(r, tip[current])
    BY <2>1, <2>2 DEF PrivacySound
  <2>4. ~Has(r, {})
    BY DEF Has
  <2> QED BY <1>1, <1>4, <2>1, <2>3, <2>4
<1>5. CASE run' = run
  BY <1>1, <1>2, <1>5
<1> QED BY <1>3, <1>4, <1>5, BaselineKept

\* A step of a developer brings no change of a run to a branch that was on none.
LEMMA DevelopersBring ==
  ASSUME Sound, DevCommit \/ \E b \in Branches : Checkout(b),
         NEW s \in Runs, NEW b \in Branches, NEW change \in tip'[b], change[1] = s
  PROVE  \E d \in Branches : change \in tip[d]
<1> USE DEF Sound, TypeOK
<1>1. CASE DevCommit
  <2>1. change \in tip[b] \/ change = <<Dev, devs + 1>>
    BY <1>1 DEF DevCommit
  <2> QED BY <2>1, KernelAssumption
<1>2. ASSUME NEW c \in Branches, Checkout(c) PROVE \E d \in Branches : change \in tip[d]
  BY <1>2 DEF Checkout, Head
<1> QED BY <1>1, <1>2

\* Every process of the middle of a run may rely on Sound while developers work.
LEMMA DevelopersSound ==
  ASSUME Sound, DevCommit \/ \E b \in Branches : Checkout(b)
  PROVE  Sound'
<1>1. /\ \A s \in Runs : Keeps(s) /\ ReceiptOf(s)' = ReceiptOf(s)
      /\ journal' = journal
  <2>1. \A s \in Runs : Keeps(s)
    BY DevelopersKeep
  <2>2. \A s \in Runs : ReceiptOf(s)' = ReceiptOf(s)
    BY <2>1, ReceiptStable DEF Keeps
  <2>3. journal' = journal
    BY DEF DevCommit, Checkout, disk
  <2> QED BY <2>1, <2>2, <2>3
<1>2. \A b \in Branches : tip[b] \subseteq tip'[b]
  BY TipsGrow DEF Next, Sound
<1>3. \A s \in Runs, b \in Branches : Has(s, tip'[b]) => \E d \in Branches : Has(s, tip[d])
  BY DevelopersBring DEF Has
<1>4. TypeOK'
  BY RepoTypeOK DEF Sound
<1>5. JournalSound'
  BY <1>1, <1>3 DEF Sound, JournalSound, Keeps, Has
<1>6. WorkspaceSound'
  BY <1>1 DEF Sound, WorkspaceSound, Keeps, IsGovernable
<1>7. CandidateSound'
  BY <1>1 DEF Sound, CandidateSound, Keeps, IsGoverned, IsVerified
<1>8. PromotionSound'
  <2> SUFFICES ASSUME NEW s \in Runs, landed'[s] # {}
               PROVE  /\ pc'[s] \in {"judged", "sealed", "filed"} \cup Ended
                      /\ verif'[s].verdict = "PASS" /\ cand'[s].kind = "GOVERNED"
                      /\ cand'[s].sha \subseteq verif'[s].tree
                      /\ run'[s].start # {}
                      /\ \A b \in landed'[s] : verif'[s].tree \subseteq tip'[b]
                      /\ \A b \in Branches : \A change \in tip'[b] :
                           change[1] = s => change \in verif'[s].tree
    BY DEF PromotionSound, Promoted, IsVerified, IsGoverned, On
  <2>1. landed[s] \subseteq Branches /\ landed[s] # {} /\ Keeps(s)
    BY <1>1 DEF Sound, TypeOK, Keeps
  <2>2. ASSUME NEW b \in Branches, NEW change \in tip'[b], change[1] = s
        PROVE  change \in verif[s].tree
    <3>1. PICK d \in Branches : change \in tip[d]
      BY <2>2, DevelopersBring
    <3>2. On(s, d) \subseteq verif[s].tree
      BY <2>1 DEF Sound, PromotionSound, Promoted
    <3> QED BY <2>2, <3>1, <3>2 DEF On
  <2> QED BY <1>2, <2>1, <2>2
          DEF Sound, PromotionSound, Promoted, IsVerified, IsGoverned, Keeps
<1>9. ReceiptsSound'
  BY <1>1 DEF Sound, ReceiptsSound, Keeps
<1>10. PrivacySound'
  BY <1>1, <1>3 DEF Sound, PrivacySound, Promoted, Has, Keeps
<1>11. BaselineSound'
  BY <1>1, <1>2 DEF Sound, BaselineSound, Keeps, Has
<1> QED BY <1>4, <1>5, <1>6, <1>7, <1>8, <1>9, <1>10, <1>11 DEF Sound

LEMMA SoundStep ==
  ASSUME Sound, [Next]_vars
  PROVE  Sound'
<1>1. CASE UNCHANGED vars
  <2> USE <1>1 DEF vars
  <2>1. TypeOK' /\ JournalSound' /\ WorkspaceSound'
    BY DEF Sound, TypeOK, JournalSound, WorkspaceSound, IsGovernable, Has
  <2>2. CandidateSound' /\ PromotionSound'
    BY DEF Sound, CandidateSound, PromotionSound, IsGoverned, IsVerified, Promoted, On
  <2>3. ReceiptsSound'
    BY ReceiptStable DEF Sound, ReceiptsSound
  <2>4. PrivacySound' /\ BaselineSound'
    BY DEF Sound, PrivacySound, BaselineSound, Promoted, Has
  <2> QED BY <2>1, <2>2, <2>3, <2>4 DEF Sound
<1>2. ASSUME NEW r \in Runs, KernelStep(r) PROVE Sound'
  <2>1. TypeOK'
    BY <1>2, RunTypeOK DEF Sound
  <2> QED BY <1>2, <2>1, JournalStep, WorkspaceStep, CandidateStep, PromotionStep,
             ReceiptsStep, PrivacyStep, BaselineStep DEF Sound
<1> QED BY <1>1, <1>2, DevelopersSound DEF Next

\* What every process in the middle of a run may rely on always holds.
THEOREM Soundness == Spec => []Sound
BY InitSound, SoundStep, PTL DEF Spec

-----------------------------------------------------------------------------
(***************************************************************************)
(* What follows from it.                                                   *)
(***************************************************************************)

\* Write-ahead: nothing of a run is left anywhere that the journal does not know.
THEOREM JournalComesFirst == Spec => []EffectsAreJournaled
<1>1. Sound => EffectsAreJournaled
  BY DEF Sound, JournalSound, EffectsAreJournaled, On, Has
<1> QED BY <1>1, Soundness, PTL

\* What a promoted receipt stands for was tested: the merged commit is the one the last
\* test ran on, it passed, and no other change of the run is on a branch.
THEOREM PromotedIsTested == Spec => []PromotedWasTested
<1>1. Sound => PromotedWasTested
  <2> SUFFICES ASSUME Sound, NEW r \in Runs, NEW receipt \in filed[r], receipt.promoted
               PROVE  /\ verif[r].verdict = "PASS"
                      /\ \E b \in Branches : verif[r].tree \subseteq tip[b]
                      /\ \A b \in Branches : On(r, b) \subseteq verif[r].tree
                      /\ receipt.cand.sha \subseteq verif[r].tree
    BY DEF PromotedWasTested
  <2>1. receipt = ReceiptOf(r)
    BY DEF Sound, ReceiptsSound
  <2>2. Promoted(r) /\ receipt.cand = cand[r]
    BY <2>1 DEF ReceiptOf
  <2>3. landed[r] # {} /\ landed[r] \subseteq Branches
    BY <2>2 DEF Promoted, Sound, TypeOK
  <2> QED BY <2>2, <2>3 DEF Sound, PromotionSound, IsVerified
<1> QED BY <1>1, Soundness, PTL

\* The sealing code and predicate.rs agree on every receipt that is not refused, and a
\* refused one counts for nothing.
THEOREM EvaluationsAgree == Spec => []PredicatesAgree
<1>1. Sound => PredicatesAgree
  <2> SUFFICES ASSUME Sound, NEW r \in Runs, NEW receipt \in filed[r]
               PROVE  /\ ProductionValid(r, receipt) <=> receipt.custody /\ ~Refused(receipt)
                      /\ Accomplished(r, receipt) <=>
                           receipt.authorized /\ ~Refused(receipt)
                      /\ receipt.authorized <=> receipt.status = "VERIFIED_SUCCESS"
    BY DEF PredicatesAgree
  <2>1. receipt = ReceiptOf(r) /\ r \in journal
    BY DEF Sound, ReceiptsSound, JournalSound
  <2>2. Promoted(r) => IsVerified(r) /\ IsGoverned(r) /\ cand[r].sha # run[r].start
    BY DEF Sound, PromotionSound, CandidateSound
  <2>3. ObjectiveSatisfied(r) => HasContract(r)
    BY DEF ObjectiveSatisfied
  <2>4. /\ receipt.status = "VERIFIED_SUCCESS" <=> Promoted(r) /\ ObjectiveSatisfied(r)
        /\ receipt.status = "OBJECTIVE_UNSATISFIED" <=>
             Promoted(r) /\ ~ObjectiveSatisfied(r)
    BY <2>1, <2>2 DEF ReceiptOf, FinalStatus
  <2>5. /\ receipt.custody <=> Promoted(r)
        /\ receipt.promoted <=> Promoted(r)
        /\ receipt.authorized <=> Promoted(r) /\ ObjectiveSatisfied(r)
        /\ receipt.satisfied <=> ObjectiveSatisfied(r)
        /\ receipt.proof <=> HasContract(r)
    BY <2>1, <2>2 DEF ReceiptOf
  <2>6. receipt.cand = cand[r] /\ receipt.start = run[r].start
        /\ receipt.verdict = verif[r].verdict
    BY <2>1 DEF ReceiptOf
  <2>7. ExecutionValid(r, receipt) <=> ~Refused(receipt)
    BY <2>1, <2>2, <2>4, <2>6 DEF ExecutionValid, Refused, IsVerified
  <2>8. ProductionValid(r, receipt) <=> receipt.custody /\ ~Refused(receipt)
    BY <2>2, <2>4, <2>5, <2>6, <2>7 DEF ProductionValid, IsGoverned
  <2>9. Accomplished(r, receipt) <=> receipt.authorized /\ ~Refused(receipt)
    BY <2>3, <2>4, <2>5, <2>8 DEF Accomplished
  <2> QED BY <2>4, <2>5, <2>8, <2>9
<1> QED BY <1>1, Soundness, PTL

\* Law 6: evidence suffices only if it is of the effect of some obligation and of
\* every mandatory one, and a specification digest is present.
LEMMA SufficientEvidence ==
  ASSUME NEW c, NEW e, IsSufficient(Judge(c, e))
  PROVE  /\ e.spec
         /\ \E i \in DOMAIN c.obligations : c.obligations[i].effect = e.effect
         /\ \A i \in Mandatory(c) : c.obligations[i].effect = e.effect
<1> DEFINE o == c.obligations
           j == Judge(c, e).obligations
<1>1. /\ DOMAIN j = DOMAIN o
      /\ \A i \in DOMAIN o :
           /\ j[i].mandatory = o[i].mandatory
           /\ j[i].status = IF Entails(e, o[i]) THEN "SATISFIED" ELSE "FALSIFIED"
  BY DEF Judge
<1>2. PICK i \in DOMAIN j : j[i].status = "SATISFIED"
  BY DEF IsSufficient, WithStatus
<1>3. Entails(e, o[i])
  BY <1>1, <1>2
<1>4. ASSUME NEW k \in Mandatory(c) PROVE Entails(e, o[k])
  <2>1. k \in Mandatory(Judge(c, e)) /\ k \in DOMAIN o
    BY <1>1 DEF Mandatory
  <2>2. j[k].status # "FALSIFIED"
    BY <1>1, <2>1 DEF IsSufficient, WithStatus
  <2> QED BY <1>1, <2>1, <2>2
<1> QED BY <1>1, <1>3, <1>4 DEF Entails

\* An accomplished objective was earned by the test run on the merged commit.
THEOREM CompletionEarned == Spec => []CompletionIsEarned
<1>1. ASSUME Sound, NEW r \in Runs, NEW receipt \in filed[r], Accomplished(r, receipt)
      PROVE  /\ verif[r].verdict = "PASS" /\ verif[r].evidence.spec
             /\ verif[r].evidence.by = "ORACLE"
             /\ \E b \in Branches : verif[r].tree \subseteq tip[b]
             /\ receipt.cand.sha \subseteq verif[r].tree
             /\ \A b \in Branches : On(r, b) \subseteq verif[r].tree
             /\ \E i \in DOMAIN run[r].contract.obligations :
                  run[r].contract.obligations[i].effect = verif[r].evidence.effect
             /\ \A i \in Mandatory(run[r].contract) :
                  run[r].contract.obligations[i].effect = verif[r].evidence.effect
  <2>1. receipt = ReceiptOf(r)
    BY <1>1 DEF Sound, ReceiptsSound
  <2>2. /\ receipt.promoted /\ receipt.satisfied /\ receipt.verdict = "PASS"
        /\ receipt.by # "BUILDER" /\ receipt.by # "BUILDER_TEST"
    BY <1>1 DEF Accomplished, ProductionValid, ExecutionValid
  <2>3. /\ Promoted(r) /\ ObjectiveSatisfied(r) /\ verif[r].verdict = "PASS"
        /\ verif[r].evidence.by \notin {"BUILDER", "BUILDER_TEST"}
        /\ receipt.cand = cand[r]
    BY <2>1, <2>2 DEF ReceiptOf
  <2>4. verif[r].evidence.by = "ORACLE"
    BY <1>1, <2>3, EvidenceMaker DEF Sound, Verifiers
  <2>5. /\ \E b \in Branches : verif[r].tree \subseteq tip[b]
        /\ cand[r].sha \subseteq verif[r].tree
        /\ \A b \in Branches : On(r, b) \subseteq verif[r].tree
    BY <1>1, <2>3 DEF Sound, TypeOK, PromotionSound, Promoted
  <2>6. IsSufficient(Judge(run[r].contract, verif[r].evidence))
    BY <2>3 DEF ObjectiveSatisfied, FinalContract
  <2> QED BY <2>3, <2>4, <2>5, <2>6, SufficientEvidence
<1>2. Sound => CompletionIsEarned
  BY <1>1 DEF CompletionIsEarned
<1> QED BY <1>2, Soundness, PTL

-----------------------------------------------------------------------------
(***************************************************************************)
(* Concurrent promotions.                                                  *)
(***************************************************************************)

\* A candidate that can still be merged was made on top of all that is on the branch:
\* the run's own change is nowhere else, so only a fast forward is possible.
LEMMA MergeIsForward ==
  ASSUME Sound, NEW r \in Runs, Merge(r)
  PROVE  \A change \in Head : change \in run[r].start
<1> USE DEF Sound
<1>1. pc[r] = "checked" /\ CanMerge(sandbox[r])
  BY DEF Merge, Goto
<1>2. sandbox[r] # {} /\ run[r].start # {} /\ sandbox[r] # run[r].start
  BY MergeLands
<1>3. landed[r] = {}
  BY <1>1 DEF PromotionSound, Promoted, Ended
<1>4. ~Has(r, Head)
  BY <1>2, <1>3 DEF PrivacySound, Promoted, Head, TypeOK
<1>5. /\ run[r].start \subseteq sandbox[r]
      /\ \A change \in sandbox[r] : change \in run[r].start \/ change[1] = r
  BY <1>2 DEF WorkspaceSound
<1>6. ~(sandbox[r] \subseteq Head)
  BY <1>2, <1>4, <1>5 DEF Has
<1> QED BY <1>1, <1>4, <1>5, <1>6 DEF CanMerge, Has

LEMMA SerialStep ==
  ASSUME Sound, PromotionsAreSerial, [Next]_vars
  PROVE  PromotionsAreSerial'
<1> USE DEF Sound
<1>1. CASE UNCHANGED vars
  BY <1>1 DEF vars, PromotionsAreSerial
<1>2. CASE DevCommit \/ \E b \in Branches : Checkout(b)
  BY <1>2, DevelopersKeep DEF PromotionsAreSerial, Keeps
<1>3. ASSUME NEW q \in Runs, KernelStep(q) PROVE PromotionsAreSerial'
  <2>1. CASE Merge(q)
    <3>1. verif' = verif /\ run' = run /\ landed'[q] = {current}
      BY <2>1, MergeLands
    <3>2. \A s \in Runs \ {q} : landed'[s] = landed[s]
      BY <1>3, OthersKeep DEF Keeps
    <3>3. ASSUME NEW s \in Runs \ {q}, current \in landed[s]
          PROVE  verif[s].tree \subseteq run[q].start
      <4>1. verif[s].tree \subseteq Head
        BY <3>3 DEF PromotionSound, Promoted, Head
      <4> QED BY <2>1, <4>1, MergeIsForward
    <3> QED BY <3>1, <3>2, <3>3 DEF PromotionsAreSerial
  <2>2. CASE landed' = landed
    <3> SUFFICES ASSUME NEW r \in Runs, NEW s \in Runs, r # s,
                        landed[r] \cap landed[s] # {}
                 PROVE  \/ verif'[r].tree \subseteq run'[s].start
                        \/ verif'[s].tree \subseteq run'[r].start
      BY <2>2 DEF PromotionsAreSerial
    <3>1. ASSUME NEW t \in Runs, landed[t] # {}
          PROVE  verif'[t] = verif[t] /\ run'[t] = run[t]
      <4>1. pc[t] \in {"judged", "sealed", "filed"} \cup Ended
        BY <3>1 DEF PromotionSound, Promoted
      <4> QED BY <1>3, <4>1, JudgedKeeps, OthersKeep DEF Keeps
    <3> QED BY <3>1 DEF PromotionsAreSerial
  <2> QED BY <1>3, <2>1, <2>2, PromotionSteps
<1> QED BY <1>1, <1>2, <1>3 DEF Next

\* Runs that promote onto the same branch do so one on top of the other.
THEOREM SerialPromotions == Spec => []PromotionsAreSerial
<1>1. Init => PromotionsAreSerial
  BY DEF Init, PromotionsAreSerial
<1>2. Sound /\ PromotionsAreSerial /\ [Next]_vars => PromotionsAreSerial'
  BY SerialStep
<1> QED BY <1>1, <1>2, Soundness, PTL DEF Spec

-----------------------------------------------------------------------------
(***************************************************************************)
(* Where mutations happen.                                                 *)
(***************************************************************************)

\* A change of a run with a baseline comes to the branches by that run's merge.
LEMMA GovernedStep ==
  ASSUME Sound, Next, NEW r \in Runs, NEW b \in Branches, run[r].start # {}
  PROVE  ~Escapes(r, b)
<1> USE DEF Sound
<1> SUFFICES ASSUME ~(pc[r] = "checked" /\ pc'[r] = "judged"),
                    NEW change \in tip'[b], change[1] = r
             PROVE  \E d \in Branches : change \in tip[d]
  BY DEF Escapes, On
<1>1. CASE DevCommit \/ \E d \in Branches : Checkout(d)
  BY <1>1, DevelopersBring
<1>2. ASSUME NEW q \in Runs, KernelStep(q) PROVE \E d \in Branches : change \in tip[d]
  <2>1. ~(WorkerCommits(r) /\ sandbox[r] = {})
    BY DEF WorkspaceSound, WorkerCommits, Goto, IsGovernable
  <2>2. ~Merge(r)
    BY DEF Merge, Goto, TypeOK
  <2> QED BY <1>2, <2>1, <2>2, RunsBring
<1> QED BY <1>1, <1>2 DEF Next

\* The changes of a run that resolved a baseline first reach a branch by its own merge.
THEOREM MutationsGoverned == Spec => GovernedUntilMerged
<1>1. Sound /\ [Next]_vars =>
        [\A r \in Runs, b \in Branches : run[r].start # {} => ~Escapes(r, b)]_vars
  BY GovernedStep
<1> QED BY <1>1, Soundness, PTL DEF Spec, GovernedUntilMerged

-----------------------------------------------------------------------------
(***************************************************************************)
(* Optimistic promotion makes somebody win.                                *)
(***************************************************************************)

\* When nothing fails HEAD can be resolved, now and when any run was created.
HeadKnown ==
  ~Faults => Head # {} /\ \A s \in Runs : pc[s] # "idle" => run[s].start # {}

\* A run switches no branch of the target, and its first step creates it.
LEMMA RunsCheckOutNothing ==
  ASSUME NEW r \in Runs, KernelStep(r)
  PROVE  /\ current' = current /\ devs' = devs
         /\ Create(r) \/ pc[r] # "idle"
<1> USE DEF repo, Goto
<1>1. CASE Create(r) \/ RecordRunCreated(r) \/ PrepareGoverned(r) \/ PrepareAudit(r)
  BY <1>1 DEF Create, RecordRunCreated, PrepareGoverned, PrepareAudit
<1>2. CASE WorkerCommits(r) \/ WorkerReturns(r) \/ Audit(r) \/ Verify(r) \/ RetryRepair(r)
  BY <1>2 DEF WorkerCommits, WorkerReturns, Audit, Verify, RetryRepair
<1>3. CASE CheckHead(r) \/ Decline(r) \/ Merge(r) \/ MergeFails(r)
  BY <1>3 DEF CheckHead, Decline, Merge, MergeFails
<1>4. CASE Seal(r) \/ FileReceipt(r) \/ RecordReceipt(r) \/ Abort(r) \/ Crash(r)
  BY <1>4 DEF Seal, FileReceipt, RecordReceipt, Abort, Crash
<1> QED BY <1>1, <1>2, <1>3, <1>4 DEF KernelStep

LEMMA HeadKnownStep ==
  ASSUME Sound, HeadKnown, [Next]_vars
  PROVE  HeadKnown'
<1> USE DEF Sound
<1> SUFFICES ASSUME ~Faults,
                    Head # {} /\ \A s \in Runs : pc[s] # "idle" => run[s].start # {}
             PROVE  Head' # {} /\ \A s \in Runs : pc'[s] # "idle" => run'[s].start # {}
  BY DEF HeadKnown
<1>1. CASE UNCHANGED vars
  BY <1>1 DEF vars, Head
<1>2. CASE DevCommit
  BY <1>2, DevelopersKeep DEF DevCommit, Head, Keeps, TypeOK
<1>3. ASSUME NEW b \in Branches, Checkout(b) PROVE Head' # {} /\ \A s \in Runs : pc'[s] # "idle" => run'[s].start # {}
  BY <1>3, DevelopersKeep DEF Checkout, Head, Keeps, TypeOK
<1>4. ASSUME NEW r \in Runs, KernelStep(r) PROVE Head' # {} /\ \A s \in Runs : pc'[s] # "idle" => run'[s].start # {}
  <2>1. current' = current /\ tip[current] \subseteq tip'[current]
    BY <1>4, RunsCheckOutNothing, TipsGrow DEF Next, TypeOK
  <2>2. ASSUME NEW s \in Runs, s # r, pc'[s] # "idle" PROVE run'[s].start # {}
    BY <1>4, <2>2, OthersKeep DEF Keeps
  <2>3. run'[r].start # {}
    <3>1. CASE Create(r)
      BY <3>1 DEF Create, ResolvedHeads, TypeOK
    <3>2. CASE run' = run /\ pc[r] # "idle"
      BY <3>2
    <3>3. Create(r) \/ pc[r] # "idle"
      BY <1>4, RunsCheckOutNothing
    <3> QED BY <1>4, <3>1, <3>2, <3>3, BaselineKept
  <2> QED BY <2>1, <2>2, <2>3 DEF Head
<1> QED BY <1>1, <1>2, <1>3, <1>4 DEF Next

\* Nothing failed, and nobody but the runs touched the repository.
Undisturbed == ~Faults /\ devs = 0 /\ \A b \in Branches \ {current} : tip[b] = {}

\* As long as that holds and nobody is promoted, every run starts from HEAD, and none that
\* was judged had a verified governed candidate: nothing could turn it down.
NobodyLost ==
  Undisturbed /\ (\A s \in Runs : ~Promoted(s)) =>
    \A r \in Runs :
      /\ pc[r] # "idle" => run[r].start = Head
      /\ pc[r] \in {"judged", "sealed", "filed"} \cup Ended => ~(IsVerified(r) /\ IsGoverned(r))

\* Who is judged had no verified governed candidate, or HEAD moved, or git refused the merge.
LEMMA JudgedWhy ==
  ASSUME TypeOK, NEW r \in Runs, KernelStep(r), ~Faults,
         pc'[r] \in {"judged", "sealed", "filed"} \cup Ended
  PROVE  \/ pc[r] \in {"judged", "sealed", "filed"} \cup Ended
         \/ Merge(r) \/ MergeFails(r)
         \/ Decline(r) /\ cand' = cand /\ verif' = verif
<1> USE DEF TypeOK, Goto, Ended
<1>1. CASE Create(r) \/ RecordRunCreated(r) \/ PrepareGoverned(r) \/ PrepareAudit(r)
  BY <1>1 DEF Create, RecordRunCreated, PrepareGoverned, PrepareAudit
<1>2. CASE WorkerCommits(r) \/ WorkerReturns(r) \/ Audit(r) \/ Verify(r) \/ RetryRepair(r)
  BY <1>2 DEF WorkerCommits, WorkerReturns, Audit, Verify, RetryRepair
<1>3. CASE CheckHead(r) \/ Decline(r) \/ Merge(r) \/ MergeFails(r)
  BY <1>3 DEF CheckHead, Decline
<1>4. CASE Seal(r) \/ FileReceipt(r) \/ RecordReceipt(r) \/ Abort(r) \/ Crash(r)
  BY <1>4 DEF Seal, FileReceipt, RecordReceipt, Abort, Crash
<1> QED BY <1>1, <1>2, <1>3, <1>4 DEF KernelStep

LEMMA NobodyLostStep ==
  ASSUME Sound, HeadKnown, NobodyLost, [Next]_vars
  PROVE  NobodyLost'
<1> USE DEF Sound
<1> SUFFICES ASSUME Undisturbed', \A s \in Runs : ~Promoted(s)', NEW r \in Runs
             PROVE  /\ pc'[r] # "idle" => run'[r].start = Head'
                    /\ pc'[r] \in {"judged", "sealed", "filed"} \cup Ended =>
                         ~(IsVerified(r) /\ IsGoverned(r))'
  BY DEF NobodyLost
<1>1. CASE UNCHANGED vars
  BY <1>1 DEF vars, NobodyLost, Undisturbed, Promoted, Head, IsVerified, IsGoverned
<1>2. ~DevCommit
  BY DEF DevCommit, Undisturbed, TypeOK
<1>3. ASSUME NEW b \in Branches, Checkout(b) PROVE FALSE
  <2>1. current \in Branches \ {current'} /\ tip'[current] = Head /\ Head # {}
    BY <1>3 DEF Checkout, Head, TypeOK
  <2> QED BY <2>1 DEF Undisturbed
<1>4. ASSUME NEW q \in Runs, KernelStep(q)
      PROVE  /\ pc'[r] # "idle" => run'[r].start = Head'
             /\ pc'[r] \in {"judged", "sealed", "filed"} \cup Ended =>
                  ~(IsVerified(r) /\ IsGoverned(r))'
  <2>1. current' = current /\ devs' = devs /\ (Create(q) \/ pc[q] # "idle")
    BY <1>4, RunsCheckOutNothing
  <2>2. ~Merge(q) /\ landed' = landed
    <3>1. Merge(q) => landed'[q] # {}
      BY DEF Merge, TypeOK
    <3> QED BY <1>4, <3>1, PromotionSteps DEF Promoted
  <2>3. Undisturbed /\ \A s \in Runs : ~Promoted(s)
    <3>1. \A b \in Branches : tip[b] \subseteq tip'[b]
      BY <1>4, TipsGrow DEF Next
    <3> QED BY <2>1, <2>2, <3>1 DEF Undisturbed, Promoted
  <2>4. \A s \in Runs :
          /\ pc[s] # "idle" => run[s].start = Head
          /\ pc[s] \in {"judged", "sealed", "filed"} \cup Ended => ~(IsVerified(s) /\ IsGoverned(s))
    BY <2>3 DEF NobodyLost
  <2>5. tip' = tip /\ Head' = Head
    <3>1. ~(WorkerCommits(q) /\ sandbox[q] = {})
      BY <2>3 DEF Undisturbed, HeadKnown, WorkspaceSound, WorkerCommits, Goto, IsGovernable
    <3>2. tip' = tip
      BY <1>4, <2>2, <3>1, BranchWriters
    <3> QED BY <2>1, <3>2 DEF Head
  <2>6. CASE r # q
    <3>1. Keeps(r)
      BY <1>4, <2>6, OthersKeep
    <3> QED BY <2>4, <2>5, <3>1 DEF Keeps, IsVerified, IsGoverned
  <2>7. CASE r = q
    <3>1. pc'[q] # "idle" => run'[q].start = Head'
      <4>1. CASE Create(q)
        BY <2>3, <2>5, <4>1 DEF Create, ResolvedHeads, Undisturbed, TypeOK
      <4>2. CASE ~Create(q)
        BY <1>4, <2>1, <2>4, <2>5, <4>2, BaselineKept
      <4> QED BY <4>1, <4>2
    <3>2. ASSUME pc'[q] \in {"judged", "sealed", "filed"} \cup Ended
          PROVE  ~(IsVerified(q) /\ IsGoverned(q))'
      <4>1. CASE pc[q] \in {"judged", "sealed", "filed"} \cup Ended
        BY <1>4, <2>4, <4>1, JudgedKeeps DEF IsVerified, IsGoverned
      <4>2. ~MergeFails(q)
        <5> SUFFICES ASSUME MergeFails(q) PROVE FALSE
          OBVIOUS
        <5>1. pc[q] = "checked" /\ ~CanMerge(sandbox[q])
          BY <2>3 DEF MergeFails, Goto, Undisturbed
        <5>2. Head \subseteq sandbox[q]
          BY <2>4, <5>1 DEF CandidateSound, WorkspaceSound
        <5> QED BY <5>1, <5>2 DEF CanMerge
      <4>3. CASE Decline(q) /\ cand' = cand /\ verif' = verif
        <5>1. pc[q] = "verified" /\ ~(IsVerified(q) /\ IsGoverned(q) /\ HeadUnmoved(q))
          BY <2>3, <4>3 DEF Decline, Goto, Undisturbed
        <5>2. ~(IsVerified(q) /\ IsGoverned(q))
          BY <2>4, <5>1 DEF HeadUnmoved
        <5> QED BY <4>3, <5>2 DEF IsVerified, IsGoverned
      <4>4. ~Faults
        BY <2>3 DEF Undisturbed
      <4> QED BY <1>4, <2>2, <3>2, <4>1, <4>2, <4>3, <4>4, JudgedWhy
    <3> QED BY <2>7, <3>1, <3>2
  <2> QED BY <2>6, <2>7
<1> QED BY <1>1, <1>2, <1>3, <1>4 DEF Next

\* In a repository with a commit the optimistic promotion (promote_and_seal,
\* state_machine.rs:584) lets somebody win, however many runs compete: when all are over,
\* none failed and nobody else touched the repository, then if any had a verified governed
\* candidate, one was promoted.
THEOREM SomeonePromoted ==
  ASSUME StartHead # {}
  PROVE  Spec => []SomeonePromotes
<1>1. Init => HeadKnown
  BY DEF Init, HeadKnown, Head
<1>2. Init => NobodyLost
  BY DEF Init, NobodyLost, Ended
<1>3. Sound /\ HeadKnown /\ [Next]_vars => HeadKnown'
  BY HeadKnownStep
<1>4. Sound /\ HeadKnown /\ NobodyLost /\ [Next]_vars => NobodyLost'
  BY NobodyLostStep
<1>5. NobodyLost => SomeonePromotes
  BY DEF NobodyLost, Undisturbed, SomeonePromotes, Ended
<1> QED BY <1>1, <1>2, <1>3, <1>4, <1>5, Soundness, PTL DEF Spec
=============================================================================
