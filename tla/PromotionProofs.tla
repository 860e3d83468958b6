--------------------------- MODULE PromotionProofs ---------------------------
(***************************************************************************)
(* Proofs about Promotion, for every set of tasks, commits and processes.  *)
(***************************************************************************)
EXTENDS Promotion, TLAPS

\* Callers seal manifests in unprivileged states only.
SealSafe == SealStates \cap PrivilegedStates = {}

\* A legal move of the schema's table leads to a member of the enumeration.
LEMMA LegalNextInState == \A s \in State \cup {Absent} : LegalNext(s) \subseteq State
BY DEF LegalNext, State, Absent

\* The compare-and-swap of the proposals table keeps every row a state.
LEMMA SwapType ==
  ASSUME TypeOK, NEW t \in Task, NEW from, NEW to, NEW next,
         next = Swap(t, from, to)
  PROVE  next \in [Task -> State \cup {Absent}]
<1>1. CASE to \in LegalNext(from) /\ state[t] = from
  <2>1. to \in State
    BY <1>1, LegalNextInState DEF TypeOK
  <2> QED BY <1>1, <2>1 DEF Swap, TypeOK
<1>2. CASE ~(to \in LegalNext(from) /\ state[t] = from)
  BY <1>2 DEF Swap, TypeOK
<1> QED BY <1>1, <1>2

\* So does execute_transition, whether its UPDATE applied or was swallowed.
LEMMA EngineType ==
  ASSUME TypeOK, NEW t \in Task, NEW from, NEW to, EngineTransition(t, from, to)
  PROVE  state' \in [Task -> State \cup {Absent}]
BY SwapType DEF EngineTransition, TypeOK

\* An empty database and idle processes are well typed.
LEMMA InitTypeOK == Init => TypeOK
BY GitAssumption, ManifestAssumption
   DEF Init, TypeOK, IdleVerifier, IdlePromoter, IdleReconciler, VerifierPC,
       PromoterPC, Absent

-----------------------------------------------------------------------------
(***************************************************************************)
(* Type correctness.  Every step keeps the types; a promote or verifier    *)
(* step writes program points of its own list only.                        *)
(***************************************************************************)

\* Moving a promote call to another program point keeps its record's type.
LEMMA GotoType ==
  ASSUME TypeOK, NEW p \in Promoter, NEW pc \in PromoterPC, Goto(p, pc)
  PROVE  promoter' \in [Promoter -> [pc : PromoterPC, task : Task \cup {NoTask},
                                     commit : Commit \cup {NoCommit}]]
<1> DEFINE P == [pc : PromoterPC, task : Task \cup {NoTask}, commit : Commit \cup {NoCommit}]
<1>1. promoter \in [Promoter -> P] /\ promoter' = [promoter EXCEPT ![p] = [@ EXCEPT !.pc = pc]]
  BY DEF TypeOK, Goto
<1>2. promoter[p] \in P
  BY <1>1
<1>3. [promoter[p] EXCEPT !.pc = pc] \in P
  BY <1>2
<1>4. promoter' \in [Promoter -> P]
  <2> HIDE DEF P
  <2> QED BY <1>1, <1>3
<1> QED BY <1>4

\* A step that only moves promote call p to another program point.
LEMMA StepType ==
  ASSUME TypeOK, NEW p \in Promoter, NEW pc \in PromoterPC, Goto(p, pc),
         UNCHANGED <<state, sealed, receipts, wal, head, tested, verifier,
                     reconciler>>
  PROVE  TypeOK'
BY GotoType DEF TypeOK

\* A _request_transition of promote keeps the types.
LEMMA RequestType ==
  ASSUME TypeOK, NEW p \in Promoter, NEW at \in PromoterPC \ {"idle", "accepted", "declined"},
         NEW from, NEW to, NEW next \in PromoterPC,
         promoter[p].task \in Task,
         Request(p, at, from, to, next)
  PROVE  TypeOK'
<1>1. state' \in [Task -> State \cup {Absent}]
  BY EngineType DEF Request
<1> QED BY <1>1, GotoType DEF Request, TypeOK

\* record_verified_receipt inserts a well typed row.
LEMMA FileReceiptType ==
  ASSUME TypeOK, NEW t \in Task, NEW c \in Commit, NEW status \in ReceiptStatus,
         FileReceipt(t, c, status)
  PROVE  receipts' \subseteq Receipt
BY DEF FileReceipt, TypeOK, Receipt

\* A record_promotion_wal_step of promote keeps the types.
LEMMA LogStepType ==
  ASSUME TypeOK, NEW p \in Promoter, NEW at, NEW s \in State,
         NEW next \in PromoterPC,
         promoter[p].task \in Task, promoter[p].commit \in Commit,
         LogStep(p, at, s, next)
  PROVE  TypeOK'
<1>1. wal' \subseteq WalEntry
  BY DEF LogStep, TypeOK, WalEntry
<1> QED BY <1>1, GotoType DEF LogStep, TypeOK

\* The task and the commit a running promote call works on.
LEMMA CallTypes ==
  ASSUME Sound, NEW p \in Promoter, ~NotCalled(p)
  PROVE  promoter[p].task \in Task /\ promoter[p].commit \in Commit
BY DEF Sound, PromotersSound, PromoterSound, TypeOK, Receipt

\* The task and the commit a running verify_candidate call works on.
LEMMA RunTypes ==
  ASSUME Sound, NEW v \in Verifier, verifier[v].pc # "idle"
  PROVE  verifier[v].task \in Task /\ verifier[v].commit \in Commit
BY ManifestAssumption DEF Sound, VerifiersSound, VerifierSound

\* Every step of verify_candidate keeps the types.
LEMMA VerifierType ==
  ASSUME Sound, NEW v \in Verifier, VerifierStep(v)
  PROVE  TypeOK'
<1> USE DEF Sound
<1> DEFINE VType == [Verifier ->
       [pc : VerifierPC, task : Task \cup {NoTask},
        commit : Commit \cup {NoCommit}, from : State \cup {Absent}]]
<1>0. IdleVerifier \in [pc : VerifierPC, task : Task \cup {NoTask},
        commit : Commit \cup {NoCommit}, from : State \cup {Absent}]
  BY DEF IdleVerifier, VerifierPC
<1>1. ASSUME NEW t \in Task, NEW c \in Offered[t], VerifyRefuse(v, t, c)
      PROVE  TypeOK'
  <2>1. PICK status \in Failures : FileReceipt(t, c, status)
    BY <1>1 DEF VerifyRefuse
  <2>2. receipts' \subseteq Receipt
    BY <2>1, ManifestAssumption, FileReceiptType DEF ReceiptStatus
  <2> QED BY <1>1, <2>2 DEF VerifyRefuse, TypeOK
<1>2. ASSUME NEW t \in Task, NEW c \in Offered[t], VerifyRun(v, t, c)
      PROVE  TypeOK'
  <2>1. c \in Commit BY ManifestAssumption
  <2>2. verifier' \in VType
    BY <1>2, <2>1 DEF VerifyRun, TypeOK, IdleVerifier, VerifierPC
  <2> QED BY <1>2, <2>2 DEF VerifyRun, TypeOK
<1>3. CASE VerifyFail(v)
  <2>1. PICK status \in Failures :
          FileReceipt(verifier[v].task, verifier[v].commit, status)
    BY <1>3 DEF VerifyFail
  <2>2. receipts' \subseteq Receipt
    BY <1>3, <2>1, RunTypes, ManifestAssumption, FileReceiptType
       DEF ReceiptStatus, VerifyFail
  <2>3. verifier' \in VType BY <1>0, <1>3 DEF VerifyFail, TypeOK
  <2> QED BY <1>3, <2>2, <2>3 DEF VerifyFail, TypeOK
<1>4. CASE VerifyPass(v)
  <2>1. tested' \subseteq Task \X Commit
    BY <1>4, RunTypes DEF VerifyPass, TypeOK
  <2>2. ClaimFrom(state[verifier[v].task]) \in State
    BY DEF ClaimFrom, State
  <2>3. verifier' \in VType
    BY <1>4, <2>2 DEF VerifyPass, TypeOK, VerifierPC
  <2> QED BY <1>4, <2>1, <2>3 DEF VerifyPass, TypeOK
<1>5. CASE VerifyClaim(v)
  <2>1. state' \in [Task -> State \cup {Absent}]
    BY <1>5, RunTypes, EngineType DEF VerifyClaim
  <2>2. verifier' \in VType BY <1>5 DEF VerifyClaim, TypeOK, VerifierPC
  <2> QED BY <1>5, <2>1, <2>2 DEF VerifyClaim, TypeOK
<1>6. CASE VerifyRecord(v)
  <2>1. receipts' \subseteq Receipt
    BY <1>6, RunTypes, FileReceiptType DEF ReceiptStatus, VerifyRecord
  <2>2. verifier' \in VType BY <1>0, <1>6 DEF VerifyRecord, TypeOK
  <2> QED BY <1>6, <2>1, <2>2 DEF VerifyRecord, TypeOK
<1>7. CASE CrashVerifier(v)
  <2>1. verifier' \in VType BY <1>0, <1>7 DEF CrashVerifier, TypeOK
  <2> QED BY <1>7, <2>1 DEF CrashVerifier, TypeOK
<1> QED BY <1>1, <1>2, <1>3, <1>4, <1>5, <1>6, <1>7 DEF VerifierStep

\* Every step of promote keeps the types.
LEMMA PromoterType ==
  ASSUME Sound, NEW p \in Promoter, PromoterStep(p)
  PROVE  TypeOK'
<1> USE DEF Sound
<1>1. CASE CheckTarget(p)
  BY <1>1, StepType DEF CheckTarget, PromoterPC
<1>2. CASE Checkout(p)
  BY <1>2, StepType DEF Checkout, PromoterPC
<1>3. CASE MergeFails(p)
  BY <1>3, StepType DEF MergeFails, PromoterPC
<1>4. CASE PostTest(p)
  BY <1>4, StepType DEF PostTest, PromoterPC
<1>5. CASE Merge(p)
  <2>1. head' \in Commit
    BY <1>5, CallTypes DEF Merge, MergedHead, TypeOK, NotCalled
  <2> QED BY <1>5, <2>1, GotoType DEF Merge, TypeOK, PromoterPC
<1>6. CASE RequestPending(p)
  <2>1. promoter[p].task \in Task
    BY <1>6, CallTypes DEF RequestPending, Request, NotCalled
  <2> QED BY <1>6, <2>1, RequestType DEF RequestPending, PromoterPC
<1>7. CASE Rollback(p)
  <2>1. promoter[p].task \in Task
    BY <1>7, CallTypes DEF Rollback, Request, NotCalled
  <2> QED BY <1>7, <2>1, RequestType DEF Rollback, PromoterPC
<1>8. CASE RequestPromoted(p)
  <2>1. promoter[p].task \in Task
    BY <1>8, CallTypes DEF RequestPromoted, Request, NotCalled
  <2> QED BY <1>8, <2>1, RequestType DEF RequestPromoted, PromoterPC
<1>9. CASE RequestRejected(p)
  <2>1. promoter[p].task \in Task
    BY <1>9, CallTypes DEF RequestRejected, Request, NotCalled
  <2> QED BY <1>9, <2>1, RequestType DEF RequestRejected, PromoterPC
<1>10. CASE RequestFinal(p)
  <2>1. promoter[p].task \in Task
    BY <1>10, CallTypes DEF RequestFinal, Request, NotCalled
  <2> QED BY <1>10, <2>1, RequestType DEF RequestFinal, PromoterPC
<1>11. CASE LogPending(p)
  <2>1. promoter[p].task \in Task /\ promoter[p].commit \in Commit
    BY <1>11, CallTypes DEF LogPending, LogStep, NotCalled
  <2> QED BY <1>11, <2>1, LogStepType DEF LogPending, PromoterPC, State
<1>12. CASE LogPromoted(p)
  <2>1. promoter[p].task \in Task /\ promoter[p].commit \in Commit
    BY <1>12, CallTypes DEF LogPromoted, LogStep, NotCalled
  <2> QED BY <1>12, <2>1, LogStepType DEF LogPromoted, PromoterPC, State
<1>13. CASE LogFinal(p)
  <2>1. promoter[p].task \in Task /\ promoter[p].commit \in Commit
    BY <1>13, CallTypes DEF LogFinal, LogStep, NotCalled
  <2> QED BY <1>13, <2>1, LogStepType DEF LogFinal, PromoterPC, State
<1> QED
  BY <1>1, <1>2, <1>3, <1>4, <1>5, <1>6, <1>7, <1>8, <1>9, <1>10, <1>11,
     <1>12, <1>13 DEF PromoterStep

\* Every step of the reconciler keeps the types.
LEMMA ReconcilerType ==
  ASSUME Sound, ReconcilerStep \/ CrashReconciler
  PROVE  TypeOK'
<1> USE DEF Sound
<1>1. CASE ListPending
  BY <1>1 DEF ListPending, Pending, TypeOK, IdleReconciler
<1>2. ASSUME NEW t \in Task, Examine(t) PROVE TypeOK'
  BY <1>2 DEF Examine, TypeOK
<1>3. CASE Settle
  <2>1. reconciler.task \in Task
    BY <1>3 DEF Settle, ReconcilerSound, TypeOK
  <2>2. state' \in [Task -> State \cup {Absent}]
    BY <1>3, <2>1, SwapType DEF Settle
  <2>3. reconciler' \in [pc : {"idle", "next", "decide"}, task : Task \cup {NoTask},
                         merged : BOOLEAN, todo : SUBSET Task]
    BY <1>3 DEF Settle, TypeOK, IdleReconciler
  <2> QED BY <1>3, <2>2, <2>3 DEF Settle, TypeOK
<1>4. CASE SettleFails
  BY <1>4 DEF SettleFails, TypeOK, IdleReconciler
<1>5. CASE CrashReconciler
  BY <1>5 DEF CrashReconciler, TypeOK, IdleReconciler
<1> QED BY <1>1, <1>2, <1>3, <1>4, <1>5 DEF ReconcilerStep

\* Beginning a promote call, and losing one in a crash, keep the types.
LEMMA CallType ==
  ASSUME Sound, NEW p \in Promoter,
         CrashPromoter(p) \/ \E t \in Task, r \in receipts : Call(p, t, r)
  PROVE  TypeOK'
<1> USE DEF Sound
<1>1. CASE CrashPromoter(p)
  BY <1>1 DEF CrashPromoter, TypeOK, IdlePromoter, PromoterPC
<1>2. ASSUME NEW t \in Task, NEW r \in receipts, Call(p, t, r) PROVE TypeOK'
  <2>1. r.commit \in Commit BY DEF TypeOK, Receipt
  <2> DEFINE pc == IF ~Admissible(t, r) THEN "declined"
                   ELSE IF state[t] = "POST_PROMOTION_VERIFIED" THEN "accepted"
                   ELSE "check"
  <2>2. pc \in PromoterPC BY DEF PromoterPC
  <2>3. promoter' = [promoter EXCEPT ![p] =
                       [task |-> t, commit |-> r.commit, pc |-> pc]]
    BY <1>2 DEF Call
  <2> HIDE DEF pc
  <2> QED BY <1>2, <2>1, <2>2, <2>3 DEF Call, TypeOK
<1> QED BY <1>1, <1>2

\* Every step of the pipeline keeps the types.
LEMMA NextType ==
  ASSUME Sound, [Next]_vars
  PROVE  TypeOK'
<1> USE DEF Sound
<1>1. ASSUME NEW t \in Task, NEW c \in Offered[t], Seal(t, c) PROVE TypeOK'
  <2>1. PICK s \in SealStates : state' = [state EXCEPT ![t] = s]
    BY <1>1 DEF Seal
  <2>2. state' \in [Task -> State \cup {Absent}]
    BY <2>1, ManifestAssumption DEF TypeOK
  <2>3. sealed' \in [Task -> Commit \cup {NoCommit}]
    BY <1>1, ManifestAssumption DEF Seal, TypeOK
  <2> QED BY <1>1, <2>2, <2>3 DEF Seal, TypeOK
<1>2. ASSUME NEW t \in Task, UpdateState(t) PROVE TypeOK'
  <2>1. state' \in [Task -> State \cup {Absent}]
    BY <1>2, SwapType DEF UpdateState
  <2> QED BY <1>2, <2>1 DEF UpdateState, TypeOK
<1>3. ASSUME NEW v \in Verifier, VerifierStep(v) PROVE TypeOK'
  BY <1>3, VerifierType
<1>4. ASSUME NEW c \in Foreign, ForeignCommit(c) PROVE TypeOK'
  BY <1>4, GitAssumption DEF ForeignCommit, TypeOK
<1>5. ASSUME NEW p \in Promoter,
             PromoterStep(p) \/ CrashPromoter(p)
               \/ \E t \in Task, r \in receipts : Call(p, t, r)
      PROVE  TypeOK'
  BY <1>5, PromoterType, CallType
<1>6. CASE ReconcilerStep \/ CrashReconciler
  BY <1>6, ReconcilerType
<1>7. CASE UNCHANGED vars
  BY <1>7 DEF vars, TypeOK
<1> QED BY <1>1, <1>2, <1>3, <1>4, <1>5, <1>6, <1>7 DEF Next

-----------------------------------------------------------------------------
(***************************************************************************)
(* What no step takes back.  The database only inserts receipts and log    *)
(* rows, a sealed manifest is never replaced, and the branch only moves    *)
(* forward; a process in the middle of a call may rely on all of it.       *)
(***************************************************************************)

\* No step retracts a receipt, a log row, a test result, a seal or a commit.
Grows ==
  /\ receipts \subseteq receipts'
  /\ wal \subseteq wal'
  /\ tested \subseteq tested'
  /\ Ancestors[head] \subseteq Ancestors[head']
  /\ \A t \in Task : state[t] # Absent => state'[t] # Absent /\ sealed'[t] = sealed[t]

\* One row moves from from to to, along the legal table.
Moves(t, from, to) ==
  /\ state[t] = from /\ to \in LegalNext(from) /\ to \in State
  /\ state' = [state EXCEPT ![t] = to]

\* A compare-and-swap writes one row, along the legal table, or nothing.
LEMMA SwapMoves ==
  ASSUME TypeOK, NEW t \in Task, NEW from, NEW to,
         state' = Swap(t, from, to) \/ UNCHANGED state
  PROVE  UNCHANGED state \/ Moves(t, from, to)
BY DEF Swap, LegalNext, Moves

\* A privileged transition writes one row, along the legal table, or nothing.
LEMMA EngineMoves ==
  ASSUME TypeOK, NEW t \in Task, NEW from, NEW to, EngineTransition(t, from, to)
  PROVE  UNCHANGED state \/ Moves(t, from, to)
BY SwapMoves DEF EngineTransition

\* ABSENT stands for a missing row; no row says it.
LEMMA AbsentIsNoState == Absent \notin State
BY DEF Absent, State

\* The branch moves forward: to a descendant, or not at all.
LEMMA HeadGrows ==
  ASSUME TypeOK, NEW c \in Commit,
         \/ head \in Ancestors[c] /\ head' = c
         \/ CanMerge(c) /\ head' = MergedHead(c)
  PROVE  Ancestors[head] \subseteq Ancestors[head']
BY GitAssumption DEF TypeOK, CanMerge, MergedHead

\* Every step only adds.
LEMMA NextGrows ==
  ASSUME Sound, [Next]_vars
  PROVE  Grows
<1> USE DEF Sound
<1> DEFINE Frame == UNCHANGED <<sealed, receipts, wal, head, tested>>
<1>0. ASSUME NEW t \in Task, NEW from, NEW to, EngineTransition(t, from, to), Frame
      PROVE  Grows
  BY <1>0, EngineMoves, AbsentIsNoState DEF Grows, Moves, TypeOK
<1>1. ASSUME NEW t \in Task, NEW c \in Offered[t], Seal(t, c) PROVE Grows
  BY <1>1 DEF Seal, Grows, TypeOK
<1>2. ASSUME NEW t \in Task, UpdateState(t) PROVE Grows
  BY <1>2, <1>0 DEF UpdateState, EngineTransition
<1>3. ASSUME NEW v \in Verifier, VerifierStep(v) PROVE Grows
  <2>1. ASSUME NEW t \in Task, NEW c \in Offered[t], VerifyRefuse(v, t, c)
        PROVE  Grows
    BY <2>1 DEF VerifyRefuse, FileReceipt, Grows
  <2>2. ASSUME NEW t \in Task, NEW c \in Offered[t], VerifyRun(v, t, c)
        PROVE  Grows
    BY <2>2 DEF VerifyRun, Grows
  <2>3. CASE VerifyFail(v)    BY <2>3 DEF VerifyFail, FileReceipt, Grows
  <2>4. CASE VerifyPass(v)    BY <2>4 DEF VerifyPass, Grows
  <2>5. CASE VerifyClaim(v)
    BY <2>5, <1>0, RunTypes DEF VerifyClaim
  <2>6. CASE VerifyRecord(v)  BY <2>6 DEF VerifyRecord, FileReceipt, Grows
  <2>7. CASE CrashVerifier(v) BY <2>7 DEF CrashVerifier, Grows
  <2> QED BY <1>3, <2>1, <2>2, <2>3, <2>4, <2>5, <2>6, <2>7 DEF VerifierStep
<1>4. ASSUME NEW c \in Foreign, ForeignCommit(c) PROVE Grows
  <2>1. c \in Commit BY GitAssumption
  <2> QED BY <1>4, <2>1, HeadGrows DEF ForeignCommit, Grows
<1>5. ASSUME NEW p \in Promoter, PromoterStep(p) PROVE Grows
  <2>1. ASSUME NEW at, NEW from, NEW to, NEW next, ~NotCalled(p),
               Request(p, at, from, to, next)
        PROVE  Grows
    BY <2>1, <1>0, CallTypes DEF Request
  <2>2. ASSUME NEW at, NEW s, NEW next, LogStep(p, at, s, next) PROVE Grows
    BY <2>2 DEF LogStep, Grows
  <2>3. CASE CheckTarget(p) BY <2>3 DEF CheckTarget, Grows
  <2>4. CASE Checkout(p)    BY <2>4 DEF Checkout, Grows
  <2>5. CASE MergeFails(p)  BY <2>5 DEF MergeFails, Grows
  <2>6. CASE PostTest(p)    BY <2>6 DEF PostTest, Grows
  <2>7. CASE Merge(p)
    <3>1. promoter[p].commit \in Commit BY <2>7, CallTypes DEF Merge, NotCalled
    <3> QED BY <2>7, <3>1, HeadGrows DEF Merge, Grows
  <2>8. CASE RequestPending(p)
    BY <2>8, <2>1 DEF RequestPending, Request, NotCalled
  <2>9. CASE Rollback(p)
    BY <2>9, <2>1 DEF Rollback, Request, NotCalled
  <2>10. CASE RequestPromoted(p)
    BY <2>10, <2>1 DEF RequestPromoted, Request, NotCalled
  <2>11. CASE RequestRejected(p)
    BY <2>11, <2>1 DEF RequestRejected, Request, NotCalled
  <2>12. CASE RequestFinal(p)
    BY <2>12, <2>1 DEF RequestFinal, Request, NotCalled
  <2>13. CASE LogPending(p) \/ LogPromoted(p) \/ LogFinal(p)
    BY <2>13, <2>2 DEF LogPending, LogPromoted, LogFinal
  <2> QED
    BY <1>5, <2>3, <2>4, <2>5, <2>6, <2>7, <2>8, <2>9, <2>10, <2>11, <2>12,
       <2>13 DEF PromoterStep
<1>6. ASSUME NEW p \in Promoter,
             CrashPromoter(p) \/ \E t \in Task, r \in receipts : Call(p, t, r)
      PROVE  Grows
  BY <1>6 DEF CrashPromoter, Call, Grows
<1>7. CASE ReconcilerStep \/ CrashReconciler
  <2>1. CASE Settle
    <3>1. reconciler.task \in Task
      BY <2>1 DEF Settle, ReconcilerSound, TypeOK
    <3> QED BY <2>1, <3>1, <1>0 DEF Settle, EngineTransition
  <2> QED
    BY <1>7, <2>1 DEF ReconcilerStep, ListPending, Examine, SettleFails,
                      CrashReconciler, Grows
<1>8. CASE UNCHANGED vars
  BY <1>8 DEF vars, Grows
<1> QED BY <1>1, <1>2, <1>3, <1>4, <1>5, <1>6, <1>7, <1>8 DEF Next

-----------------------------------------------------------------------------
(***************************************************************************)
(* Who moves a proposal.  Every change of a row of the proposals table is   *)
(* one of these, with the mover at the program point of that statement.    *)
(***************************************************************************)

\* The statements of promote that move a proposal up: <<program point, to>>.
Requests == {<<"pend", "PROMOTION_PENDING">>, <<"rollback", "VERIFIED">>,
             <<"promote", "PROMOTED">>, <<"finish", "POST_PROMOTION_VERIFIED">>}

Mover(u) ==
  \/ state'[u] \notin PrivilegedStates
  \/ \E v \in Verifier :
       verifier[v].pc = "claim" /\ verifier[v].task = u /\ state'[u] = "VERIFIED"
  \/ \E p \in Promoter :
       promoter[p].task = u /\ <<promoter[p].pc, state'[u]>> \in Requests
  \/ /\ reconciler.pc = "decide" /\ reconciler.task = u
     /\ state[u] = "PROMOTION_PENDING" /\ state'[u] = Verdict(reconciler.merged)

StateStep ==
  \/ UNCHANGED state
  \/ \E t \in Task : \E c \in Offered[t] : Seal(t, c)
  \/ \E t \in Task :
       Moves(t, state[t], state'[t]) /\ Mover(t) /\ UNCHANGED <<sealed, head>>

\* A row that is not there has no legal move.
LEMMA AbsentHasNoMove == LegalNext(Absent) = {}
BY DEF LegalNext, LegalTransitions, Absent

\* Every change of a proposal is a seal, or a legal move by one of the movers.
LEMMA NextStates ==
  ASSUME Sound, [Next]_vars
  PROVE  StateStep
<1> USE DEF Sound
<1>0. ASSUME NEW t \in Task, NEW from, NEW to, Moves(t, from, to), Mover(t),
             UNCHANGED <<sealed, head>>
      PROVE  StateStep
  <2>1. state'[t] = to BY <1>0 DEF Moves, TypeOK
  <2>2. state[t] = from BY <1>0 DEF Moves
  <2> QED BY <1>0, <2>1, <2>2 DEF StateStep
<1>1. ASSUME NEW p \in Promoter, NEW at, NEW from, NEW to, NEW next,
             ~NotCalled(p), Request(p, at, from, to, next),
             <<at, to>> \in Requests \/ to \notin PrivilegedStates
      PROVE  StateStep
  <2> DEFINE t == promoter[p].task
  <2>1. t \in Task BY <1>1, CallTypes
  <2>2. promoter[p].pc = at /\ UNCHANGED <<sealed, head>> BY <1>1 DEF Request
  <2>3. CASE Moves(t, from, to)
    <3>1. state'[t] = to BY <2>1, <2>3 DEF Moves, TypeOK
    <3>2. Mover(t) BY <1>1, <2>2, <3>1 DEF Mover
    <3> QED BY <2>1, <2>2, <2>3, <3>2, <1>0
  <2> QED BY <1>1, <2>1, <2>3, EngineMoves DEF Request, StateStep
<1>2. ASSUME NEW t \in Task, UpdateState(t) PROVE StateStep
  <2>1. PICK to \in PublicTargets(state[t]) : state' = Swap(t, state[t], to)
    BY <1>2 DEF UpdateState
  <2>2. CASE Moves(t, state[t], to)
    <3>1. state'[t] = to BY <2>2 DEF Moves, TypeOK
    <3>2. Mover(t) BY <3>1 DEF PublicTargets, Mover
    <3> QED BY <1>2, <2>2, <3>2, <1>0 DEF UpdateState
  <2> QED BY <2>1, <2>2, SwapMoves DEF StateStep
<1>3. ASSUME NEW v \in Verifier, VerifierStep(v) PROVE StateStep
  <2>1. CASE VerifyClaim(v)
    <3> DEFINE t == verifier[v].task
    <3>1. t \in Task BY <2>1, RunTypes DEF VerifyClaim
    <3>2. CASE Moves(t, verifier[v].from, "VERIFIED")
      <4>1. state'[t] = "VERIFIED" BY <3>1, <3>2 DEF Moves, TypeOK
      <4>2. Mover(t) BY <2>1, <4>1 DEF Mover, VerifyClaim
      <4> QED BY <2>1, <3>1, <3>2, <4>2, <1>0 DEF VerifyClaim
    <3> QED BY <2>1, <3>1, <3>2, EngineMoves DEF VerifyClaim, StateStep
  <2> QED
    BY <1>3, <2>1 DEF VerifierStep, VerifyRefuse, VerifyRun, VerifyFail,
                      VerifyPass, VerifyRecord, CrashVerifier, StateStep
<1>4. ASSUME NEW p \in Promoter, PromoterStep(p) PROVE StateStep
  <2>1. CASE RequestPending(p)
    BY <2>1, <1>1 DEF RequestPending, Request, NotCalled, Requests
  <2>2. CASE Rollback(p)
    BY <2>2, <1>1 DEF Rollback, Request, NotCalled, Requests
  <2>3. CASE RequestPromoted(p)
    BY <2>3, <1>1 DEF RequestPromoted, Request, NotCalled, Requests
  <2>4. CASE RequestRejected(p)
    <3>1. "REJECTED" \notin PrivilegedStates BY DEF PrivilegedStates
    <3>2. ~NotCalled(p) BY <2>4 DEF RequestRejected, Request, NotCalled
    <3> QED BY <2>4, <3>1, <3>2, <1>1 DEF RequestRejected
  <2>5. CASE RequestFinal(p)
    BY <2>5, <1>1 DEF RequestFinal, Request, NotCalled, Requests
  <2>6. CASE UNCHANGED state
    BY <2>6 DEF StateStep
  <2> QED
    BY <1>4, <2>1, <2>2, <2>3, <2>4, <2>5, <2>6
       DEF PromoterStep, CheckTarget, Checkout, Merge, MergeFails, PostTest,
           LogStep, LogPending, LogPromoted, LogFinal
<1>5. CASE ReconcilerStep \/ CrashReconciler
  <2>1. CASE Settle
    <3> DEFINE t == reconciler.task
    <3>1. t \in Task
      BY <2>1 DEF Settle, ReconcilerSound, TypeOK
    <3>2. CASE Moves(t, "PROMOTION_PENDING", Verdict(reconciler.merged))
      <4>1. state'[t] = Verdict(reconciler.merged) BY <3>1, <3>2 DEF Moves, TypeOK
      <4>2. Mover(t) BY <2>1, <4>1 DEF Mover, Settle
      <4> QED BY <2>1, <3>1, <3>2, <4>2, <1>0 DEF Settle
    <3> QED BY <2>1, <3>1, <3>2, SwapMoves DEF Settle, StateStep
  <2> QED
    BY <1>5, <2>1 DEF ReconcilerStep, ListPending, Examine, SettleFails,
                      CrashReconciler, StateStep
<1> QED
  BY <1>2, <1>3, <1>4, <1>5
     DEF Next, ForeignCommit, Call, CrashPromoter, vars, StateStep

-----------------------------------------------------------------------------
(***************************************************************************)
(* Each process may rely on what it knew when it started its next step.    *)
(***************************************************************************)

\* Persisted receipts name offered candidates, and VERIFIED ones a passed run.
LEMMA NextReceipts ==
  ASSUME Sound, [Next]_vars
  PROVE  ReceiptsSound'
<1> USE DEF Sound
<1>1. tested \subseteq tested' BY NextGrows DEF Grows
<1>2. ASSUME NEW t \in Task, NEW c \in Offered[t], NEW status \in ReceiptStatus,
             FileReceipt(t, c, status),
             status = "VERIFIED" => <<t, c>> \in tested
      PROVE  ReceiptsSound'
  <2>1. SUFFICES ASSUME NEW r \in receipts'
                 PROVE  /\ r.commit \in Offered[r.task]
                        /\ r.status = "VERIFIED" => <<r.task, r.commit>> \in tested'
    BY DEF ReceiptsSound
  <2>2. r \in receipts \/ r = [task |-> t, commit |-> c, status |-> status]
    BY <1>2 DEF FileReceipt
  <2>3. CASE r \in receipts
    BY <1>1, <2>3 DEF ReceiptsSound
  <2>4. CASE r = [task |-> t, commit |-> c, status |-> status]
    BY <1>1, <1>2, <2>4
  <2> QED BY <2>2, <2>3, <2>4
<1>3. ASSUME NEW v \in Verifier, VerifierStep(v) PROVE ReceiptsSound'
  <2>1. ASSUME NEW t \in Task, NEW c \in Offered[t], VerifyRefuse(v, t, c)
        PROVE  ReceiptsSound'
    BY <2>1, <1>2, ManifestAssumption DEF VerifyRefuse, ReceiptStatus
  <2>2. CASE VerifyFail(v)
    <3>1. verifier[v].task \in Task /\ verifier[v].commit \in Offered[verifier[v].task]
      BY <2>2 DEF VerifyFail, VerifiersSound, VerifierSound
    <3> QED BY <2>2, <3>1, <1>2, ManifestAssumption DEF VerifyFail, ReceiptStatus
  <2>3. CASE VerifyRecord(v)
    <3>1. /\ verifier[v].task \in Task
          /\ verifier[v].commit \in Offered[verifier[v].task]
          /\ <<verifier[v].task, verifier[v].commit>> \in tested
      BY <2>3 DEF VerifyRecord, VerifiersSound, VerifierSound
    <3> QED BY <2>3, <3>1, <1>2 DEF VerifyRecord, ReceiptStatus
  <2>4. CASE UNCHANGED receipts
    BY <2>4, <1>1 DEF ReceiptsSound
  <2> QED
    BY <1>3, <2>1, <2>2, <2>3, <2>4
       DEF VerifierStep, VerifyRun, VerifyPass, VerifyClaim, CrashVerifier
<1>4. CASE UNCHANGED receipts
  BY <1>4, <1>1 DEF ReceiptsSound
<1>5. ASSUME NEW p \in Promoter, PromoterStep(p) PROVE UNCHANGED receipts
  BY <1>5 DEF PromoterStep, CheckTarget, Checkout, Merge, MergeFails, PostTest,
     Request, RequestPending, Rollback, RequestPromoted, RequestRejected,
     RequestFinal, LogStep, LogPending, LogPromoted, LogFinal
<1> QED
  BY <1>3, <1>4, <1>5 DEF Next, Seal, UpdateState, ForeignCommit, Call,
     CrashPromoter, ReconcilerStep, ListPending, Examine, Settle, SettleFails,
     CrashReconciler, vars

\* record_proposal is the only statement that writes the sealed candidate.
LEMMA SealsOnlyOnce ==
  ASSUME [Next]_vars, ~\E t \in Task : \E c \in Offered[t] : Seal(t, c)
  PROVE  UNCHANGED sealed
<1>1. ASSUME NEW p \in Promoter, PromoterStep(p) PROVE UNCHANGED sealed
  BY <1>1 DEF PromoterStep, CheckTarget, Checkout, Merge, MergeFails, PostTest,
     Request, RequestPending, Rollback, RequestPromoted, RequestRejected,
     RequestFinal, LogStep, LogPending, LogPromoted, LogFinal
<1>2. ASSUME NEW v \in Verifier, VerifierStep(v) PROVE UNCHANGED sealed
  BY <1>2 DEF VerifierStep, VerifyRefuse, VerifyRun, VerifyFail, VerifyPass,
              VerifyClaim, VerifyRecord, CrashVerifier
<1> QED
  BY <1>1, <1>2
     DEF Next, UpdateState, ForeignCommit, Call, CrashPromoter, ReconcilerStep,
         ListPending, Examine, Settle, SettleFails, CrashReconciler, vars

\* A recorded proposal keeps the candidate it was sealed with.
LEMMA NextSeals ==
  ASSUME Sound, [Next]_vars
  PROVE  SealsSound'
<1> USE DEF Sound
<1>1. SUFFICES ASSUME NEW u \in Task
               PROVE  IF state'[u] = Absent THEN sealed'[u] = NoCommit
                      ELSE sealed'[u] \in Offered[u]
  BY DEF SealsSound
<1>2. CASE state[u] # Absent
  BY <1>2, NextGrows DEF Grows, SealsSound
<1>3. CASE state[u] = Absent
  <2>1. ASSUME NEW t \in Task, NEW c \in Offered[t], Seal(t, c)
        PROVE  IF state'[u] = Absent THEN sealed'[u] = NoCommit
               ELSE sealed'[u] \in Offered[u]
    <3>1. PICK s \in SealStates : state' = [state EXCEPT ![t] = s]
      BY <2>1 DEF Seal
    <3>2. s # Absent BY ManifestAssumption, AbsentIsNoState
    <3> QED BY <1>3, <2>1, <3>1, <3>2 DEF Seal, SealsSound, TypeOK
  <2>2. ASSUME ~\E t \in Task : \E c \in Offered[t] : Seal(t, c)
        PROVE  state'[u] = Absent
    BY <1>3, <2>2, NextStates, AbsentHasNoMove DEF StateStep, Moves, TypeOK
  <2>3. ASSUME ~\E t \in Task : \E c \in Offered[t] : Seal(t, c)
        PROVE  UNCHANGED sealed
    BY <2>3, SealsOnlyOnce
  <2> QED BY <1>3, <2>1, <2>2, <2>3 DEF SealsSound
<1> QED BY <1>2, <1>3

\* A verify_candidate call claims VERIFIED only for what its own run passed.
LEMMA NextVerifiers ==
  ASSUME Sound, [Next]_vars
  PROVE  VerifiersSound'
<1> USE DEF Sound
<1>1. tested \subseteq tested' BY NextGrows DEF Grows
<1>2. ASSUME NEW v \in Verifier, verifier'[v] = verifier[v] PROVE VerifierSound(v)'
  BY <1>1, <1>2 DEF VerifiersSound, VerifierSound
<1>3. ASSUME NEW v \in Verifier, VerifierStep(v) PROVE VerifiersSound'
  <2>1. \A w \in Verifier \ {v} : verifier'[w] = verifier[w]
    BY <1>3 DEF VerifierStep, VerifyRefuse, VerifyRun, VerifyFail, VerifyPass,
                VerifyClaim, VerifyRecord, CrashVerifier, TypeOK
  <2>2. ASSUME NEW t \in Task, NEW c \in Offered[t], VerifyRefuse(v, t, c)
        PROVE  VerifierSound(v)'
    BY <2>2, <1>2 DEF VerifyRefuse
  <2>3. ASSUME NEW t \in Task, NEW c \in Offered[t], VerifyRun(v, t, c)
        PROVE  VerifierSound(v)'
    BY <2>3 DEF VerifyRun, VerifierSound, TypeOK, IdleVerifier
  <2>4. ASSUME VerifyFail(v) \/ VerifyRecord(v) \/ CrashVerifier(v)
        PROVE  VerifierSound(v)'
    <3>1. verifier'[v] = IdleVerifier
      BY <2>4 DEF VerifyFail, VerifyRecord, CrashVerifier, TypeOK
    <3> QED BY <3>1 DEF VerifierSound, IdleVerifier
  <2>5. ASSUME VerifyPass(v) PROVE VerifierSound(v)'
    BY <2>5 DEF VerifyPass, VerifiersSound, VerifierSound, TypeOK
  <2>6. ASSUME VerifyClaim(v) PROVE VerifierSound(v)'
    BY <2>6 DEF VerifyClaim, VerifiersSound, VerifierSound, TypeOK
  <2>7. VerifierSound(v)'
    BY <1>3, <2>2, <2>3, <2>4, <2>5, <2>6 DEF VerifierStep
  <2> QED BY <1>2, <2>1, <2>7 DEF VerifiersSound
<1>4. CASE UNCHANGED verifier
  BY <1>2, <1>4 DEF VerifiersSound
<1>5. ASSUME NEW p \in Promoter, PromoterStep(p) PROVE UNCHANGED verifier
  BY <1>5 DEF PromoterStep, CheckTarget, Checkout, Merge, MergeFails, PostTest,
     Request, RequestPending, Rollback, RequestPromoted, RequestRejected,
     RequestFinal, LogStep, LogPending, LogPromoted, LogFinal
<1> QED
  BY <1>3, <1>4, <1>5 DEF Next, Seal, UpdateState, ForeignCommit, Call,
     CrashPromoter, ReconcilerStep, ListPending, Examine, Settle, SettleFails,
     CrashReconciler, vars

\* A running promote call keeps what it has established: the other processes
\* can only add to it.
LEMMA PromoterKeeps ==
  ASSUME Sound, Grows, NEW p \in Promoter, ~NotCalled(p),
         promoter'[p].task = promoter[p].task,
         promoter'[p].commit = promoter[p].commit,
         promoter'[p].pc \in PastCheck =>
           \/ promoter[p].pc \in PastCheck
           \/ Base[sealed[promoter[p].task]] \in Ancestors[head],
         promoter'[p].pc \in PastMerge =>
           promoter[p].pc \in PastMerge \/ promoter[p].commit \in Ancestors[head'],
         promoter'[p].pc \in PastIntent =>
           \/ promoter[p].pc \in PastIntent
           \/ [task |-> promoter[p].task, commit |-> promoter[p].commit,
               state |-> "PROMOTION_PENDING"] \in wal'
  PROVE  PromoterSound(p)'
BY DEF Sound, Grows, PromotersSound, PromoterSound, OnTarget

\* A promote call past its merge has its commit on the branch, past its first
\* log row has the row, and always has its VERIFIED receipt and its proposal.
LEMMA NextPromoters ==
  ASSUME Sound, [Next]_vars
  PROVE  PromotersSound'
<1> USE DEF Sound
<1>0. Grows BY NextGrows
<1>1. ASSUME NEW p \in Promoter, promoter'[p] = promoter[p] PROVE PromoterSound(p)'
  <2>1. CASE NotCalled(p) BY <1>1, <2>1 DEF PromoterSound, NotCalled
  <2>2. CASE ~NotCalled(p) BY <1>0, <1>1, <2>2, PromoterKeeps
  <2> QED BY <2>1, <2>2
<1>2. CASE UNCHANGED promoter
  BY <1>1, <1>2 DEF PromotersSound
<1>3. ASSUME NEW p \in Promoter, PromoterStep(p) PROVE PromotersSound'
  <2>1. PICK pc : Goto(p, pc)
    BY <1>3 DEF PromoterStep, CheckTarget, Checkout, Merge, MergeFails, PostTest,
       Request, RequestPending, Rollback, RequestPromoted, RequestRejected,
       RequestFinal, LogStep, LogPending, LogPromoted, LogFinal
  <2>2. \A q \in Promoter \ {p} : promoter'[q] = promoter[q]
    BY <2>1 DEF Goto, TypeOK
  <2>3. /\ promoter'[p].task = promoter[p].task
        /\ promoter'[p].commit = promoter[p].commit
    BY <2>1 DEF Goto, TypeOK
  <2>4. ~NotCalled(p)
    BY <1>3 DEF PromoterStep, CheckTarget, Checkout, Merge, MergeFails, PostTest,
       Request, RequestPending, Rollback, RequestPromoted, RequestRejected,
       RequestFinal, LogStep, LogPending, LogPromoted, LogFinal, NotCalled
  <2>5. promoter'[p].pc \in PastMerge =>
          promoter[p].pc \in PastMerge \/ promoter[p].commit \in Ancestors[head']
    <3>1. CASE Merge(p)
      <4>1. promoter[p].commit \in Commit BY <2>4, CallTypes
      <4> QED BY <3>1, <4>1, GitAssumption DEF Merge, MergedHead
    <3>2. CASE CheckTarget(p)
      BY <3>2 DEF CheckTarget, Goto, TypeOK, PastMerge
    <3>3. CASE Checkout(p)
      BY <3>3 DEF Checkout, Goto, TypeOK, PastMerge
    <3>4. CASE MergeFails(p)
      BY <3>4 DEF MergeFails, Goto, TypeOK, PastMerge
    <3>5. CASE RequestPending(p) \/ Rollback(p) \/ RequestRejected(p)
      BY <3>5 DEF RequestPending, Rollback, RequestRejected, Request, Goto,
                  TypeOK, PastMerge
    <3>6. CASE LogPending(p)
      BY <3>6 DEF LogPending, LogStep, Goto, TypeOK, PastMerge
    <3>7. CASE promoter[p].pc \in PastMerge
      BY <3>7
    <3> QED
      BY <1>3, <3>1, <3>2, <3>3, <3>4, <3>5, <3>6, <3>7
         DEF PromoterStep, RequestPromoted, LogPromoted, PostTest, RequestFinal,
             LogFinal, Request, LogStep, PastMerge
  <2>6. promoter'[p].pc \in PastIntent =>
          \/ promoter[p].pc \in PastIntent
          \/ [task |-> promoter[p].task, commit |-> promoter[p].commit,
              state |-> "PROMOTION_PENDING"] \in wal'
    <3>1. CASE CheckTarget(p)
      BY <3>1 DEF CheckTarget, Goto, TypeOK, PastIntent, PastMerge
    <3>2. CASE RequestPending(p) \/ Rollback(p)
      BY <3>2 DEF RequestPending, Rollback, Request, Goto, TypeOK, PastIntent,
                  PastMerge
    <3>3. CASE LogPending(p)
      BY <3>3 DEF LogPending, LogStep
    <3>4. CASE promoter[p].pc \in PastIntent
      BY <3>4
    <3> QED
      BY <1>3, <3>1, <3>2, <3>3, <3>4
         DEF PromoterStep, RequestPromoted, LogPromoted, PostTest, RequestFinal,
             LogFinal, RequestRejected, Checkout, Merge, MergeFails, Request,
             LogStep, PastIntent, PastMerge
  <2>7. promoter'[p].pc \in PastCheck =>
          \/ promoter[p].pc \in PastCheck
          \/ Base[sealed[promoter[p].task]] \in Ancestors[head]
    <3>1. CASE CheckTarget(p)
      BY <3>1 DEF CheckTarget, BaseOnTarget, Goto, TypeOK, PastCheck, PastIntent,
                  PastMerge
    <3>2. CASE Rollback(p)
      BY <3>2 DEF Rollback, Request, Goto, TypeOK, PastCheck, PastIntent, PastMerge
    <3>3. CASE promoter[p].pc \in PastCheck
      BY <3>3
    <3> QED
      BY <1>3, <3>1, <3>2, <3>3
         DEF PromoterStep, RequestPending, RequestPromoted, RequestRejected,
             RequestFinal, LogPending, LogPromoted, LogFinal, PostTest, Checkout,
             Merge, MergeFails, Request, LogStep, PastCheck, PastIntent, PastMerge
  <2>8. PromoterSound(p)'
    BY <1>0, <2>3, <2>4, <2>5, <2>6, <2>7, PromoterKeeps
  <2> QED BY <1>1, <2>2, <2>8 DEF PromotersSound
<1>4. ASSUME NEW p \in Promoter, CrashPromoter(p) PROVE PromotersSound'
  <2>1. \A q \in Promoter \ {p} : promoter'[q] = promoter[q]
    BY <1>4 DEF CrashPromoter, TypeOK
  <2>2. PromoterSound(p)'
    BY <1>4 DEF CrashPromoter, PromoterSound, NotCalled, IdlePromoter, TypeOK
  <2> QED BY <1>1, <2>1, <2>2 DEF PromotersSound
<1>5. ASSUME NEW p \in Promoter, NEW t \in Task, NEW r \in receipts, Call(p, t, r)
      PROVE  PromotersSound'
  <2>1. \A q \in Promoter \ {p} : promoter'[q] = promoter[q]
    BY <1>5 DEF Call, TypeOK
  <2>2. /\ promoter'[p].task = t /\ promoter'[p].commit = r.commit
        /\ promoter'[p].pc \in {"declined", "accepted", "check"}
        /\ promoter'[p].pc = "check" => Admissible(t, r)
    BY <1>5 DEF Call, TypeOK
  <2>3. r = [task |-> r.task, commit |-> r.commit, status |-> r.status]
    BY DEF TypeOK, Receipt
  <2>4. PromoterSound(p)'
    BY <1>5, <2>2, <2>3
       DEF Call, PromoterSound, NotCalled, Admissible, PastMerge, PastIntent,
           PastCheck
  <2> QED BY <1>1, <2>1, <2>4 DEF PromotersSound
<1>6. ASSUME NEW v \in Verifier, VerifierStep(v) PROVE UNCHANGED promoter
  BY <1>6 DEF VerifierStep, VerifyRefuse, VerifyRun, VerifyFail, VerifyPass,
              VerifyClaim, VerifyRecord, CrashVerifier
<1> QED
  BY <1>2, <1>3, <1>4, <1>5, <1>6
     DEF Next, Seal, UpdateState, ForeignCommit, ReconcilerStep, ListPending,
         Examine, Settle, SettleFails, CrashReconciler, vars

\* The reconciler's answer about a candidate stays true while it acts on it.
LEMMA NextReconciler ==
  ASSUME Sound, [Next]_vars
  PROVE  ReconcilerSound'
<1> USE DEF Sound
<1>0. Grows BY NextGrows
<1>1. CASE UNCHANGED reconciler
  BY <1>0, <1>1 DEF Grows, ReconcilerSound, TypeOK, OnTarget
<1>2. CASE ListPending
  BY <1>2 DEF ListPending, Pending, ReconcilerSound, IdleReconciler, Absent
<1>3. ASSUME NEW t \in Task, Examine(t) PROVE ReconcilerSound'
  BY <1>3 DEF Examine, ReconcilerSound, OnTarget
<1>4. CASE Settle
  <2>1. \A t \in reconciler.todo : state'[t] # Absent
    BY <1>0 DEF Grows, ReconcilerSound, TypeOK
  <2> QED BY <1>4, <2>1 DEF Settle, ReconcilerSound, IdleReconciler
<1>5. CASE SettleFails \/ CrashReconciler
  BY <1>5 DEF SettleFails, CrashReconciler, ReconcilerSound, IdleReconciler
<1>6. ASSUME NEW p \in Promoter, PromoterStep(p) PROVE UNCHANGED reconciler
  BY <1>6 DEF PromoterStep, CheckTarget, Checkout, Merge, MergeFails, PostTest,
     Request, RequestPending, Rollback, RequestPromoted, RequestRejected,
     RequestFinal, LogStep, LogPending, LogPromoted, LogFinal
<1>7. ASSUME NEW v \in Verifier, VerifierStep(v) PROVE UNCHANGED reconciler
  BY <1>7 DEF VerifierStep, VerifyRefuse, VerifyRun, VerifyFail, VerifyPass,
              VerifyClaim, VerifyRecord, CrashVerifier
<1> QED
  BY <1>1, <1>2, <1>3, <1>4, <1>5, <1>6, <1>7
     DEF Next, Seal, UpdateState, ForeignCommit, Call, CrashPromoter,
         ReconcilerStep, vars

\* An empty database and idle processes are sound.
LEMMA InitSound == Init => Sound
BY InitTypeOK
   DEF Init, Sound, ReceiptsSound, SealsSound, VerifiersSound, VerifierSound,
       PromotersSound, PromoterSound, ReconcilerSound, IdleVerifier, IdlePromoter,
       IdleReconciler, NotCalled

\* The soundness of all processes is inductive.
LEMMA NextSound == Sound /\ [Next]_vars => Sound'
BY NextType, NextReceipts, NextSeals, NextVerifiers, NextPromoters, NextReconciler
   DEF Sound

\* At every moment each process in the middle of a call may rely on what it
\* established before, whatever the other processes did or lost since.
THEOREM Soundness == Spec => []Sound
BY InitSound, NextSound, PTL DEF Spec

\* Every row, log entry, commit and program counter is always of its type.
THEOREM TypeCorrect == Spec => []TypeOK
<1>1. Sound => TypeOK BY DEF Sound
<1> QED BY <1>1, Soundness, PTL

\* The target branch is never moved back or aside: promote merges with --ff-only
\* and nothing else in the pipeline moves it.
THEOREM BranchOnlyGrows == Spec => TargetOnlyGrows
<1>1. Sound /\ [Next]_vars => [Ancestors[head] \subseteq Ancestors[head']]_vars
  BY NextGrows DEF Grows
<1> QED BY <1>1, Soundness, PTL DEF Spec, TargetOnlyGrows

-----------------------------------------------------------------------------
(***************************************************************************)
(* The safety invariants.                                                  *)
(***************************************************************************)

\* The log: a landing is logged after its merge, by a call that logged its intent.
LEMMA NextLog ==
  ASSUME Sound, LogIsTruthful, [Next]_vars
  PROVE  LogIsTruthful'
<1> USE DEF Sound
<1>0. Grows BY NextGrows
<1>1. SUFFICES ASSUME NEW e \in wal', e.state \in LandedStates
               PROVE  /\ e.commit \in Ancestors[head']
                      /\ [e EXCEPT !.state = "PROMOTION_PENDING"] \in wal'
  BY DEF LogIsTruthful, OnTarget
<1>2. CASE e \in wal
  BY <1>0, <1>1, <1>2 DEF LogIsTruthful, OnTarget, Grows
<1>3. CASE e \notin wal
  <2>1. PICK p \in Promoter : LogPending(p) \/ LogPromoted(p) \/ LogFinal(p)
    <3>1. ASSUME NEW p \in Promoter, PromoterStep(p)
          PROVE  UNCHANGED wal \/ LogPending(p) \/ LogPromoted(p) \/ LogFinal(p)
      BY <3>1 DEF PromoterStep, CheckTarget, Checkout, Merge, MergeFails, PostTest,
         Request, RequestPending, Rollback, RequestPromoted, RequestRejected,
         RequestFinal
    <3>2. ASSUME NEW v \in Verifier, VerifierStep(v) PROVE UNCHANGED wal
      BY <3>2 DEF VerifierStep, VerifyRefuse, VerifyRun, VerifyFail, VerifyPass,
                  VerifyClaim, VerifyRecord, CrashVerifier
    <3> QED
      BY <1>1, <1>3, <3>1, <3>2
         DEF Next, Seal, UpdateState, ForeignCommit, Call, CrashPromoter,
             ReconcilerStep, ListPending, Examine, Settle, SettleFails,
             CrashReconciler, vars
  <2>2. /\ e.task = promoter[p].task /\ e.commit = promoter[p].commit
        /\ e = [task |-> promoter[p].task, commit |-> promoter[p].commit,
                state |-> e.state]
    BY <1>1, <1>3, <2>1 DEF LogPending, LogPromoted, LogFinal, LogStep
  <2>3. promoter[p].pc \in {"walPromote", "walFinish"}
    BY <1>1, <1>3, <2>1 DEF LogPending, LogPromoted, LogFinal, LogStep, LandedStates
  <2>4. /\ promoter[p].commit \in Ancestors[head]
        /\ [task |-> promoter[p].task, commit |-> promoter[p].commit,
            state |-> "PROMOTION_PENDING"] \in wal
    BY <2>3 DEF PromotersSound, PromoterSound, NotCalled, PastIntent, PastMerge,
                OnTarget
  <2>5. [e EXCEPT !.state = "PROMOTION_PENDING"] =
          [task |-> promoter[p].task, commit |-> promoter[p].commit,
           state |-> "PROMOTION_PENDING"]
    BY <2>2
  <2> QED BY <1>0, <2>2, <2>4, <2>5 DEF Grows
<1> QED BY <1>2, <1>3

\* The promotion log never claims a landing the branch does not show.
THEOREM LogCorrect == Spec => []LogIsTruthful
<1>1. Init => LogIsTruthful BY DEF Init, LogIsTruthful
<1>2. Sound /\ LogIsTruthful /\ [Next]_vars => LogIsTruthful' BY NextLog
<1> QED BY <1>1, <1>2, Soundness, PTL DEF Spec

\* The moves of promote: what the mover knows of the receipt it works from.
LEMMA MoverKnows ==
  ASSUME Sound, NEW u \in Task, NEW p \in Promoter, promoter[p].task = u,
         <<promoter[p].pc, state'[u]>> \in Requests
  PROVE  /\ Certified(u)
         /\ promoter[p].commit \in Offered[u]
         /\ <<u, promoter[p].commit>> \in tested
         /\ state'[u] \in LandedStates => OnTarget(promoter[p].commit)
<1> USE DEF Sound
<1>1. ~NotCalled(p) BY DEF Requests, NotCalled
<1>2. [task |-> u, commit |-> promoter[p].commit, status |-> "VERIFIED"] \in receipts
  BY <1>1 DEF PromotersSound, PromoterSound
<1>3. /\ promoter[p].commit \in Offered[u]
      /\ <<u, promoter[p].commit>> \in tested
  BY <1>2 DEF ReceiptsSound
<1>4. state'[u] \in LandedStates => promoter[p].pc \in PastMerge
  BY DEF Requests, LandedStates, PastMerge
<1> QED BY <1>1, <1>2, <1>3, <1>4 DEF Certified, PromotersSound, PromoterSound

Safe == PromotedIsOnTarget /\ PromotionIsCertified

\* The safety of a proposal in promotion is preserved, if no caller seals a
\* manifest that already claims a privileged state.
LEMMA NextSafe ==
  ASSUME SealSafe, Sound, Safe, [Next]_vars
  PROVE  Safe'
<1> USE DEF Sound, Safe
<1>0. Grows BY NextGrows
<1>1. SealsSound' BY NextSeals
<1>2. SUFFICES ASSUME NEW u \in Task
               PROVE  /\ state'[u] \in LandedStates =>
                            \E c \in Offered[u] : c \in Ancestors[head']
                      /\ state'[u] \in LandedStates \cup {"PROMOTION_PENDING"} =>
                            \E r \in receipts' : r.task = u /\ r.status = "VERIFIED"
  BY DEF PromotedIsOnTarget, PromotionIsCertified, OnTarget, Certified
<1>3. CASE state'[u] = state[u]
  BY <1>0, <1>3 DEF PromotedIsOnTarget, PromotionIsCertified, OnTarget, Certified,
     Grows
<1>4. LandedStates \cup {"PROMOTION_PENDING"} \subseteq PrivilegedStates
  BY DEF LandedStates, PrivilegedStates
<1>5. ASSUME NEW c \in Offered[u], Seal(u, c) PROVE state'[u] \notin PrivilegedStates
  BY <1>5 DEF Seal, SealSafe, TypeOK
<1>6. ASSUME Moves(u, state[u], state'[u]), Mover(u), UNCHANGED <<sealed, head>>,
             state'[u] \in PrivilegedStates
      PROVE  /\ state'[u] \in LandedStates =>
                   \E c \in Offered[u] : c \in Ancestors[head']
             /\ state'[u] \in LandedStates \cup {"PROMOTION_PENDING"} =>
                   \E r \in receipts' : r.task = u /\ r.status = "VERIFIED"
  <2>1. ASSUME state'[u] = "VERIFIED"
        PROVE  state'[u] \notin LandedStates \cup {"PROMOTION_PENDING"}
    BY <2>1 DEF LandedStates
  <2>2. ASSUME NEW p \in Promoter, promoter[p].task = u,
               <<promoter[p].pc, state'[u]>> \in Requests
        PROVE  /\ state'[u] \in LandedStates =>
                     \E c \in Offered[u] : c \in Ancestors[head']
               /\ \E r \in receipts' : r.task = u /\ r.status = "VERIFIED"
    <3>1. /\ Certified(u)
          /\ promoter[p].commit \in Offered[u]
          /\ state'[u] \in LandedStates => OnTarget(promoter[p].commit)
      BY <2>2, MoverKnows
    <3> QED BY <1>0, <3>1 DEF OnTarget, Certified, Grows
  <2>3. ASSUME reconciler.pc = "decide", reconciler.task = u,
               state[u] = "PROMOTION_PENDING", state'[u] = Verdict(reconciler.merged)
        PROVE  /\ state'[u] \in LandedStates =>
                     \E c \in Offered[u] : c \in Ancestors[head']
               /\ \E r \in receipts' : r.task = u /\ r.status = "VERIFIED"
    <3>1. sealed[u] \in Offered[u]
      BY <2>3 DEF SealsSound, Absent
    <3>2. state'[u] \in LandedStates => sealed[u] \in Ancestors[head]
      BY <2>3 DEF Verdict, LandedStates, ReconcilerSound, OnTarget
    <3>3. \E r \in receipts : r.task = u /\ r.status = "VERIFIED"
      BY <2>3 DEF PromotionIsCertified, Certified
    <3> QED BY <1>0, <3>1, <3>2, <3>3 DEF Grows
  <2> QED
    <3>1. CASE state'[u] = "VERIFIED" BY <2>1, <3>1
    <3>2. CASE \E p \in Promoter : promoter[p].task = u
                                   /\ <<promoter[p].pc, state'[u]>> \in Requests
      BY <2>2, <3>2
    <3> QED BY <1>6, <2>3, <3>1, <3>2 DEF Mover
<1>7. \/ state'[u] = state[u]
      \/ \E c \in Offered[u] : Seal(u, c)
      \/ Moves(u, state[u], state'[u]) /\ Mover(u) /\ UNCHANGED <<sealed, head>>
  BY NextStates DEF StateStep, Moves, Seal, TypeOK
<1> QED BY <1>3, <1>4, <1>5, <1>6, <1>7

\* If manifests are sealed in unprivileged states, then whatever interleaves,
\* crashes or is swallowed: a proposal called promoted has a candidate on the
\* branch, and one in promotion has a persisted VERIFIED receipt.
THEOREM SafetyCorrect ==
  ASSUME SealSafe
  PROVE  Spec => [](PromotedIsOnTarget /\ PromotionIsCertified)
<1>1. Init => Safe
  BY DEF Init, Safe, PromotedIsOnTarget, PromotionIsCertified, LandedStates, Absent
<1>2. Sound /\ Safe /\ [Next]_vars => Safe' BY NextSafe
<1>3. Safe => PromotedIsOnTarget /\ PromotionIsCertified
  BY DEF Safe
<1> QED BY <1>1, <1>2, <1>3, Soundness, PTL DEF Spec

\* A proposal in promotion or promoted (PromotionCoordinator.promote_proposal,
\* promoter.py:89) has a persisted VERIFIED receipt of the physical verifier.
THEOREM PromotionCertified ==
  ASSUME SealSafe
  PROVE  Spec => []PromotionIsCertified
BY SafetyCorrect, PTL

\* No premise on manifests: whatever state record_proposal stored for them, no
\* later transition asserts more than a passed run, a receipt or a merge earned.
THEOREM PrivilegesEarned == Spec => PrivilegeIsEarned
<1> DEFINE Earned(t) ==
      /\ state'[t] = "VERIFIED" /\ state[t] # "PROMOTION_PENDING" =>
           \E c \in Offered[t] : <<t, c>> \in tested
      /\ state'[t] = "PROMOTION_PENDING" => Certified(t)
      /\ state'[t] \in LandedStates => \E c \in Offered[t] : OnTarget(c)
<1>1. ASSUME Sound, [Next]_vars, NEW t \in Task, state[t] \notin {Absent, state'[t]}
      PROVE  Earned(t)
  <2> USE DEF Sound
  <2>1. Mover(t)
    BY <1>1, NextStates DEF StateStep, Moves, Seal, TypeOK
  <2>2. CASE state'[t] \notin PrivilegedStates
    BY <2>2 DEF PrivilegedStates, LandedStates
  <2>3. ASSUME NEW v \in Verifier, verifier[v].pc = "claim", verifier[v].task = t,
               state'[t] = "VERIFIED"
        PROVE  Earned(t)
    <3>1. /\ verifier[v].commit \in Offered[t]
          /\ <<t, verifier[v].commit>> \in tested
      BY <1>1, <2>3 DEF VerifiersSound, VerifierSound
    <3> QED BY <2>3, <3>1 DEF LandedStates
  <2>4. ASSUME NEW p \in Promoter, promoter[p].task = t,
               <<promoter[p].pc, state'[t]>> \in Requests
        PROVE  Earned(t)
    BY <1>1, <2>4, MoverKnows
  <2>5. CASE /\ reconciler.pc = "decide" /\ reconciler.task = t
             /\ state[t] = "PROMOTION_PENDING"
             /\ state'[t] = Verdict(reconciler.merged)
    <3>1. sealed[t] \in Offered[t]
      BY <1>1, <2>5 DEF SealsSound, Absent
    <3>2. state'[t] \in LandedStates => OnTarget(sealed[t])
      BY <1>1, <2>5 DEF Verdict, LandedStates, ReconcilerSound
    <3> QED BY <2>5, <3>1, <3>2 DEF Verdict
  <2> QED BY <2>1, <2>2, <2>3, <2>4, <2>5 DEF Mover
<1>2. Sound /\ [Next]_vars =>
        [\A t \in Task : state[t] \notin {Absent, state'[t]} => Earned(t)]_vars
  BY <1>1
<1> QED BY <1>2, Soundness, PTL DEF Spec, PrivilegeIsEarned

-----------------------------------------------------------------------------
(***************************************************************************)
(* What a step may do to the branch.                                       *)
(***************************************************************************)

\* The branch moves in two actions only.
LEMMA HeadMovers ==
  ASSUME [Next]_vars, head' # head
  PROVE  \/ \E c \in Foreign : ForeignCommit(c)
         \/ \E p \in Promoter : Merge(p)
<1>1. ASSUME NEW p \in Promoter, PromoterStep(p) PROVE UNCHANGED head \/ Merge(p)
  BY <1>1 DEF PromoterStep, CheckTarget, Checkout, MergeFails, PostTest,
     Request, RequestPending, Rollback, RequestPromoted, RequestRejected,
     RequestFinal, LogStep, LogPending, LogPromoted, LogFinal
<1>2. ASSUME NEW v \in Verifier, VerifierStep(v) PROVE UNCHANGED head
  BY <1>2 DEF VerifierStep, VerifyRefuse, VerifyRun, VerifyFail, VerifyPass,
              VerifyClaim, VerifyRecord, CrashVerifier
<1> QED
  BY <1>1, <1>2
     DEF Next, Seal, UpdateState, Call, CrashPromoter, ReconcilerStep, ListPending,
         Examine, Settle, SettleFails, CrashReconciler, vars

\* Every move of the branch the pipeline makes is to a commit with a VERIFIED
\* receipt in the database.
THEOREM BranchIsVerified == Spec => LandsOnlyVerified
<1> DEFINE A == \/ head' = head \/ head' \in Foreign
                \/ \E r \in receipts : r.commit = head' /\ r.status = "VERIFIED"
<1>1. Sound /\ [Next]_vars => A
  <2> SUFFICES ASSUME Sound, [Next]_vars, head' # head PROVE A
    OBVIOUS
  <2>1. ASSUME NEW c \in Foreign, ForeignCommit(c) PROVE A
    BY <2>1 DEF ForeignCommit
  <2>2. ASSUME NEW p \in Promoter, Merge(p) PROVE A
    <3>1. head' = promoter[p].commit BY <2>2 DEF Merge, MergedHead
    <3>2. [task |-> promoter[p].task, commit |-> promoter[p].commit,
           status |-> "VERIFIED"] \in receipts
      BY <2>2 DEF Merge, NotCalled, Sound, PromotersSound, PromoterSound
    <3> QED BY <3>1, <3>2
  <2> QED BY <2>1, <2>2, HeadMovers
<1>2. Sound /\ [Next]_vars =>
        [head' # head => \/ head' \in Foreign
                         \/ \E r \in receipts : r.commit = head' /\ r.status = "VERIFIED"
        ]_vars
  BY <1>1
<1> QED BY <1>2, Soundness, PTL DEF Spec, LandsOnlyVerified

\* A merge brings in only commits between the sealed base, which promote found on
\* the branch, and the candidate of the receipt: the branch cannot lose the base
\* between the check and the merge.
THEOREM MergeBringsNoStowaways == Spec => NoStowaways
<1> DEFINE Brings(p) ==
      Ancestors[head'] \ Ancestors[head] \subseteq
        Ancestors[promoter[p].commit] \ Ancestors[Base[sealed[promoter[p].task]]]
<1>1. ASSUME Sound, [Next]_vars, NEW p \in Promoter, Merging(p) PROVE Brings(p)
  <2> USE <1>1 DEF Sound
  <2> DEFINE t == promoter[p].task
  <2>1. ~NotCalled(p) /\ promoter[p].pc \in PastCheck
    BY DEF Merging, NotCalled, PastCheck, PastIntent
  <2>2. t \in Task /\ state[t] # Absent /\ Base[sealed[t]] \in Ancestors[head]
    BY <2>1 DEF PromotersSound, PromoterSound
  <2>3. Base[sealed[t]] \in Commit
    BY <2>2, ManifestAssumption DEF SealsSound
  <2>4. Ancestors[Base[sealed[t]]] \subseteq Ancestors[head]
    BY <2>2, <2>3, GitAssumption DEF TypeOK
  <2>5. CASE head' = head
    BY <2>5
  <2>6. CASE head' # head
    <3>1. ~\E c \in Foreign : ForeignCommit(c)
      BY DEF ForeignCommit, Merging
    <3>2. PICK q \in Promoter : Merge(q)
      BY <2>6, <3>1, HeadMovers
    <3>3. q = p
      BY <3>2 DEF Merge, Goto, Merging, TypeOK
    <3>4. head' = promoter[p].commit
      BY <2>6, <3>2, <3>3 DEF Merge, MergedHead
    <3> QED BY <2>4, <3>4
  <2> QED BY <2>5, <2>6
<1>2. Sound /\ [Next]_vars => [\A p \in Promoter : Merging(p) => Brings(p)]_vars
  BY <1>1
<1> QED BY <1>2, Soundness, PTL DEF Spec, NoStowaways

-----------------------------------------------------------------------------
(***************************************************************************)
(* The pipeline implements ProposalCustody.                                *)
(***************************************************************************)

\* The callers of the pipeline the custody specification speaks of: manifests
\* are sealed as CANDIDATE_SEALED, and a task has one candidate.
OneManifest ==
  /\ SealStates = {"CANDIDATE_SEALED"}
  /\ \A t \in Task : \A c, d \in Offered[t] : c = d

Landed == {t \in Task : sealed[t] \in Commit /\ OnTarget(sealed[t])}

\* The initial state maps to the initial state of the custody specification.
LEMMA InitCustody == Init => Custody!Init
BY GitAssumption DEF Init, Custody!Init, OnTarget, Custody!Absent, Absent

\* A step that moves no proposal can only land more of the sealed candidates.
LEMMA StutterOrLand ==
  ASSUME Sound, Grows, UNCHANGED <<state, sealed>>
  PROVE  Custody!Land
<1>1. \A t \in Task : sealed[t] \in Commit => state[t] # Absent
  BY GitAssumption DEF Sound, SealsSound
<1> QED BY <1>1 DEF Custody!Land, OnTarget, Grows, Custody!Absent, Absent

\* Every step maps to a step of the custody specification, or to a stutter.
LEMMA NextCustody ==
  ASSUME OneManifest, Sound, Safe, [Next]_vars
  PROVE  [Custody!Next]_(Custody!custodyVars)
<1> USE DEF Sound
<1>0. Grows BY NextGrows
<1>1. ASSUME NEW t \in Task, NEW c \in Offered[t], Seal(t, c) PROVE Custody!Seal(t)
  <2>1. state[t] = Absent /\ sealed[t] = NoCommit
    BY <1>1 DEF Seal, SealsSound
  <2>2. state' = [state EXCEPT ![t] = "CANDIDATE_SEALED"]
    BY <1>1 DEF Seal, OneManifest
  <2>3. /\ sealed' = [sealed EXCEPT ![t] = c]
        /\ head' = head
    BY <1>1 DEF Seal
  <2>4. Landed' \in {Landed, Landed \cup {t}}
    <3>1. \A u \in Task \ {t} : u \in Landed' <=> u \in Landed
      BY <2>3 DEF Landed, OnTarget, TypeOK
    <3>2. Landed \subseteq Task /\ Landed' \subseteq Task BY DEF Landed
    <3>3. t \notin Landed BY <2>1, GitAssumption DEF Landed
    <3> QED BY <3>1, <3>2, <3>3
  <2> QED
    BY <2>1, <2>2, <2>4 DEF Custody!Seal, Custody!Absent, Absent, Landed
<1>2. ASSUME NEW t \in Task, Moves(t, state[t], state'[t]), UNCHANGED <<sealed, head>>
      PROVE  Custody!Move(t)
  <2>1. SealSafe BY DEF OneManifest, SealSafe, PrivilegedStates
  <2>2. Safe' BY <2>1, NextSafe
  <2>3. state'[t] \in LandedStates => sealed[t] \in Commit /\ sealed[t] \in Ancestors[head]
    <3>1. SUFFICES ASSUME state'[t] \in LandedStates
                   PROVE  sealed[t] \in Commit /\ sealed[t] \in Ancestors[head]
      OBVIOUS
    <3>2. PICK c \in Offered[t] : c \in Ancestors[head']
      BY <2>2, <3>1 DEF Safe, PromotedIsOnTarget, OnTarget
    <3>3. state[t] # Absent
      BY <1>2, AbsentHasNoMove DEF Moves
    <3>4. sealed[t] = c
      BY <3>3 DEF SealsSound, OneManifest
    <3> QED BY <1>2, <3>2, <3>4, ManifestAssumption
  <2>4. Landed' = Landed BY <1>2 DEF Landed, OnTarget
  <2> DEFINE to == state'[t]
  <2>5. /\ to \in LegalNext(state[t])
        /\ state' = [state EXCEPT ![t] = to]
    BY <1>2 DEF Moves
  <2>6. to \in LandedStates => t \in Landed
    BY <2>3 DEF Landed, OnTarget
  <2>7. to \in Custody!LegalNext(state[t])
    BY <2>5 DEF LegalNext, LegalTransitions, State, Custody!LegalNext,
                Custody!LegalTransitions, Custody!State
  <2> HIDE DEF to
  <2> QED
    BY <2>4, <2>5, <2>6, <2>7
       DEF Custody!Move, Custody!ClaimsLanded, LandedStates, Landed
<1>3. CASE UNCHANGED <<state, sealed>>
  BY <1>0, <1>3, StutterOrLand DEF Custody!Next
<1>4. ASSUME UNCHANGED state, ~\E t \in Task : \E c \in Offered[t] : Seal(t, c)
      PROVE  UNCHANGED sealed
  BY <1>4, SealsOnlyOnce
<1> QED
  BY <1>1, <1>2, <1>3, <1>4, NextStates DEF StateStep, Custody!Next

\* For callers that seal one manifest per task, the pipeline with its processes,
\* crashes, log and git commands implements the custody specification.
THEOREM RefinesCustody ==
  ASSUME OneManifest
  PROVE  Spec => ImplementsCustody
<1>1. SealSafe BY DEF OneManifest, SealSafe, PrivilegedStates
<1>2. Spec => []Safe
  BY <1>1, SafetyCorrect, PTL DEF Safe
<1>3. Sound /\ Safe /\ [Next]_vars => [Custody!Next]_(Custody!custodyVars)
  BY NextCustody
<1> QED
  BY <1>2, <1>3, InitCustody, Soundness, PTL DEF Spec, ImplementsCustody, Custody!Spec
=============================================================================
