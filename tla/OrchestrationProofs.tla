------------------------ MODULE OrchestrationProofs ------------------------
(***************************************************************************)
(* Proofs about governed runs, for every number of runs, tasks, attempts   *)
(* and outside writes and every choice of requests.                        *)
(***************************************************************************)
EXTENDS Orchestration, TLAPS

Unjudged == {"idle", "established", "routed", "prepared", "attempting", "built", "snapped",
             "registered"}
Passed == {"passed", "checked", "promoting"}
Filing == {"written", "inserted", "final", "reported"}

\* Only orchestrated runs go past the routing before they are sealed.
OrchestratedSound ==
  \A r \in Runs : pc[r] \in (Unjudged \ {"idle", "established", "routed"}) \cup Passed \cup {"final"}
                    => Orchestrated(r)

\* Who registered a candidate finds a row to qualify.
Registrars ==
  /\ \A r \in Runs : created[r] => registry # None
  /\ \A r \in Runs : pc[r] = "checked" => created[r]

\* What the last verification of a run shows.
Proven(r) ==
  /\ verif[r] # None /\ verif[r].status = "PASS" /\ verif[r].exit = 0 /\ verif[r].passed = 1
  /\ TestsPass(tested[r])

VerdictsSound ==
  \A r \in Runs :
    /\ pc[r] \in Unjudged => ~Verified(verif[r])
    /\ pc[r] \in Passed =>
         outcome[r] = "VERIFIED_SUCCESS" /\ Proven(r) /\ verif[r].verifier # "BUILDER_TEST"
    /\ pc[r] \in {"sealing"} \cup Filing /\ outcome[r] = "VERIFIED_SUCCESS" => Proven(r)
    /\ pc[r] = "sealing" /\ outcome[r] = "VERIFIED_SUCCESS" => ~Orchestrated(r)
    /\ pc[r] \in Filing => ValidReceipt(outcome[r], verif[r])

\* The rows of the runs table follow the program counter.
Unfiled(r) == filed[r] = None /\ ledger[r] = None
Unclosed(r) == rows[r] # None => rows[r].status \in {"CREATED", "ROUTED"}

RecordSound(r) ==
  /\ pc[r] = "idle" => rows[r] = None
  /\ pc[r] \notin {"idle", "established", "died"} =>
       rows[r] # None /\ rows[r].status # "CREATED"
  /\ rows[r] # None => rows[r].objective = req[r].objective
  /\ pc[r] \in Unjudged \cup Passed \cup {"sealing", "raised"} => Unfiled(r) /\ Unclosed(r)
  /\ pc[r] = "written" => filed[r] = Sealed(r) /\ ledger[r] = None /\ Unclosed(r)
  /\ pc[r] = "inserted" => filed[r] = Sealed(r) /\ ledger[r] = Sealed(r) /\ Unclosed(r)
  /\ pc[r] \in {"final", "reported"} =>
       filed[r] = Sealed(r) /\ ledger[r] = Sealed(r) /\ rows[r].status = outcome[r]
  /\ pc[r] = "died" =>
       /\ ledger[r] # None => filed[r] = ledger[r]
       /\ rows[r] # None /\ rows[r].status \in FinalStatuses =>
            ledger[r] # None /\ ledger[r].status = rows[r].status

RecordsSound == \A r \in Runs : RecordSound(r)

\* A file that was put into the target is there, unless an agent took it away.
There(p) == target[p] # None \/ author[p] = "agent"

\* What a run copied is there, and a filed success copied its whole snapshot.
DeliverySound(r) ==
  /\ \A p \in copied[r] : There(p)
  /\ filed[r] # None /\ filed[r].status = "VERIFIED_SUCCESS" =>
       /\ pc[r] \in Filing \cup {"died"}
       /\ Verified(verif[r]) /\ TestsPass(tested[r])
       /\ filed[r].claims.promoted /\ Orchestrated(r) => Present(snap[r]) \subseteq copied[r]

DeliveriesSound == \A r \in Runs : DeliverySound(r)

\* Past its last verification.
Judged == {"promoting", "raised", "died"} \cup Filing

\* Whoever qualified the capability has judged for the last time, and the row names a run
\* that was routed.
QualificationSound ==
  registry # None =>
    /\ rows[registry.run] # None /\ rows[registry.run].status # "CREATED"
    /\ registry.status = "QUALIFIED" =>
         /\ registry.evidence \in Runs
         /\ pc[registry.evidence] \in Judged
         /\ TestsPass(tested[registry.evidence])

IInv ==
  /\ TypeOK /\ OrchestratedSound /\ Registrars /\ VerdictsSound /\ RecordsSound
  /\ DeliveriesSound /\ QualificationSound

\* Nothing has happened yet.
LEMMA InitIInv == Init => IInv
<1> SUFFICES ASSUME Init PROVE IInv
  OBVIOUS
<1> USE OrchestrationAssumption DEF Init
<1>1. TypeOK
  <2>1. NoFiles \in Files /\ NoBuild \in Builds
    BY DEF NoFiles, Files, NoBuild, Builds, Modalities
  <2>2. attempt \in [Runs -> 1..MaxAttempts] /\ writes \in 0..MaxWrites
    OBVIOUS
  <2>3. pc \in [Runs -> PC] /\ outcome \in [Runs -> FinalStatuses]
    BY DEF PC, FinalStatuses
  <2> QED BY <2>1, <2>2, <2>3 DEF TypeOK
<1>2. OrchestratedSound /\ Registrars
  BY DEF OrchestratedSound, Registrars, Unjudged, Passed
<1>3. VerdictsSound
  BY DEF VerdictsSound, Verified, Unjudged, Passed, Filing
<1>4. RecordsSound
  BY DEF RecordsSound, RecordSound, Filing, Unjudged, Passed, Unfiled, Unclosed
<1>5. DeliveriesSound /\ QualificationSound
  BY DEF DeliveriesSound, DeliverySound, QualificationSound, Filing
<1> QED BY <1>1, <1>2, <1>3, <1>4, <1>5 DEF IInv

\* Requests are what they should be.
LEMMA RequestTyped ==
  ASSUME TypeOK, NEW r \in Runs
  PROVE  IsRequest(req[r])
BY OrchestrationAssumption DEF TypeOK

\* A sealed receipt is one.
LEMMA SealedTyped ==
  ASSUME TypeOK, NEW r \in Runs
  PROVE  Sealed(r) \in Receipts
<1>1. req[r].objective \in Objectives
  BY RequestTyped DEF IsRequest
<1>2. outcome[r] \in FinalStatuses /\ verif[r] \in {None} \cup Verifications
  BY DEF TypeOK
<1>3. ASSUME NEW v, NEW q, NEW x \in BOOLEAN
      PROVE  ClaimsOf(v, q, x) \in [mutated : BOOLEAN, verified : BOOLEAN, promoted : BOOLEAN,
                                    semantic : BOOLEAN]
  BY <1>3 DEF ClaimsOf, Verified
<1>4. (snap[r] # NoFiles \/ (~Orchestrated(r) /\ verif[r] # None)) \in BOOLEAN
  OBVIOUS
<1> QED BY <1>1, <1>2, <1>3, <1>4 DEF Sealed, ReceiptOf, Receipts

\* A row is written for one run.
LEMMA RowWritten ==
  ASSUME TypeOK, NEW r \in Runs, NEW status \in RunStatuses, RecordRunState(r, status)
  PROVE  /\ rows' \in [Runs -> {None} \cup RunRows]
         /\ \A s \in Runs \ {r} : rows'[s] = rows[s]
         /\ rows'[r] # None /\ rows'[r].status = status
         /\ rows'[r].objective = IF rows[r] = None THEN req[r].objective ELSE rows[r].objective
<1>1. req[r].objective \in Objectives
  BY RequestTyped DEF IsRequest
<1>2. CASE rows[r] = None
  <2>1. [objective |-> req[r].objective, status |-> status] \in RunRows
    BY <1>1 DEF RunRows
  <2> QED BY <1>2, <2>1, NoneAssumption DEF TypeOK, RecordRunState
<1>3. CASE rows[r] # None
  <2>1. rows[r] \in RunRows
    BY <1>3 DEF TypeOK
  <2>2. /\ [rows[r] EXCEPT !.status = status] \in RunRows
        /\ [rows[r] EXCEPT !.status = status].status = status
        /\ [rows[r] EXCEPT !.status = status].objective = rows[r].objective
    BY <2>1 DEF RunRows
  <2>3. rows' = [rows EXCEPT ![r] = [rows[r] EXCEPT !.status = status]]
    BY <1>3 DEF RecordRunState
  <2> QED BY <1>3, <2>2, <2>3, NoneAssumption DEF TypeOK
<1> QED BY <1>2, <1>3

\* What a run reports is a status of the runs table.
LEMMA StatusTyped ==
  ASSUME TypeOK, NEW r \in Runs
  PROVE  outcome[r] \in RunStatuses /\ outcome[r] \in FinalStatuses
BY DEF TypeOK, RunStatuses

\* A capability row that was written is not absent.
LEMMA RowRegistered ==
  ASSUME TypeOK, NEW r \in Runs, NEW hash \in Versions \cup {None}
  PROVE  LET row == Registered(registry, r, hash) IN
           /\ row \in CapabilityRows /\ row # None /\ row.run = r
           /\ row.status = "QUALIFIED" =>
                registry # None /\ registry.status = "QUALIFIED" /\ row.evidence = registry.evidence
<1>1. CASE registry = None
  BY <1>1, NoneAssumption DEF Registered, CapabilityRows
<1>2. CASE registry # None
  <2>1. registry \in CapabilityRows
    BY <1>2 DEF TypeOK
  <2> QED BY <1>2, <2>1, NoneAssumption DEF Registered, CapabilityRows
<1> QED BY <1>1, <1>2

\* Qualification keeps the row's origin and names the evidence.
LEMMA RowQualified ==
  ASSUME TypeOK, registry # None, NEW r \in Runs,
         registry' = [registry EXCEPT !.status = "QUALIFIED", !.evidence = r]
  PROVE  /\ registry' \in CapabilityRows /\ registry' # None
         /\ registry'.run = registry.run /\ registry'.evidence = r
<1>1. registry \in CapabilityRows
  BY DEF TypeOK
<1> QED BY <1>1, NoneAssumption DEF CapabilityRows

\* Arithmetic of attempts.
LEMMA NextAttempt ==
  ASSUME NEW n \in Nat, NEW a \in 1..n, a # n
  PROVE  a + 1 \in 1..n
OBVIOUS

\* What a provider answers is one of five records.
LEMMA BuildsTyped ==
  ASSUME NEW q, NEW b \in BuilderResults(q)
  PROVE  b \in Builds
<1>1. b \in {[exit |-> "FAILURE", error |-> "CAPABILITY_PROVIDER_UNAVAILABLE",
              modality |-> "EMPIRICAL"],
             [exit |-> "SUCCESS", error |-> "", modality |-> "STRUCTURAL"],
             [exit |-> "FAILURE", error |-> "CAPABILITY_PROVIDER_UNAVAILABLE",
              modality |-> "STRUCTURAL"],
             [exit |-> "SUCCESS", error |-> "", modality |-> "DETERMINISTIC_TEST"],
             [exit |-> "FAILURE", error |-> "CAPABILITY_DEFICIT",
              modality |-> "DETERMINISTIC_TEST"]}
  BY DEF BuilderResults
<1>2. ASSUME NEW e \in {"NONE", "SUCCESS", "FAILURE"}, NEW m \in Modalities,
             NEW x \in {"", "CAPABILITY_DEFICIT", "CAPABILITY_PROVIDER_UNAVAILABLE"}
      PROVE  [exit |-> e, error |-> x, modality |-> m] \in Builds
  BY DEF Builds
<1>3. {"STRUCTURAL", "DETERMINISTIC_TEST", "EMPIRICAL"} \subseteq Modalities
  BY DEF Modalities
<1> QED BY <1>1, <1>2, <1>3

\* The types are kept.
LEMMA TypeStep ==
  ASSUME IInv, NEW r \in Runs, RunStep(r)
  PROVE  TypeOK'
<1> USE OrchestrationAssumption, RequestTyped
    DEF IInv, TypeOK, Goto, shared, records, locals, PC, Ended, RunStep, IsRequest
<1>1. CASE Establish(r)
  BY <1>1, RowWritten DEF Establish, RunStatuses
<1>2. CASE DetermineRoute(r)
  BY <1>2, RowWritten DEF DetermineRoute, RunStatuses, Reusable, Paths, Modules
<1>3. CASE PrepareWorkspace(r)
  BY <1>3 DEF PrepareWorkspace, Files
<1>4. CASE WriteLease(r)
  BY <1>4 DEF WriteLease
<1>5. CASE BuilderExecutes(r)
  <2>1. built' \in [Runs -> Builds]
    BY <1>5, BuildsTyped DEF BuilderExecutes
  <2> QED BY <1>5, <2>1 DEF BuilderExecutes, Files, Versions
<1>6. CASE RecordInvocation(r)
  BY <1>6 DEF RecordInvocation, Snapshot
<1>7. CASE RegisterCandidate(r)
  <2>1. snap[r]["temperature"] \in Versions \cup {None}
    BY DEF Files, Paths, Modules
  <2>2. registry' \in {None} \cup CapabilityRows
    BY <1>7, <2>1, RowRegistered DEF RegisterCandidate
  <2>3. created' \in [Runs -> BOOLEAN]
    BY <1>7 DEF RegisterCandidate
  <2> QED BY <1>7, <2>2, <2>3 DEF RegisterCandidate
<1>8. CASE Verify(r)
  <2>1. verif' \in [Runs -> {None} \cup Verifications] /\ tested' \in [Runs -> Files]
    BY <1>8 DEF Verify, VerificationOf, Verifications, VerifierTypes
  <2>2. outcome' \in [Runs -> FinalStatuses]
    BY <1>8 DEF Verify, FinalStatuses
  <2>3. attempt' \in [Runs -> 1..MaxAttempts]
    <3>1. attempt[r] \in 1..MaxAttempts /\ MaxAttempts \in Nat
      OBVIOUS
    <3>2. attempt[r] = MaxAttempts \/ attempt[r] + 1 \in 1..MaxAttempts
      BY <3>1, NextAttempt
    <3>3. \/ attempt' = [attempt EXCEPT ![r] = attempt[r]]
          \/ attempt' = [attempt EXCEPT ![r] = attempt[r] + 1] /\ attempt[r] # MaxAttempts
      BY <1>8 DEF Verify
    <3> QED BY <3>2, <3>3
  <2>4. pc' \in [Runs -> PC]
    BY <1>8 DEF Verify, Judge
  <2> QED BY <1>8, <2>1, <2>2, <2>3, <2>4 DEF Verify
<1>9. CASE CheckCandidate(r)
  BY <1>9 DEF CheckCandidate
<1>10. CASE Qualify(r)
  <2>1. registry' \in CapabilityRows
    BY <1>10, RowQualified DEF Qualify, Registrars
  <2> QED BY <1>10, <2>1 DEF Qualify
<1>11. CASE \E p \in Paths : PromoteFile(r, p)
  <2>1. PICK p \in Paths : PromoteFile(r, p)
    BY <1>11
  <2>2. ws[req[r].task] \in Files /\ target \in Files
    OBVIOUS
  <2>3. target' \in Files
    BY <2>1, <2>2 DEF PromoteFile, Files
  <2>4. copied' \in [Runs -> SUBSET Paths] /\ author' \in [Paths -> Runs \cup {"agent", None}]
    BY <2>1 DEF PromoteFile
  <2>5. pc' \in [Runs -> PC]
    BY <2>1 DEF PromoteFile
  <2> QED BY <2>1, <2>3, <2>4, <2>5 DEF PromoteFile
<1>12. CASE WriteReceipt(r)
  BY <1>12, SealedTyped DEF WriteReceipt
<1>13. CASE InsertReceipt(r)
  BY <1>13, SealedTyped DEF InsertReceipt
<1>14. CASE RecordFinal(r)
  BY <1>14, RowWritten, StatusTyped DEF RecordFinal
<1>15. CASE Finish(r)
  BY <1>15 DEF Finish
<1>16. CASE KernelDelegates(r)
  BY <1>16 DEF KernelDelegates, FinalStatuses
<1>17. CASE KernelVerifies(r)
  BY <1>17 DEF KernelVerifies, VerificationOf, Verifications, FinalStatuses
<1> QED BY <1>1, <1>2, <1>3, <1>4, <1>5, <1>6, <1>7, <1>8, <1>9, <1>10, <1>11, <1>12, <1>13,
           <1>14, <1>15, <1>16, <1>17

\* An orchestrated run stays so, and what was registered stays registered.
LEMMA RoutingStep ==
  ASSUME IInv, NEW r \in Runs, RunStep(r)
  PROVE  OrchestratedSound' /\ Registrars'
<1> USE DEF IInv, TypeOK, Goto, shared, records, locals, Unjudged, Passed, Filing,
        OrchestratedSound, Registrars, Orchestrated
<1>1. CASE Establish(r)
  BY <1>1 DEF Establish, RecordRunState
<1>2. CASE DetermineRoute(r)
  BY <1>2 DEF DetermineRoute, RecordRunState
<1>3. CASE PrepareWorkspace(r)
  BY <1>3 DEF PrepareWorkspace
<1>4. CASE WriteLease(r)
  BY <1>4 DEF WriteLease
<1>5. CASE BuilderExecutes(r)
  BY <1>5 DEF BuilderExecutes
<1>6. CASE RecordInvocation(r)
  BY <1>6 DEF RecordInvocation
<1>7. CASE RegisterCandidate(r)
  <2>1. snap[r]["temperature"] \in Versions \cup {None}
    BY DEF Files, Paths, Modules
  <2>2. registry' # None \/ (registry' = registry /\ created'[r] = created[r])
    BY <1>7, <2>1, RowRegistered DEF RegisterCandidate
  <2> QED BY <1>7, <2>2 DEF RegisterCandidate
<1>8. CASE Verify(r)
  BY <1>8 DEF Verify, Judge
<1>9. CASE CheckCandidate(r)
  BY <1>9 DEF CheckCandidate
<1>10. CASE Qualify(r)
  <2>1. registry' # None
    BY <1>10, RowQualified DEF Qualify
  <2> QED BY <1>10, <2>1 DEF Qualify
<1>11. CASE \E p \in Paths : PromoteFile(r, p)
  BY <1>11 DEF PromoteFile
<1>12. CASE WriteReceipt(r)
  BY <1>12 DEF WriteReceipt
<1>13. CASE InsertReceipt(r)
  BY <1>13 DEF InsertReceipt
<1>14. CASE RecordFinal(r)
  BY <1>14 DEF RecordFinal, RecordRunState
<1>15. CASE Finish(r)
  BY <1>15 DEF Finish
<1>16. CASE KernelDelegates(r)
  BY <1>16 DEF KernelDelegates
<1>17. CASE KernelVerifies(r)
  BY <1>17 DEF KernelVerifies
<1> QED BY <1>1, <1>2, <1>3, <1>4, <1>5, <1>6, <1>7, <1>8, <1>9, <1>10, <1>11, <1>12, <1>13, <1>14, <1>15, <1>16, <1>17
        DEF RunStep

\* The test run that counts as passed has passed.
LEMMA VerdictsAreHonest ==
  ASSUME NEW f, NEW v \in Verdicts(f)
  PROVE  v \in BOOLEAN /\ (v => TestsPass(f))
BY DEF Verdicts, TestsPass

\* A verification record is one.
LEMMA VerificationsTyped ==
  ASSUME NEW type \in VerifierTypes, NEW passes \in BOOLEAN
  PROVE  VerificationOf(type, passes) \in Verifications /\ VerificationOf(type, passes) # None
BY NoneAssumption DEF VerificationOf, Verifications

\* A verification by the orchestrator.
Judges(r, passes) ==
  /\ passes => TestsPass(ws[req[r].task])
  /\ Goto(r, "registered", Judge(r, passes))
  /\ verif' = [verif EXCEPT ![r] = VerificationOf("INDEPENDENT_BEHAVIORAL_ORACLE", passes)]
  /\ tested' = [tested EXCEPT ![r] = ws[req[r].task]]
  /\ outcome' = [outcome EXCEPT ![r] =
       IF passes THEN "VERIFIED_SUCCESS"
       ELSE IF built[r].error = "CAPABILITY_DEFICIT" THEN "BLOCKED" ELSE "FAILED"]

\* Verify is one, whatever the tests say.
LEMMA VerifyJudges ==
  ASSUME NEW r \in Runs, Verify(r)
  PROVE  \E passes \in BOOLEAN : Judges(r, passes)
<1>1. CASE built[r].exit = "SUCCESS"
  <2>1. \A passes \in Verdicts(ws[req[r].task]) :
         passes \in BOOLEAN /\ (passes => TestsPass(ws[req[r].task]))
    BY VerdictsAreHonest
  <2> QED BY <1>1, <2>1 DEF Verify, Judges
<1>2. CASE built[r].exit # "SUCCESS"
  BY <1>2 DEF Verify, Judges
<1> QED BY <1>1, <1>2

\* Every verdict that a step relies on, or leaves behind, is about the last verification.
LEMMA VerdictStep ==
  ASSUME IInv, NEW r \in Runs, RunStep(r)
  PROVE  VerdictsSound'
<1> USE DEF IInv, TypeOK, Goto, shared, records, locals, Unjudged, Passed, Filing,
        OrchestratedSound, VerdictsSound, Orchestrated, Proven, Verified, ValidReceipt
<1>1. CASE Establish(r)
  BY <1>1 DEF Establish, RecordRunState
<1>2. CASE DetermineRoute(r)
  BY <1>2 DEF DetermineRoute, RecordRunState
<1>3. CASE PrepareWorkspace(r)
  BY <1>3 DEF PrepareWorkspace
<1>4. CASE WriteLease(r)
  BY <1>4 DEF WriteLease
<1>5. CASE BuilderExecutes(r)
  BY <1>5 DEF BuilderExecutes
<1>6. CASE RecordInvocation(r)
  <2>1. /\ pc[r] = "built" /\ pc'[r] \in {"snapped", "raised"}
        /\ \A s \in Runs \ {r} : pc'[s] = pc[s]
        /\ UNCHANGED <<req, verif, tested, outcome>>
    BY <1>6 DEF RecordInvocation
  <2>2. ~Verified(verif[r])
    BY <2>1
  <2> QED BY <2>1, <2>2
<1>7. CASE RegisterCandidate(r)
  BY <1>7 DEF RegisterCandidate
<1>8. CASE Verify(r)
  <2>1. PICK passes \in BOOLEAN : Judges(r, passes)
    BY <1>8, VerifyJudges
  <2>0. passes => TestsPass(ws[req[r].task])
    BY <2>1 DEF Judges
  <2>2. /\ verif'[r] # None /\ verif'[r].verifier # "BUILDER_TEST"
        /\ verif'[r].status = IF passes THEN "PASS" ELSE "FAIL"
        /\ passes => verif'[r].exit = 0 /\ verif'[r].passed = 1
    BY <2>1, <2>0, VerificationsTyped DEF Judges, VerificationOf, VerifierTypes
  <2>3. passes => TestsPass(tested[r])'
    BY <2>0, <2>1 DEF Judges, TestsPass
  <2>4. CASE passes
    <3>1. pc'[r] = "passed" /\ outcome'[r] = "VERIFIED_SUCCESS"
      BY <2>1, <2>4 DEF Judges, Judge
    <3> QED BY <1>8, <2>2, <2>3, <2>4, <3>1 DEF Verify
  <2>5. CASE ~passes
    <3>1. pc'[r] \in {"attempting", "sealing"} /\ outcome'[r] # "VERIFIED_SUCCESS"
      BY <2>1, <2>5 DEF Judges, Judge
    <3> QED BY <1>8, <2>2, <2>5, <3>1 DEF Verify
  <2> QED BY <2>0, <2>4, <2>5
<1>9. CASE CheckCandidate(r)
  BY <1>9 DEF CheckCandidate
<1>10. CASE Qualify(r)
  BY <1>10 DEF Qualify
<1>11. CASE \E p \in Paths : PromoteFile(r, p)
  BY <1>11 DEF PromoteFile
<1>12. CASE WriteReceipt(r)
  BY <1>12 DEF WriteReceipt
<1>13. CASE InsertReceipt(r)
  BY <1>13 DEF InsertReceipt
<1>14. CASE RecordFinal(r)
  BY <1>14 DEF RecordFinal, RecordRunState
<1>15. CASE Finish(r)
  BY <1>15 DEF Finish
<1>16. CASE KernelDelegates(r)
  BY <1>16 DEF KernelDelegates
<1>17. CASE KernelVerifies(r)
  <2>1. PICK passes \in Verdicts(target) :
         /\ verif' = [verif EXCEPT ![r] = VerificationOf(req[r].verifier, passes)]
         /\ outcome' = [outcome EXCEPT ![r] = IF passes THEN "VERIFIED_SUCCESS" ELSE "FAILED"]
    BY <1>17 DEF KernelVerifies
  <2>0. passes \in BOOLEAN /\ (passes => TestsPass(target))
    BY VerdictsAreHonest
  <2>2. /\ verif'[r] # None
        /\ passes => verif'[r].status = "PASS" /\ verif'[r].exit = 0 /\ verif'[r].passed = 1
    BY <2>0, <2>1, VerificationsTyped, RequestTyped DEF VerificationOf, IsRequest
  <2>3. passes => TestsPass(tested[r])'
    BY <1>17, <2>0, <2>1 DEF KernelVerifies, TestsPass
  <2>4. pc'[r] = "sealing" /\ (outcome'[r] = "VERIFIED_SUCCESS" => passes)
    BY <1>17, <2>0, <2>1 DEF KernelVerifies
  <2> QED BY <1>17, <2>2, <2>3, <2>4 DEF KernelVerifies
<1> QED BY <1>1, <1>2, <1>3, <1>4, <1>5, <1>6, <1>7, <1>8, <1>9, <1>10, <1>11, <1>12, <1>13, <1>14, <1>15, <1>16, <1>17
        DEF RunStep

\* What belongs to a run is its own.
Kept(s) ==
  /\ rows'[s] = rows[s] /\ ledger'[s] = ledger[s] /\ filed'[s] = filed[s] /\ pc'[s] = pc[s]
  /\ req'[s] = req[s] /\ built'[s] = built[s] /\ snap'[s] = snap[s]
  /\ created'[s] = created[s] /\ verif'[s] = verif[s] /\ tested'[s] = tested[s]
  /\ copied'[s] = copied[s] /\ outcome'[s] = outcome[s]

\* No run touches what belongs to another.
LEMMA RunsKeepApart ==
  ASSUME TypeOK, NEW r \in Runs, RunStep(r), NEW s \in Runs \ {r}
  PROVE  Kept(s)
<1> USE DEF TypeOK, Goto, shared, records, locals, Kept
<1>1. CASE Establish(r) \/ DetermineRoute(r) \/ RecordFinal(r)
  BY <1>1, RowWritten, StatusTyped DEF Establish, DetermineRoute, RecordFinal, RunStatuses
<1>2. CASE PrepareWorkspace(r) \/ WriteLease(r) \/ BuilderExecutes(r) \/ RecordInvocation(r)
           \/ RegisterCandidate(r)
  BY <1>2 DEF PrepareWorkspace, WriteLease, BuilderExecutes, RecordInvocation, RegisterCandidate
<1>3. CASE Verify(r) \/ CheckCandidate(r) \/ Qualify(r) \/ \E p \in Paths : PromoteFile(r, p)
  <2>1. CASE Verify(r)
    BY <2>1 DEF Verify
  <2>2. CASE CheckCandidate(r) \/ Qualify(r)
    BY <2>2 DEF CheckCandidate, Qualify
  <2>3. CASE \E p \in Paths : PromoteFile(r, p)
    BY <2>3 DEF PromoteFile
  <2> QED BY <1>3, <2>1, <2>2, <2>3
<1>4. CASE WriteReceipt(r) \/ InsertReceipt(r) \/ Finish(r)
           \/ KernelDelegates(r) \/ KernelVerifies(r)
  BY <1>4 DEF WriteReceipt, InsertReceipt, Finish, KernelDelegates, KernelVerifies
<1> QED BY <1>1, <1>2, <1>3, <1>4 DEF RunStep

\* The program counters between the routing and the seal.
Working == (Unjudged \ {"idle", "established"}) \cup Passed

\* Between the routing and the seal a run leaves its records alone.
LEMMA WorkLeavesRecords ==
  ASSUME TypeOK, NEW r \in Runs,
         \/ PrepareWorkspace(r) \/ WriteLease(r) \/ BuilderExecutes(r) \/ RecordInvocation(r)
         \/ RegisterCandidate(r) \/ Verify(r) \/ CheckCandidate(r) \/ Qualify(r)
         \/ \E p \in Paths : PromoteFile(r, p)
         \/ KernelDelegates(r) \/ KernelVerifies(r)
  PROVE  /\ pc[r] \in Working /\ pc'[r] \in Working \cup {"sealing", "raised"}
         /\ rows'[r] = rows[r] /\ ledger'[r] = ledger[r] /\ filed'[r] = filed[r]
         /\ req'[r] = req[r]
<1> USE DEF TypeOK, Goto, shared, records, locals, Working, Unjudged, Passed
<1>1. CASE PrepareWorkspace(r) \/ WriteLease(r) \/ BuilderExecutes(r) \/ RecordInvocation(r)
           \/ RegisterCandidate(r)
  BY <1>1 DEF PrepareWorkspace, WriteLease, BuilderExecutes, RecordInvocation, RegisterCandidate
<1>2. CASE Verify(r)
  BY <1>2 DEF Verify, Judge
<1>3. CASE CheckCandidate(r) \/ Qualify(r) \/ (\E p \in Paths : PromoteFile(r, p))
           \/ KernelDelegates(r) \/ KernelVerifies(r)
  BY <1>3 DEF CheckCandidate, Qualify, PromoteFile, KernelDelegates, KernelVerifies
<1> QED BY <1>1, <1>2, <1>3

\* Nor does it change what is sealed while it files it.
LEMMA SealStands ==
  ASSUME TypeOK, NEW r \in Runs,
         WriteReceipt(r) \/ InsertReceipt(r) \/ RecordFinal(r) \/ Finish(r)
  PROVE  Sealed(r)' = Sealed(r) /\ outcome'[r] = outcome[r] /\ req'[r] = req[r]
BY DEF WriteReceipt, InsertReceipt, RecordFinal, Finish, Sealed, PromotionOf, Orchestrated, locals

\* A sealed receipt is there, and bears the run's outcome.
LEMMA SealedReceipt ==
  ASSUME TypeOK, NEW r \in Runs
  PROVE  /\ Sealed(r) # None /\ Sealed(r).status = outcome[r]
         /\ Sealed(r).objective = req[r].objective /\ Sealed(r).verification = verif[r]
         /\ Sealed(r).claims.promoted => PromotionOf(r) = "PROMOTED"
<1>1. Sealed(r) # None
  BY SealedTyped, NoneAssumption
<1> QED BY <1>1 DEF Sealed, ReceiptOf, ClaimsOf

\* A run's records follow its own steps,
LEMMA OwnRecordStep ==
  ASSUME TypeOK, OrchestratedSound, NEW r \in Runs, RecordSound(r), RunStep(r)
  PROVE  RecordSound(r)'
<1> USE DEF TypeOK, Goto, Unjudged, Passed, FinalStatuses
<1>1. CASE \/ PrepareWorkspace(r) \/ WriteLease(r) \/ BuilderExecutes(r) \/ RecordInvocation(r)
           \/ RegisterCandidate(r) \/ Verify(r) \/ CheckCandidate(r) \/ Qualify(r)
           \/ \E p \in Paths : PromoteFile(r, p)
           \/ KernelDelegates(r) \/ KernelVerifies(r)
  BY <1>1, WorkLeavesRecords DEF RecordSound, Unfiled, Unclosed, Working
<1>2. CASE Establish(r)
  BY <1>2, RowWritten DEF Establish, RecordSound, Unfiled, Unclosed, RunStatuses, locals
<1>3. CASE DetermineRoute(r)
  BY <1>3, RowWritten DEF DetermineRoute, RecordSound, Unfiled, Unclosed, RunStatuses
<1>4. CASE WriteReceipt(r)
  <2>1. /\ pc[r] \in {"sealing", "promoting"} /\ pc'[r] \in {"written", "raised"}
        /\ rows' = rows /\ ledger' = ledger
        /\ filed'[r] = IF pc'[r] = "written" THEN Sealed(r) ELSE filed[r]
    BY <1>4 DEF WriteReceipt
  <2> QED BY <1>4, <2>1, SealStands DEF RecordSound, Unfiled, Unclosed
<1>5. CASE InsertReceipt(r)
  <2>1. /\ pc[r] = "written" /\ pc'[r] = "inserted"
        /\ rows' = rows /\ filed' = filed /\ ledger'[r] = Sealed(r)
    BY <1>5 DEF InsertReceipt
  <2> QED BY <1>5, <2>1, SealStands DEF RecordSound, Unfiled, Unclosed
<1>6. CASE RecordFinal(r)
  <2>1. /\ pc[r] = "inserted" /\ pc'[r] \in {"final", "reported"}
        /\ filed' = filed /\ ledger' = ledger
    BY <1>6 DEF RecordFinal
  <2>2. /\ rows'[r] # None /\ rows'[r].status = outcome[r] /\ outcome[r] # "CREATED"
        /\ rows'[r].objective = IF rows[r] = None THEN req[r].objective ELSE rows[r].objective
    BY <1>6, RowWritten, StatusTyped DEF RecordFinal
  <2> QED BY <1>6, <2>1, <2>2, SealStands DEF RecordSound, Unfiled, Unclosed
<1>7. CASE Finish(r)
  <2>1. /\ pc[r] = "final" /\ pc'[r] = "reported"
        /\ rows' = rows /\ filed' = filed /\ ledger' = ledger
    BY <1>7 DEF Finish, records
  <2> QED BY <1>7, <2>1, SealStands DEF RecordSound
<1> QED BY <1>1, <1>2, <1>3, <1>4, <1>5, <1>6, <1>7 DEF RunStep

\* and nobody else's.
LEMMA RecordStep ==
  ASSUME IInv, NEW r \in Runs, RunStep(r)
  PROVE  RecordsSound'
<1>1. RecordSound(r)'
  BY OwnRecordStep DEF IInv, RecordsSound
<1>2. ASSUME NEW s \in Runs \ {r} PROVE RecordSound(s)'
  <2>1. Kept(s)
    BY RunsKeepApart DEF IInv
  <2>2. Sealed(s)' = Sealed(s)
    BY <2>1 DEF Kept, Sealed, PromotionOf, Orchestrated
  <2> QED BY <2>1, <2>2 DEF Kept, IInv, RecordsSound, RecordSound, Unfiled, Unclosed
<1> QED BY <1>1, <1>2 DEF RecordsSound

\* Only a promotion writes to the target.
LEMMA TargetMoves ==
  ASSUME NEW r \in Runs, RunStep(r), <<target, author>>' # <<target, author>>
  PROVE  \E p \in Paths : PromoteFile(r, p)
BY DEF RunStep, shared, Establish, DetermineRoute, PrepareWorkspace, WriteLease,
       BuilderExecutes, RecordInvocation, RegisterCandidate, Verify, CheckCandidate, Qualify,
       WriteReceipt, InsertReceipt, RecordFinal, Finish, KernelDelegates, KernelVerifies

\* What is in the target is replaced by runs, never removed.
LEMMA TargetFills ==
  ASSUME TypeOK, NEW r \in Runs, RunStep(r), NEW p \in Paths, There(p)
  PROVE  There(p)'
<1>1. CASE <<target, author>>' # <<target, author>>
  <2>1. PICK q \in Paths : PromoteFile(r, q)
    BY <1>1, TargetMoves
  <2>2. CASE ws[req[r].task][q] = None
    BY <2>1, <2>2 DEF PromoteFile, There
  <2>3. CASE ws[req[r].task][q] # None
    <3>1. target' = [target EXCEPT ![q] = ws[req[r].task][q]] /\ author' = [author EXCEPT ![q] = r]
      BY <2>1, <2>3 DEF PromoteFile
    <3>2. CASE p = q
      BY <2>3, <3>1, <3>2 DEF TypeOK, Files, There
    <3>3. CASE p # q
      BY <3>1, <3>3 DEF TypeOK, Files, There
    <3> QED BY <3>2, <3>3
  <2> QED BY <2>2, <2>3
<1>2. CASE <<target, author>>' = <<target, author>>
  BY <1>2 DEF There
<1> QED BY <1>1, <1>2

\* A run's deliveries follow its own steps,
LEMMA OwnDeliveryStep ==
  ASSUME IInv, NEW r \in Runs, RunStep(r)
  PROVE  DeliverySound(r)'
<1> USE DEF IInv, TypeOK
<1>1. \A p \in Paths : There(p) => There(p)'
  BY TargetFills
<1>2. RecordSound(r) /\ DeliverySound(r)
  BY DEF RecordsSound, DeliveriesSound
<1>3. CASE \/ PrepareWorkspace(r) \/ WriteLease(r) \/ BuilderExecutes(r) \/ RecordInvocation(r)
           \/ RegisterCandidate(r) \/ Verify(r) \/ CheckCandidate(r) \/ Qualify(r)
           \/ \E p \in Paths : PromoteFile(r, p)
           \/ KernelDelegates(r) \/ KernelVerifies(r)
  <2>1. filed'[r] = None
    BY <1>2, <1>3, WorkLeavesRecords DEF RecordSound, Unfiled, Working
  <2>2. \A p \in copied'[r] : p \in copied[r] \/ (p \in Paths /\ There(p)')
    <3>1. CASE \E p \in Paths : PromoteFile(r, p)
      BY <3>1 DEF PromoteFile, Files, There
    <3>2. CASE ~\E p \in Paths : PromoteFile(r, p)
      BY <1>3, <3>2 DEF locals, PrepareWorkspace, WriteLease, BuilderExecutes, RecordInvocation,
            RegisterCandidate, Verify, CheckCandidate, Qualify, KernelDelegates, KernelVerifies
    <3> QED BY <3>1, <3>2
  <2>3. copied[r] \subseteq Paths
    OBVIOUS
  <2> QED BY <1>1, <1>2, <2>1, <2>2, <2>3 DEF DeliverySound
<1>4. CASE Establish(r) \/ DetermineRoute(r)
  <2>1. filed'[r] = None /\ copied' = copied
    BY <1>2, <1>4 DEF RecordSound, Unfiled, Unjudged, Goto, Establish, DetermineRoute, locals
  <2> QED BY <1>1, <1>2, <2>1 DEF DeliverySound
<1>5. CASE WriteReceipt(r)
  <2>1. /\ pc[r] = "sealing" \/ (pc[r] = "promoting" /\ ToPromote(r) = {})
        /\ UNCHANGED <<target, author, locals>>
        /\ filed'[r] = IF ValidReceipt(outcome[r], verif[r]) THEN Sealed(r) ELSE None
        /\ pc'[r] = IF ValidReceipt(outcome[r], verif[r]) THEN "written" ELSE "raised"
    BY <1>2, <1>5 DEF WriteReceipt, RecordSound, Unfiled, Passed, shared
  <2>2. CASE ValidReceipt(outcome[r], verif[r]) /\ outcome[r] = "VERIFIED_SUCCESS"
    <3>1. Proven(r)
      BY <2>1, <2>2 DEF VerdictsSound, Passed
    <3>2. Verified(verif[r]) /\ TestsPass(tested[r])
      BY <2>2, <3>1 DEF Verified, Proven, ValidReceipt
    <3>3. ASSUME Sealed(r).claims.promoted, Orchestrated(r)
          PROVE  Present(snap[r]) \subseteq copied[r]
      <4>0. PromotionOf(r) = "PROMOTED"
        BY <3>3, SealedReceipt
      <4>1. req[r].promote
        BY <4>0 DEF PromotionOf
      <4>2. pc[r] = "promoting"
        BY <2>1, <2>2, <3>3 DEF VerdictsSound
      <4> QED BY <2>1, <4>1, <4>2 DEF ToPromote
    <3> QED BY <1>2, <2>1, <2>2, <3>2, <3>3 DEF DeliverySound, Filing, locals, Orchestrated,
               TestsPass, Verified, Present, There
  <2>3. CASE ~(ValidReceipt(outcome[r], verif[r]) /\ outcome[r] = "VERIFIED_SUCCESS")
    <3>1. filed'[r] # None => filed'[r].status # "VERIFIED_SUCCESS"
      BY <2>1, <2>3, SealedReceipt
    <3> QED BY <1>2, <2>1, <3>1 DEF DeliverySound, locals, There
  <2> QED BY <2>2, <2>3
<1>6. CASE InsertReceipt(r) \/ RecordFinal(r) \/ Finish(r)
  <2>1. /\ pc'[r] \in Filing
        /\ UNCHANGED <<target, author, locals>> /\ filed'[r] = filed[r]
    BY <1>6 DEF InsertReceipt, RecordFinal, Finish, shared, records, Filing, Goto
  <2> QED BY <1>2, <2>1 DEF DeliverySound, locals, Orchestrated, TestsPass, Verified, Present,
             There
<1> QED BY <1>3, <1>4, <1>5, <1>6 DEF RunStep

\* and are not undone by others.
LEMMA DeliveryStep ==
  ASSUME IInv, NEW r \in Runs, RunStep(r)
  PROVE  DeliveriesSound'
<1>1. DeliverySound(r)'
  BY OwnDeliveryStep
<1>2. ASSUME NEW s \in Runs \ {r} PROVE DeliverySound(s)'
  <2>1. Kept(s)
    BY RunsKeepApart DEF IInv
  <2>2. \A p \in Paths : There(p) => There(p)'
    BY TargetFills DEF IInv
  <2>3. DeliverySound(s) /\ copied[s] \subseteq Paths
    BY DEF IInv, DeliveriesSound, TypeOK
  <2> QED BY <2>1, <2>2, <2>3 DEF Kept, DeliverySound, Orchestrated, TestsPass, Verified, Present
<1> QED BY <1>1, <1>2 DEF DeliveriesSound

\* A run that was routed stays so.
LEMMA RoutedStays ==
  ASSUME IInv, NEW r \in Runs, RunStep(r), NEW s \in Runs,
         rows[s] # None, rows[s].status # "CREATED"
  PROVE  rows'[s] # None /\ rows'[s].status # "CREATED"
<1> USE DEF IInv
<1>1. CASE s # r
  BY <1>1, RunsKeepApart DEF Kept
<1>2. CASE s = r /\ Establish(r)
  BY <1>2 DEF Establish, Goto, RecordsSound, RecordSound
<1>3. CASE s = r /\ (DetermineRoute(r) \/ RecordFinal(r))
  <2>1. "ROUTED" \in RunStatuses /\ "CREATED" \notin FinalStatuses
    BY DEF RunStatuses, FinalStatuses
  <2> QED BY <1>3, <2>1, RowWritten, StatusTyped DEF DetermineRoute, RecordFinal
<1>4. CASE s = r /\ ~(Establish(r) \/ DetermineRoute(r) \/ RecordFinal(r))
  <2>1. rows'[r] = rows[r]
    BY <1>4, WorkLeavesRecords DEF RunStep, WriteReceipt, InsertReceipt, Finish, records
  <2> QED BY <1>4, <2>1
<1> QED BY <1>1, <1>2, <1>3, <1>4

\* A run that was judged is not judged again.
LEMMA JudgedStays ==
  ASSUME IInv, NEW r \in Runs, RunStep(r), NEW s \in Runs, pc[s] \in Judged
  PROVE  pc'[s] \in Judged /\ tested'[s] = tested[s]
<1> USE DEF IInv, Judged, Filing
<1>1. CASE s # r
  BY <1>1, RunsKeepApart DEF Kept
<1>2. CASE s = r
  BY <1>2 DEF TypeOK, Goto, locals, RunStep, Establish, DetermineRoute, PrepareWorkspace,
       WriteLease, BuilderExecutes, RecordInvocation, RegisterCandidate, Verify, CheckCandidate,
       Qualify, PromoteFile, WriteReceipt, InsertReceipt, RecordFinal, Finish, KernelDelegates,
       KernelVerifies
<1> QED BY <1>1, <1>2

\* The evidence of the capability stands: a judge that is done is not judged again.
LEMMA QualificationStep ==
  ASSUME IInv, NEW r \in Runs, RunStep(r)
  PROVE  QualificationSound'
<1>1. registry # None => registry \in CapabilityRows /\ registry.run \in Runs
  BY DEF IInv, TypeOK, CapabilityRows
<1>2. CASE RegisterCandidate(r) /\ registry' # registry
  <2>1. snap[r]["temperature"] \in Versions \cup {None}
    BY DEF IInv, TypeOK, Files, Paths, Modules
  <2>2. registry' = Registered(registry, r, snap[r]["temperature"])
    BY <1>2 DEF RegisterCandidate
  <2>3. /\ registry'.run = r
        /\ registry'.status = "QUALIFIED" =>
             /\ registry # None /\ registry.status = "QUALIFIED"
             /\ registry'.evidence = registry.evidence
    BY <2>1, <2>2, RowRegistered DEF IInv
  <2>4. rows[r] # None /\ rows[r].status # "CREATED"
    BY <1>2 DEF RegisterCandidate, Goto, IInv, RecordsSound, RecordSound
  <2>5. ASSUME registry'.status = "QUALIFIED"
        PROVE  /\ registry'.evidence \in Runs
               /\ pc'[registry'.evidence] \in Judged
               /\ TestsPass(tested[registry.evidence])'
    BY <2>3, <2>5, JudgedStays DEF IInv, QualificationSound, TestsPass
  <2> QED BY <2>3, <2>4, <2>5, RoutedStays DEF QualificationSound, TestsPass
<1>3. CASE Qualify(r)
  <2>1. registry # None /\ TestsPass(tested[r])
    BY <1>3 DEF Qualify, Goto, IInv, Registrars, VerdictsSound, Passed, Proven
  <2>2. registry'.run = registry.run /\ registry'.evidence = r
    BY <1>3, <2>1, RowQualified DEF Qualify, IInv
  <2>3. pc'[r] \in Judged /\ tested' = tested
    BY <1>3 DEF Qualify, Goto, Judged, IInv, TypeOK, locals
  <2> QED BY <1>1, <2>1, <2>2, <2>3, RoutedStays DEF QualificationSound, IInv, TestsPass
<1>4. CASE registry' = registry
  BY <1>1, <1>4, RoutedStays, JudgedStays DEF QualificationSound, IInv, TestsPass
<1>5. registry' = registry \/ Qualify(r) \/ RegisterCandidate(r)
  BY DEF RunStep, shared, Establish, DetermineRoute, PrepareWorkspace, WriteLease,
        BuilderExecutes, RecordInvocation, Verify, CheckCandidate, PromoteFile,
        WriteReceipt, InsertReceipt, RecordFinal, Finish, KernelDelegates, KernelVerifies
<1> QED BY <1>2, <1>3, <1>4, <1>5

-----------------------------------------------------------------------------
(* Deaths and everyone else *)

\* A death changes the program counter only.
LEMMA CrashStep ==
  ASSUME IInv, NEW r \in Runs, Crash(r)
  PROVE  IInv'
<1> USE DEF IInv, Crash, shared, records, locals
<1>1. /\ pc'[r] = "died" /\ pc[r] \notin Ended \cup {"idle"}
      /\ \A s \in Runs \ {r} : pc'[s] = pc[s]
      /\ pc' \in [Runs -> PC]
  BY DEF TypeOK, PC, Ended
<1>2. TypeOK'
  BY <1>1 DEF TypeOK
<1>3. OrchestratedSound' /\ Registrars'
  BY <1>1 DEF OrchestratedSound, Registrars, Orchestrated, Unjudged, Passed
<1>4. VerdictsSound'
  BY <1>1 DEF VerdictsSound, Proven, Verified, TestsPass, ValidReceipt, Orchestrated,
              Unjudged, Passed, Filing
<1>5. ASSUME NEW s \in Runs PROVE RecordSound(s)' /\ DeliverySound(s)'
  <2>1. Sealed(s)' = Sealed(s)
    BY DEF Sealed, PromotionOf, Orchestrated
  <2>2. Sealed(r).status = outcome[r] /\ Sealed(r) # None /\ outcome[r] \in FinalStatuses
    BY SealedReceipt, StatusTyped
  <2>3. {"CREATED", "ROUTED"} \cap FinalStatuses = {}
    BY DEF FinalStatuses
  <2>4. RecordSound(s) /\ DeliverySound(s)
    BY DEF RecordsSound, DeliveriesSound
  <2>5. CASE s # r
    BY <1>1, <2>1, <2>4, <2>5 DEF RecordSound, DeliverySound, Unfiled, Unclosed, Orchestrated,
       Verified, TestsPass, Present, There
  <2>6. CASE s = r
    <3>1. pc[r] \in Unjudged \cup Passed \cup {"sealing", "written", "inserted", "final"}
      BY <1>1 DEF TypeOK, PC, Ended, Unjudged, Passed
    <3>2. RecordSound(r)'
      BY <1>1, <2>1, <2>2, <2>3, <2>4, <2>6, <3>1 DEF RecordSound, Unfiled, Unclosed, Unjudged, Passed
    <3>3. DeliverySound(r)'
      BY <1>1, <2>4, <2>6 DEF DeliverySound, Orchestrated, Verified, TestsPass, Present, There
    <3> QED BY <2>6, <3>2, <3>3
  <2> QED BY <2>5, <2>6
<1>6. QualificationSound'
  BY <1>1 DEF QualificationSound, Judged, TestsPass, TypeOK
<1> QED BY <1>2, <1>3, <1>4, <1>5, <1>6 DEF RecordsSound, DeliveriesSound

\* Agents and cleaners.
Outside(t, p) ==
  \/ Cleanup(t, p)
  \/ \E tool \in Tools, place \in {"workspace", "codebase"} : AgentWrites(tool, place, t, p)

\* They write one file of a workspace, or of the target in an agent's name.
LEMMA OutsideKeeps ==
  ASSUME TypeOK, NEW t \in Tasks, NEW p \in Touched, Outside(t, p)
  PROVE  /\ UNCHANGED <<registry, lease, records, pc, locals>>
         /\ ws' \in [Tasks -> Files] /\ writes' \in 0..MaxWrites
         /\ \/ UNCHANGED <<target, author>>
            \/ \E v \in Versions \cup {None} :
                 target' = [target EXCEPT ![p] = v] /\ author' = [author EXCEPT ![p] = "agent"]
<1> USE OrchestrationAssumption DEF Outside
<1>1. writes' \in 0..MaxWrites
  BY DEF Cleanup, AgentWrites, TypeOK
<1>2. UNCHANGED <<registry, lease, records, pc, locals>>
  BY DEF Cleanup, AgentWrites
<1>3. ws' \in [Tasks -> Files]
  <2>1. ASSUME NEW v \in {"other", None}
        PROVE  [ws EXCEPT ![t][p] = v] \in [Tasks -> Files]
    <3>1. ws[t] \in Files /\ p \in Paths
      BY DEF TypeOK, Paths, Modules
    <3>2. [ws[t] EXCEPT ![p] = v] \in Files
      BY <3>1 DEF Files, Versions
    <3> QED BY <3>2 DEF TypeOK
  <2>2. ws' = ws \/ \E v \in {"other", None} : ws' = [ws EXCEPT ![t][p] = v]
    BY DEF Cleanup, AgentWrites
  <2> QED BY <2>1, <2>2 DEF TypeOK
<1>4. \/ UNCHANGED <<target, author>>
      \/ \E v \in Versions \cup {None} :
           target' = [target EXCEPT ![p] = v] /\ author' = [author EXCEPT ![p] = "agent"]
  BY DEF Cleanup, AgentWrites, Versions
<1> QED BY <1>1, <1>2, <1>3, <1>4

\* What was put into the target is there, or an agent has touched it.
LEMMA OutsideTarget ==
  ASSUME TypeOK, NEW t \in Tasks, NEW p \in Touched, Outside(t, p)
  PROVE  /\ target' \in Files /\ author' \in [Paths -> Runs \cup {"agent", None}]
         /\ \A q \in Paths : There(q) => There(q)'
<1>1. CASE UNCHANGED <<target, author>>
  BY <1>1 DEF TypeOK, There
<1>2. CASE \E v \in Versions \cup {None} :
             target' = [target EXCEPT ![p] = v] /\ author' = [author EXCEPT ![p] = "agent"]
  <2>1. PICK v \in Versions \cup {None} :
           target' = [target EXCEPT ![p] = v] /\ author' = [author EXCEPT ![p] = "agent"]
    BY <1>2
  <2>2. target \in [Paths -> Versions \cup {None}] /\ p \in Paths
    BY OrchestrationAssumption DEF TypeOK, Files, Paths, Modules
  <2>3. target' \in Files /\ author' \in [Paths -> Runs \cup {"agent", None}]
    BY <2>1, <2>2 DEF TypeOK, Files
  <2>4. ASSUME NEW q \in Paths, There(q) PROVE There(q)'
    BY <2>1, <2>2, <2>4 DEF TypeOK, There
  <2> QED BY <2>3, <2>4
<1> QED BY <1>1, <1>2, OutsideKeeps

\* So what runs rely on is not disturbed.
LEMMA OutsideStep ==
  ASSUME IInv, NEW t \in Tasks, NEW p \in Touched, Outside(t, p)
  PROVE  IInv'
<1>1. /\ UNCHANGED <<registry, lease, records, pc, locals>>
      /\ ws' \in [Tasks -> Files] /\ writes' \in 0..MaxWrites
  BY OutsideKeeps DEF IInv
<1>2. \A s \in Runs : Sealed(s)' = Sealed(s)
  BY <1>1 DEF Sealed, PromotionOf, Orchestrated, locals
<1>3. TypeOK'
  BY <1>1, OutsideTarget DEF IInv, TypeOK, records, locals
<1>4. OrchestratedSound' /\ Registrars' /\ VerdictsSound'
  BY <1>1 DEF IInv, OrchestratedSound, Registrars, VerdictsSound, locals, Orchestrated, Proven,
              Verified, TestsPass, ValidReceipt
<1>5. RecordsSound'
  BY <1>1, <1>2 DEF IInv, RecordsSound, RecordSound, locals, records, Unfiled, Unclosed
<1>6. DeliveriesSound'
  <2>1. \A s \in Runs : DeliverySound(s) /\ copied[s] \subseteq Paths
    BY DEF IInv, DeliveriesSound, TypeOK
  <2>2. \A q \in Paths : There(q) => There(q)'
    BY OutsideTarget DEF IInv
  <2> QED BY <1>1, <2>1, <2>2 DEF DeliveriesSound, DeliverySound, locals, records, Orchestrated,
             TestsPass, Verified, Present
<1>7. QualificationSound'
  BY <1>1 DEF IInv, QualificationSound, locals, records, TestsPass
<1> QED BY <1>3, <1>4, <1>5, <1>6, <1>7 DEF IInv

\* Nothing at all.
LEMMA StutterStep ==
  ASSUME IInv, UNCHANGED vars
  PROVE  IInv'
<1>1. \A s \in Runs : Sealed(s)' = Sealed(s)
  BY DEF Sealed, PromotionOf, Orchestrated, vars
<1>2. TypeOK' /\ OrchestratedSound' /\ Registrars' /\ VerdictsSound'
  BY DEF vars, IInv, TypeOK, OrchestratedSound, Registrars, VerdictsSound, Orchestrated, Proven,
         Verified, TestsPass, ValidReceipt
<1>3. RecordsSound' /\ DeliveriesSound'
  BY <1>1 DEF vars, IInv, RecordsSound, RecordSound, DeliveriesSound, DeliverySound, Orchestrated,
         Verified, TestsPass, Present, Unfiled, Unclosed, There
<1>4. QualificationSound'
  BY DEF vars, IInv, QualificationSound, TestsPass
<1> QED BY <1>2, <1>3, <1>4 DEF IInv

-----------------------------------------------------------------------------
(* The theorems *)

\* Everything the proofs need of a state is kept by every step of the two entry points
\* (orchestrator.py, execution_authority.py), by deaths and by everyone else.
THEOREM Soundness == Spec => []IInv
<1>1. IInv /\ [Next]_vars => IInv'
  <2> SUFFICES ASSUME IInv, [Next]_vars PROVE IInv'
    OBVIOUS
  <2>1. CASE \E r \in Runs : RunStep(r)
    BY <2>1, TypeStep, RoutingStep, VerdictStep, RecordStep, DeliveryStep, QualificationStep
       DEF IInv
  <2>2. CASE \E r \in Runs : Crash(r)
    BY <2>2, CrashStep
  <2>3. CASE \E t \in Tasks, p \in Touched : Outside(t, p)
    BY <2>3, OutsideStep
  <2>4. CASE UNCHANGED vars
    BY <2>4, StutterStep
  <2> QED BY <2>1, <2>2, <2>3, <2>4 DEF Next, Outside
<1> QED BY <1>1, InitIInv, PTL DEF Spec

\* The variables keep their types.
THEOREM TypeCorrect == Spec => []TypeOK
BY Soundness, PTL DEF IInv

\* The three writes of seal_and_persist_receipt agree as far as a death let them come.
THEOREM SealsAgree == Spec => []SealedInOrder
<1>1. IInv => SealedInOrder
  <2> SUFFICES ASSUME IInv, NEW r \in Runs
               PROVE  /\ ledger[r] # None => filed[r] = ledger[r]
                      /\ rows[r] # None /\ rows[r].status \in FinalStatuses =>
                           ledger[r] # None /\ ledger[r].status = rows[r].status
    BY DEF SealedInOrder
  <2>1. RecordSound(r) /\ pc[r] \in PC
    BY DEF IInv, RecordsSound, TypeOK
  <2>2. Sealed(r) # None /\ Sealed(r).status = outcome[r]
    BY SealedReceipt DEF IInv
  <2>3. {"CREATED", "ROUTED"} \cap FinalStatuses = {}
    BY DEF FinalStatuses
  <2> QED BY <2>1, <2>2, <2>3 DEF RecordSound, PC, Ended, Unjudged, Passed, Unfiled, Unclosed
<1> QED BY <1>1, Soundness, PTL

\* What is_ten_shadows_execution and cmd_run's exit code say of a run is so.
THEOREM RecognitionIsTrue == Spec => []RecognisedIsTrue
<1>1. IInv => RecognisedIsTrue
  <2> SUFFICES ASSUME IInv, NEW r \in Runs
               PROVE  LET recognised == IsTenShadowsExecution(rows[r], filed[r], ledger[r]) IN
                 /\ pc[r] = "reported" =>
                      recognised /\ (ExitsZero(r) <=> rows[r].status = "VERIFIED_SUCCESS")
                 /\ recognised /\ filed[r].status = "VERIFIED_SUCCESS" =>
                      /\ Verified(verif[r]) /\ TestsPass(tested[r])
                      /\ filed[r].claims.promoted /\ Orchestrated(r) =>
                           \A p \in Present(snap[r]) : target[p] # None \/ author[p] = "agent"
    BY DEF RecognisedIsTrue
  <2>1. RecordSound(r) /\ DeliverySound(r)
    BY DEF IInv, RecordsSound, DeliveriesSound
  <2>2. /\ Sealed(r) # None /\ Sealed(r).status = outcome[r]
        /\ Sealed(r).objective = req[r].objective /\ Sealed(r).verification = verif[r]
    BY SealedReceipt DEF IInv
  <2>3. ASSUME pc[r] = "reported"
        PROVE  /\ VerifyReceipt(filed[r], rows[r])
               /\ filed[r] # None /\ rows[r] # None /\ rows[r].status = outcome[r]
    <3>1. /\ rows[r] # None /\ rows[r].objective = req[r].objective
          /\ filed[r] = Sealed(r) /\ rows[r].status = outcome[r]
      BY <2>1, <2>3 DEF RecordSound
    <3>2. ValidReceipt(outcome[r], verif[r]) /\ (outcome[r] = "VERIFIED_SUCCESS" => Proven(r))
      BY <2>3 DEF IInv, VerdictsSound, Filing
    <3> QED BY <2>2, <3>1, <3>2 DEF VerifyReceipt, ValidReceipt, Proven
  <2>4. pc[r] = "reported" =>
          /\ IsTenShadowsExecution(rows[r], filed[r], ledger[r])
          /\ ExitsZero(r) <=> rows[r].status = "VERIFIED_SUCCESS"
    BY <2>3 DEF IsTenShadowsExecution, ExitsZero
  <2>5. IsTenShadowsExecution(rows[r], filed[r], ledger[r]) => filed[r] # None
    BY <2>1, <2>2 DEF IInv, TypeOK, IsTenShadowsExecution, RecordSound, PC, Ended, Unjudged,
       Passed, Unfiled
  <2> QED BY <2>1, <2>4, <2>5 DEF DeliverySound, There
<1> QED BY <1>1, Soundness, PTL

\* A capability that find_reusable_capabilities offers was qualified by a run whose tests
\* passed on it, in spite of the gap in qualify_capability.
THEOREM QualificationIsEarned == Spec => []QualifiedWasEarned
<1>1. IInv => QualifiedWasEarned
  <2>1. ASSUME NEW f, TestsPass(f) PROVE f["temperature"] = "correct"
    BY <2>1 DEF TestsPass
  <2> QED BY <2>1, OrchestrationAssumption DEF IInv, QualificationSound, QualifiedWasEarned
<1> QED BY <1>1, Soundness, PTL

-----------------------------------------------------------------------------
(* The refinement *)

\* A run that takes a step has not ended, and the first step establishes it.
LEMMA CounterMoves ==
  ASSUME TypeOK, NEW r \in Runs, RunStep(r) \/ Crash(r)
  PROVE  /\ pc[r] \notin Ended /\ pc'[r] # "idle"
         /\ pc[r] = "idle" => pc'[r] = "established"
<1>1. r \in DOMAIN pc
  BY DEF TypeOK
<1>2. ASSUME NEW from, NEW to, Goto(r, from, to), from \notin Ended, to # "idle",
             from = "idle" => to = "established"
      PROVE  /\ pc[r] \notin Ended /\ pc'[r] # "idle"
             /\ pc[r] = "idle" => pc'[r] = "established"
  BY <1>1, <1>2 DEF Goto
<1>3. CASE Establish(r) \/ DetermineRoute(r) \/ PrepareWorkspace(r) \/ WriteLease(r)
  BY <1>2, <1>3 DEF Establish, DetermineRoute, PrepareWorkspace, WriteLease, Ended
<1>4. CASE BuilderExecutes(r) \/ RecordInvocation(r) \/ RegisterCandidate(r)
  BY <1>2, <1>4 DEF BuilderExecutes, RecordInvocation, RegisterCandidate, Ended
<1>5. CASE Verify(r)
  <2>1. PICK passes \in BOOLEAN : Judges(r, passes)
    BY <1>5, VerifyJudges
  <2>2. Judge(r, passes) # "idle"
    BY DEF Judge
  <2> QED BY <1>2, <2>1, <2>2 DEF Judges, Ended
<1>6. CASE CheckCandidate(r) \/ Qualify(r)
  BY <1>2, <1>6 DEF CheckCandidate, Qualify, Ended
<1>7. CASE \E p \in Paths : PromoteFile(r, p)
  BY <1>2, <1>7 DEF PromoteFile, Ended
<1>8. CASE WriteReceipt(r)
  <2>1. pc[r] \in {"sealing", "promoting"}
    BY <1>8 DEF WriteReceipt
  <2>2. pc'[r] \in {"written", "raised"}
    BY <1>1, <1>8 DEF WriteReceipt
  <2> QED BY <2>1, <2>2 DEF Ended
<1>9. CASE InsertReceipt(r) \/ RecordFinal(r) \/ Finish(r)
  BY <1>2, <1>9 DEF InsertReceipt, RecordFinal, Finish, Ended
<1>10. CASE KernelDelegates(r) \/ KernelVerifies(r)
  BY <1>2, <1>10 DEF KernelDelegates, KernelVerifies, Ended
<1>11. CASE Crash(r)
  BY <1>1, <1>11 DEF Crash
<1> QED BY <1>3, <1>4, <1>5, <1>6, <1>7, <1>8, <1>9, <1>10, <1>11 DEF RunStep

\* The stage of a run that is not deciding anything stays.
LEMMA StageMoves ==
  ASSUME IInv, NEW r \in Runs, RunStep(r) \/ Crash(r)
  PROVE  \/ stage'[r] = stage[r]
         \/ stage[r] = "absent" /\ stage'[r] = "open"
         \/ stage[r] = "open" /\ stage'[r] \in {"passed", "closed"}
         \/ stage[r] = "passed" /\ stage'[r] = "closed"
<1> USE DEF RunStep, Crash, Establish, DetermineRoute, PrepareWorkspace, WriteLease,
            BuilderExecutes, RecordInvocation, RegisterCandidate, CheckCandidate, Qualify,
            PromoteFile, WriteReceipt, InsertReceipt, RecordFinal, Finish, KernelDelegates,
            locals
<1>1. /\ pc[r] \notin Ended /\ pc'[r] # "idle"
      /\ pc[r] = "idle" => pc'[r] = "established"
  BY CounterMoves DEF IInv
<1>2. pc[r] = "idle" => ~Verified(verif'[r])
  BY <1>1 DEF IInv, VerdictsSound, Unjudged, Goto, Verify, KernelVerifies
<1>3. Orchestrated(r)' = Orchestrated(r)
  BY DEF Orchestrated, Verify, KernelVerifies
<1>4. Verified(verif[r]) /\ Orchestrated(r) => verif'[r] = verif[r]
  <2>1. CASE Verify(r)
    BY <2>1 DEF Verify, Goto, IInv, VerdictsSound, Unjudged
  <2>2. CASE KernelVerifies(r)
    BY <2>2 DEF KernelVerifies
  <2>3. CASE ~(Verify(r) \/ KernelVerifies(r))
    BY <2>3
  <2> QED BY <2>1, <2>2, <2>3
<1> QED BY <1>1, <1>2, <1>3, <1>4 DEF stage, Orchestrated, Ended

\* Only its own stage moves in a run's step, and only a run that passed touches the target.
LEMMA RunRefines ==
  ASSUME IInv, NEW r \in Runs, RunStep(r) \/ Crash(r)
  PROVE  Governed!Next \/ UNCHANGED Governed!gvars
<1>1. ASSUME NEW s \in Runs \ {r} PROVE stage'[s] = stage[s]
  <2>1. pc'[s] = pc[s] /\ verif'[s] = verif[s] /\ req'[s] = req[s]
    BY <1>1, RunsKeepApart DEF IInv, TypeOK, Kept, Crash, locals
  <2> QED BY <2>1 DEF stage, Orchestrated
<1>2. stage' = [stage EXCEPT ![r] = stage'[r]]
  BY <1>1 DEF stage
<1>3. permitted' = permitted
  <2>1. req' = req
    BY DEF locals, RunStep, Crash, Establish, DetermineRoute, PrepareWorkspace, WriteLease,
       BuilderExecutes, RecordInvocation, RegisterCandidate, Verify, CheckCandidate, Qualify,
       PromoteFile, WriteReceipt, InsertReceipt, RecordFinal, Finish, KernelDelegates,
       KernelVerifies
  <2> QED BY <2>1 DEF permitted
<1>4. CASE UNCHANGED <<target, author>>
  <2>1. CASE stage'[r] = stage[r]
    <3>1. stage' = stage
      BY <1>2, <2>1 DEF stage
    <3> QED BY <1>3, <1>4, <3>1 DEF Governed!gvars
  <2>2. CASE stage[r] = "absent" /\ stage'[r] = "open"
    BY <1>2, <1>3, <1>4, <2>2 DEF Governed!Next, Governed!Open, Governed!Move
  <2>3. CASE stage[r] = "open" /\ stage'[r] = "passed"
    BY <1>2, <1>3, <1>4, <2>3 DEF Governed!Next, Governed!Pass, Governed!Move
  <2>4. CASE stage[r] \in {"open", "passed"} /\ stage'[r] = "closed"
    BY <1>2, <1>3, <1>4, <2>4 DEF Governed!Next, Governed!Close, Governed!Move
  <2> QED BY <2>1, <2>2, <2>3, <2>4, StageMoves
<1>5. CASE ~UNCHANGED <<target, author>>
  <2>1. PICK p \in Paths : PromoteFile(r, p) /\ ws[req[r].task][p] # None
    BY <1>5, TargetMoves DEF PromoteFile, Crash, shared
  <2>2. pc[r] = "promoting" /\ pc' = pc /\ verif' = verif /\ req' = req /\ req[r].promote
    BY <2>1 DEF PromoteFile, Goto, ToPromote, IInv, TypeOK
  <2>3. Verified(verif[r]) /\ Orchestrated(r)
    BY <2>2 DEF IInv, VerdictsSound, OrchestratedSound, Passed, Proven, Verified
  <2>4. stage' = stage /\ stage[r] = "passed" /\ r \in permitted
    BY <2>2, <2>3 DEF stage, permitted, Orchestrated, Ended
  <2>5. \E v \in Versions : target' = [target EXCEPT ![p] = v] /\ author' = [author EXCEPT ![p] = r]
    <3>1. ws[req[r].task][p] \in Versions
      BY <2>1, RequestTyped DEF IInv, TypeOK, Files, IsRequest
    <3> QED BY <2>1, <3>1 DEF PromoteFile
  <2>6. Governed!Deliver(r)
    BY <1>3, <2>4, <2>5 DEF Governed!Deliver, Governed!Change
  <2> QED BY <2>6 DEF Governed!Next
<1> QED BY <1>4, <1>5

\* run_objective, by either entry point, implements governed runs: files of the target
\* change by the hand of a run that passed its verification and was asked to promote, or by
\* an agent's, never in the name of any other run.
THEOREM RefinesGovernedRuns == Spec => Implements
<1>1. Init => Governed!Init
  <2> SUFFICES ASSUME Init PROVE Governed!Init
    OBVIOUS
  <2>1. stage = [r \in Runs |-> "absent"]
    BY DEF Init, stage
  <2> QED BY <2>1 DEF Init, Governed!Init, permitted, NoFiles
<1>2. IInv /\ [Next]_vars => [Governed!Next]_(Governed!gvars)
  <2> SUFFICES ASSUME IInv, [Next]_vars
               PROVE  Governed!Next \/ UNCHANGED Governed!gvars
    OBVIOUS
  <2>1. CASE \E r \in Runs : RunStep(r) \/ Crash(r)
    BY <2>1, RunRefines
  <2>2. CASE \E t \in Tasks, p \in Touched : Outside(t, p)
    <3>1. PICK t \in Tasks, p \in Touched : Outside(t, p)
      BY <2>2
    <3>2. UNCHANGED <<pc, locals>>
      BY <3>1, OutsideKeeps DEF IInv
    <3>3. UNCHANGED <<stage, permitted>>
      BY <3>2 DEF stage, permitted, Orchestrated, locals
    <3>4. p \in Paths
      BY OrchestrationAssumption DEF Paths, Modules
    <3>5. CASE UNCHANGED <<target, author>>
      BY <3>3, <3>5 DEF Governed!gvars
    <3>6. CASE \E v \in Versions \cup {None} :
                 target' = [target EXCEPT ![p] = v] /\ author' = [author EXCEPT ![p] = "agent"]
      BY <3>3, <3>4, <3>6 DEF Governed!Next, Governed!Interfere, Governed!Change
    <3> QED BY <3>1, <3>5, <3>6, OutsideKeeps DEF IInv
  <2>3. CASE UNCHANGED vars
    BY <2>3 DEF vars, Governed!gvars, stage, permitted, Orchestrated
  <2> QED BY <2>1, <2>2, <2>3 DEF Next, Outside
<1> QED BY <1>1, <1>2, Soundness, PTL DEF Spec, Implements, Governed!Spec
=============================================================================
