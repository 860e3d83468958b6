--------------------------- MODULE RouteExecution ---------------------------
(***************************************************************************)
(* BoundedShadowRouter.execute_route (router.py): a parent run's steps one *)
(* after the other under the step governor, each step's output committed   *)
(* by its runner, registered as an artifact and promoted, with resume from *)
(* verified artifacts and escalation to a person.  Executors are processes *)
(* over one database and one scratch directory; any may die anywhere, and  *)
(* nothing keeps two of them from executing one parent run.                *)
(*                                                                         *)
(* The parent runs are of one objective: their runners write the same      *)
(* files.  A run identifier holds milliseconds and is taken to be unique;  *)
(* an escalation identifier holds a step and a second and is not.          *)
(*                                                                         *)
(* The registry (artifacts.py) is a table keyed by the idempotency key and *)
(* one payload file per key; the ledger row of an event is written with    *)
(* the row it is about and left out.  A key stands for the 8-tuple: parent *)
(* run, step and hash of the source artifact vary, the rest is that of one *)
(* deployment.  A hash is the content it names.                            *)
(***************************************************************************)
EXTENDS StepGovernor, Sequences

CONSTANTS
  Executors,      \* processes that call execute_route
  Parents,        \* parent runs
  Plan,           \* the plan's domains, in order
  NeedsApproval,  \* <<p, domain>>: the step of p's plan has requires_human_approval
  Generated,      \* candidates the scribe and the herald may generate
  Valid,          \* those that their audits pass
  Decisions,      \* what a person decides, as RESOLVED_APPROVED
  MaxStarts,      \* bound: calls of execute_route
  MaxSecond       \* bound: the seconds of the clock

Domains == {"scribe", "herald", "slicer"}

ASSUME RouteAssumption ==
  /\ None \notin Generated \cup {"RUNNING", "AWAITING_APPROVAL", "COMPLETED"}
  /\ Valid \subseteq Generated
  /\ Plan \in {<<"scribe", "herald", "slicer">>, <<"herald">>}
  /\ NeedsApproval \subseteq Parents \X Domains
  /\ MaxStarts \in Nat /\ MaxSecond \in Nat

VARIABLES
  runs,         \* runs[p]: the status of the row of the runs table
  artifacts,    \* the artifacts table, by key
  files,        \* payload files, by key
  script,       \* scratch/av_scripts: the blueprint and the markdown of the objective
  dag,          \* scratch/sliced_dags: the objective's plan
  receipts,     \* the receipts table
  lost,         \* history: <<p, domain>> whose completed step registered nothing
  escalations,  \* the escalations table, by identifier
  exec,         \* exec[e]: the local state of execute_route
  now,          \* seconds of the clock
  starts        \* calls made

vars ==
  <<runs, artifacts, files, script, dag, receipts, lost, escalations, exec, now, starts>>

-----------------------------------------------------------------------------
(* The artifact registry *)

ArtifactStates == {"STAGED", "VERIFIED", "PROMOTED"}

\* compute_idempotency_key; the artifact's identifier is cut from it.
Key(parent, step, source) == [parent |-> parent, step |-> step, source |-> source]

Row(content) == [content |-> content, state |-> "STAGED"]

Put(f, k, v) == [x \in DOMAIN f \cup {k} |-> IF x = k THEN v ELSE f[x]]

\* stage_artifact's transaction: an existing row of the key is returned as it is.
StagedIn(rows, k, content) ==
  IF k \in DOMAIN rows THEN rows ELSE Put(rows, k, Row(content))

\* transition_state: from whatever state the row is in.
TransitionedIn(rows, k, state) == [rows EXCEPT ![k].state = state]

\* Mutant: the query forgets the state.
FoundStaged(rows, k) == k \in DOMAIN rows
\* find_verified_artifact.
FoundVerified(rows, k) ==
  k \in DOMAIN rows /\ rows[k].state \in {"VERIFIED", "PROMOTED"}

-----------------------------------------------------------------------------
(* Inputs, candidates and audits *)

Objective == [type |-> "objective"]    \* the CanonicalObjective
Zero == [type |-> "zero"]              \* the source hash of a first step
Idle == [pc |-> "idle"]

\* Artifacts.  A script names its source by the router's hash, a plan by that of what
\* the slicer was given.
SourceContent == [type |-> "source"]
Scripts == [type : {"script"}, blueprint : Generated \cup {None},
            markdown : Generated \cup {None}, from : {SourceContent, Zero}]
PlanOf(source) == [type |-> "plan", of |-> source]
Contents == {SourceContent} \cup Scripts \cup {PlanOf(c) : c \in {Zero} \cup Scripts}

\* normalize_with_context: the source that a runner's task specification names.
ScribeSpec(input) == Zero
HeraldSpec(input) == IF input = SourceContent THEN input ELSE Zero
SlicerSpec(input) == IF input \in Scripts THEN input ELSE Zero
TaskSource(domain, input) ==
  CASE domain = "scribe" -> ScribeSpec(input)
    [] domain = "herald" -> HeraldSpec(input)
    [] domain = "slicer" -> SlicerSpec(input)

\* execute_staging: texts that depend on feedback and memory, or the one plan of a script.
ScribeCandidates == Generated
HeraldCandidates == Generated
SlicerCandidates(source) == {PlanOf(source)}
CandidatesFor(domain, source) ==
  CASE domain = "scribe" -> ScribeCandidates
    [] domain = "herald" -> HeraldCandidates
    [] domain = "slicer" -> SlicerCandidates(source)

\* verify: what it can pass.  It may fail anything (an unreadable file, a forced failure).
ScribeAudit(c) == c \in Valid
\* Mutant: a verdict that is not looked at.
HeraldAuditIgnored(c) == TRUE
HeraldAudit(c) == c \in Valid
SlicerAudit(c) == c.type = "plan"    \* three slices, each with a module and a test
Audits(domain, c) ==
  CASE domain = "scribe" -> ScribeAudit(c)
    [] domain = "herald" -> HeraldAudit(c)
    [] domain = "slicer" -> SlicerAudit(c)

Domain(x) == Plan[x.at]
\* The task has the identifier of its input; of any other input it draws a random one, and
\* with it files of its own.
OwnFile(x) == TaskSource(Domain(x), x.input) = Zero
KeyOf(x) == Key(x.parent, Domain(x), x.source)
Escalation(x) == <<Domain(x), now>>

Init ==
  /\ runs = [p \in Parents |-> None]
  /\ artifacts = <<>> /\ files = <<>>
  /\ script = [blueprint |-> None, markdown |-> None] /\ dag = None
  /\ receipts = {} /\ lost = {} /\ escalations = <<>>
  /\ exec = [e \in Executors |-> Idle]
  /\ now = 0 /\ starts = 0

-----------------------------------------------------------------------------
(* execute_route *)

\* The call: whatever the run's row says, the run is RUNNING (again).
Start(e, p, resume) ==
  /\ exec[e] = Idle /\ starts < MaxStarts
  /\ starts' = starts + 1
  /\ runs' = [runs EXCEPT ![p] = "RUNNING"]
  /\ exec' = [exec EXCEPT ![e] =
       [pc |-> "step", parent |-> p, resume |-> resume, at |-> 1, input |-> Objective,
        source |-> Zero, gov |-> Fresh, candidate |-> None, made |-> None]]
  /\ UNCHANGED <<artifacts, files, script, dag, receipts, lost, escalations, now>>

\* The next step's local state: input is what flows on, source the hash that names it.
Advanced(x, input, source) ==
  [x EXCEPT !.pc = "step", !.at = @ + 1, !.input = input, !.source = source,
            !.gov = Fresh, !.candidate = None, !.made = None]

Cached(x) == x.resume /\ FoundVerified(artifacts, KeyOf(x))

\* A step whose artifact is verified is skipped when resuming; its file flows on.
UseCached(e) ==
  LET x == exec[e] IN
  /\ x.pc = "step" /\ x.at <= Len(Plan) /\ x.gov = Fresh
  /\ Cached(x)
  /\ exec' = [exec EXCEPT ![e] = Advanced(x, files[KeyOf(x)], artifacts[KeyOf(x)].content)]
  /\ UNCHANGED <<runs, artifacts, files, script, dag, receipts, lost, escalations, now, starts>>

\* A step that waits for a person, or whose strikes are used up.
MustEscalate(x) ==
  IF x.gov = Fresh THEN ~Cached(x) /\ <<x.parent, Domain(x)>> \in NeedsApproval
                   ELSE ~CanAttempt(x.gov)

\* record_escalation: its identifier may be taken by another run's in that second.
Escalate(e) ==
  LET x == exec[e] IN
  /\ x.pc = "step" /\ x.at <= Len(Plan)
  /\ MustEscalate(x)
  /\ IF Escalation(x) \in DOMAIN escalations
       THEN exec' = [exec EXCEPT ![e] = Idle] /\ UNCHANGED escalations
       ELSE /\ escalations' = Put(escalations, Escalation(x),
                                  [parent |-> x.parent, status |-> "AWAITING_APPROVAL"])
            /\ exec' = [exec EXCEPT ![e].pc = "park"]
  /\ UNCHANGED <<runs, artifacts, files, script, dag, receipts, lost, now, starts>>

\* Mutant: the run's row before the escalation's.
ParkFirst(e) ==
  LET x == exec[e] IN
  /\ x.pc = "step" /\ x.at <= Len(Plan) /\ MustEscalate(x)
  /\ runs' = [runs EXCEPT ![x.parent] = "AWAITING_APPROVAL"]
  /\ UNCHANGED <<artifacts, files, script, dag, receipts, lost, escalations, exec, now, starts>>
\* The run's row after an escalation; the call returns.
Park(e) ==
  LET x == exec[e] IN
  /\ x.pc = "park"
  /\ runs' = [runs EXCEPT ![x.parent] = "AWAITING_APPROVAL"]
  /\ exec' = [exec EXCEPT ![e] = Idle]
  /\ UNCHANGED <<artifacts, files, script, dag, receipts, lost, escalations, now, starts>>

\* One iteration of run_step: the runner raises, repeats the candidate just rejected,
\* fails the verification, or passes it.
Attempt(e) ==
  LET x == exec[e]
      Retry(gov) == exec' = [exec EXCEPT ![e].gov = gov]
  IN
  /\ x.pc = "step" /\ x.at <= Len(Plan)
  /\ CanAttempt(x.gov) /\ (x.gov = Fresh => ~Cached(x) /\ ~MustEscalate(x))
  /\ \/ Retry(Raised(x.gov))
     \/ \E c \in CandidatesFor(Domain(x), TaskSource(Domain(x), x.input)) :
          IF Oscillates(x.gov, c) THEN Retry(Raised(x.gov))
          ELSE \/ Retry(Rejected(x.gov, c))
               \/ /\ Audits(Domain(x), c)
                  /\ exec' = [exec EXCEPT ![e].pc = "commit", ![e].candidate = c,
                                          ![e].gov = Seen(@, c)]
  /\ UNCHANGED <<runs, artifacts, files, script, dag, receipts, lost, escalations, now, starts>>

-----------------------------------------------------------------------------
(* The runners' commit_with_governance: the destination files, then the receipt. *)

ReceiptOf(x) ==
  [parent |-> x.parent, domain |-> Domain(x), candidate |-> x.candidate,
   attempt |-> x.gov.attempt, strikes |-> x.gov.strike]

\* The report of the scribe is read by nobody: the receipt alone.
CommitSource(e) ==
  LET x == exec[e] IN
  /\ x.pc = "commit" /\ Domain(x) = "scribe"
  /\ receipts' = receipts \cup {ReceiptOf(x)}
  /\ exec' = [exec EXCEPT ![e].pc = "register"]
  /\ UNCHANGED <<runs, artifacts, files, script, dag, lost, escalations, now, starts>>

CommitBlueprint(e) ==
  LET x == exec[e] IN
  /\ x.pc = "commit" /\ Domain(x) = "herald"
  /\ script' = IF OwnFile(x) THEN script ELSE [script EXCEPT !.blueprint = x.candidate]
  /\ exec' = [exec EXCEPT ![e].pc = "markdown"]
  /\ UNCHANGED <<runs, artifacts, files, dag, receipts, lost, escalations, now, starts>>

CommitMarkdown(e) ==
  LET x == exec[e] IN
  /\ x.pc = "markdown"
  /\ script' = IF OwnFile(x) THEN script ELSE [script EXCEPT !.markdown = x.candidate]
  /\ exec' = [exec EXCEPT ![e].pc = "receipt"]
  /\ UNCHANGED <<runs, artifacts, files, dag, receipts, lost, escalations, now, starts>>

CommitPlan(e) ==
  LET x == exec[e] IN
  /\ x.pc = "commit" /\ Domain(x) = "slicer"
  /\ dag' = IF OwnFile(x) THEN dag ELSE x.candidate
  /\ exec' = [exec EXCEPT ![e].pc = "receipt"]
  /\ UNCHANGED <<runs, artifacts, files, script, receipts, lost, escalations, now, starts>>

RecordReceipt(e) ==
  LET x == exec[e] IN
  /\ x.pc = "receipt"
  /\ receipts' = receipts \cup {ReceiptOf(x)}
  /\ exec' = [exec EXCEPT ![e].pc = "register"]
  /\ UNCHANGED <<runs, artifacts, files, script, dag, lost, escalations, now, starts>>

-----------------------------------------------------------------------------
(* Registering what the step made *)

\* What the router takes for the step's output: the objective again, or the files,
\* whoever wrote them last.
ScribeOutput(x) == SourceContent
ScriptOf(blueprint, markdown, x) ==
  [type |-> "script", blueprint |-> blueprint, markdown |-> markdown, from |-> x.source]
HeraldOutput(x) ==
  IF OwnFile(x) THEN ScriptOf(x.candidate, x.candidate, x)
                ELSE ScriptOf(script.blueprint, script.markdown, x)
SlicerOutput(x) == IF OwnFile(x) THEN x.candidate ELSE dag
OutputOf(x) ==
  CASE Domain(x) = "scribe" -> ScribeOutput(x)
    [] Domain(x) = "herald" -> HeraldOutput(x)
    [] Domain(x) = "slicer" -> SlicerOutput(x)

\* Whether the files of the step are still there when the router looks.
SharedFiles(x) ==
  /\ Domain(x) = "herald" => script.blueprint # None /\ script.markdown # None
  /\ Domain(x) = "slicer" => dag # None

\* The output is read and stage_artifact writes it to the key's file.
WriteArtifact(e) ==
  LET x == exec[e] IN
  /\ x.pc = "register" /\ (OwnFile(x) \/ SharedFiles(x))
  /\ files' = Put(files, KeyOf(x), OutputOf(x))
  /\ exec' = [exec EXCEPT ![e].pc = "stage", ![e].made = OutputOf(x)]
  /\ UNCHANGED <<runs, artifacts, script, dag, receipts, lost, escalations, now, starts>>

\* The files are gone: the step, completed already, registers nothing, and the next one
\* gets this step's input under this step's source hash.
SkipArtifact(e) ==
  LET x == exec[e] IN
  /\ x.pc = "register" /\ Domain(x) # "scribe" /\ (OwnFile(x) \/ ~SharedFiles(x))
  /\ lost' = lost \cup {<<x.parent, Domain(x)>>}
  /\ exec' = [exec EXCEPT ![e] = Advanced(x, x.input, x.source)]
  /\ UNCHANGED <<runs, artifacts, files, script, dag, receipts, escalations, now, starts>>

Stage(e) ==
  LET x == exec[e] IN
  /\ x.pc = "stage"
  /\ artifacts' = StagedIn(artifacts, KeyOf(x), x.made)
  /\ exec' = [exec EXCEPT ![e].pc = "verified"]
  /\ UNCHANGED <<runs, files, script, dag, receipts, lost, escalations, now, starts>>

Verify(e) ==
  LET x == exec[e] IN
  /\ x.pc = "verified"
  /\ artifacts' = TransitionedIn(artifacts, KeyOf(x), "VERIFIED")
  /\ exec' = [exec EXCEPT ![e].pc = "promote"]
  /\ UNCHANGED <<runs, files, script, dag, receipts, lost, escalations, now, starts>>

\* The object just made flows on, under the hash of the row that stage_artifact returned.
Promote(e) ==
  LET x == exec[e] IN
  /\ x.pc = "promote"
  /\ artifacts' = TransitionedIn(artifacts, KeyOf(x), "PROMOTED")
  /\ exec' = [exec EXCEPT ![e] = Advanced(x, x.made, artifacts[KeyOf(x)].content)]
  /\ UNCHANGED <<runs, files, script, dag, receipts, lost, escalations, now, starts>>

Complete(e) ==
  LET x == exec[e] IN
  /\ x.pc = "step" /\ x.at > Len(Plan)
  /\ runs' = [runs EXCEPT ![x.parent] = "COMPLETED"]
  /\ exec' = [exec EXCEPT ![e] = Idle]
  /\ UNCHANGED <<artifacts, files, script, dag, receipts, lost, escalations, now, starts>>

-----------------------------------------------------------------------------
(* Around it *)

\* resolve_escalation: any decision, at any time, as often as it is called.
ResolveEscalation(id, decision) ==
  /\ id \in DOMAIN escalations
  /\ escalations' = [escalations EXCEPT ![id].status = decision]
  /\ UNCHANGED <<runs, artifacts, files, script, dag, receipts, lost, exec, now, starts>>

\* An exception leaves execute_route (a changed task spec, a file or the database), or
\* the process dies: the row stays as it is.
Die(e) ==
  /\ exec[e] # Idle
  /\ exec' = [exec EXCEPT ![e] = Idle]
  /\ UNCHANGED <<runs, artifacts, files, script, dag, receipts, lost, escalations, now, starts>>

\* scratch/ is not under version control: somebody clears it.
ClearScratch ==
  /\ script' = [blueprint |-> None, markdown |-> None] /\ dag' = None
  /\ UNCHANGED <<runs, artifacts, files, receipts, lost, escalations, exec, now, starts>>

Tick ==
  /\ now < MaxSecond /\ now' = now + 1
  /\ UNCHANGED <<runs, artifacts, files, script, dag, receipts, lost, escalations, exec, starts>>

Executes(e) ==
  \/ UseCached(e) \/ Escalate(e) \/ Park(e) \/ Attempt(e)
  \/ CommitSource(e) \/ CommitBlueprint(e) \/ CommitMarkdown(e) \/ CommitPlan(e)
  \/ RecordReceipt(e) \/ WriteArtifact(e) \/ SkipArtifact(e) \/ Stage(e) \/ Verify(e)
  \/ Promote(e) \/ Complete(e)

Next ==
  \/ \E e \in Executors : Executes(e) \/ Die(e)
  \/ \E e \in Executors, p \in Parents, resume \in BOOLEAN : Start(e, p, resume)
  \/ \E id \in DOMAIN escalations, d \in Decisions : ResolveEscalation(id, d)
  \/ ClearScratch \/ Tick

Spec == Init /\ [][Next]_vars

-----------------------------------------------------------------------------
(* Properties *)

Sources == {Zero} \cup Contents
Keys == [parent : Parents, step : Domains, source : Sources]

\* The tables, the files and every executor's local state have their types; no step
\* counts more than the ceiling of attempts and strikes.
TypeOK ==
  /\ runs \in [Parents -> {None, "RUNNING", "AWAITING_APPROVAL", "COMPLETED"}]
  /\ lost \subseteq Parents \X Domains
  /\ DOMAIN artifacts \subseteq Keys /\ DOMAIN artifacts \subseteq DOMAIN files
  /\ \A k \in DOMAIN artifacts :
       artifacts[k] \in [content : Contents, state : ArtifactStates]
  /\ \A k \in DOMAIN files : files[k] \in Contents
  /\ script \in [blueprint : Generated \cup {None}, markdown : Generated \cup {None}]
  /\ dag \in {None} \cup Contents
  /\ \A e \in Executors : exec[e] # Idle =>
       /\ exec[e].parent \in Parents /\ exec[e].at \in 1..(Len(Plan) + 1)
       /\ exec[e].input \in {Objective} \cup Contents /\ exec[e].source \in Sources
       /\ exec[e].gov \in Governors(Generated \cup Contents)

Usable(p, domain) ==
  {k \in DOMAIN artifacts : /\ k.parent = p /\ k.step = domain
                            /\ artifacts[k].state \in {"VERIFIED", "PROMOTED"}}

\* Parent run p committed its step of a domain within the strike ceiling, with no attempt
\* unaccounted for.
Committed(p, domain) ==
  \E r \in receipts : /\ r.parent = p /\ r.domain = domain
                      /\ r.strikes < MaxStrikes /\ r.attempt = r.strikes + 1

\* An artifact that may be reused holds only what passed its audit, although its files
\* are shared and read again after the verification; and its own parent run committed
\* that step.
UsableWasEarned ==
  \A p \in Parents, d \in Domains : \A k \in Usable(p, d) :
    /\ artifacts[k].content.type = "script" =>
         {artifacts[k].content.blueprint, artifacts[k].content.markdown} \subseteq Valid
    /\ Committed(p, d)

\* A step made under the hash from hands on the hash to: that of a usable artifact made
\* under from, or from itself where the step was committed and its files were gone.
HandsOn(p, domain, from, to) ==
  \/ \E k \in Usable(p, domain) : k.source = from /\ artifacts[k].content = to
  \/ from = to /\ <<p, domain>> \in lost /\ Committed(p, domain)

Hashes == {Zero} \cup {artifacts[k].content : k \in DOMAIN artifacts}

\* A run recorded COMPLETED has, whatever deaths, resumes and second executions it saw,
\* its steps joined hash by hash: none was skipped but one whose committed files vanished
\* before they were registered.
CompletedIsEarned ==
  \A p \in Parents : runs[p] = "COMPLETED" =>
    \E flow \in [0..Len(Plan) -> Hashes] :
      /\ flow[0] = Zero
      /\ \A i \in 1..Len(Plan) : HandsOn(p, Plan[i], flow[i - 1], flow[i])

\* A run that waits for a person has an escalation that person can decide on.
AwaitingIsEscalated ==
  \A p \in Parents : runs[p] = "AWAITING_APPROVAL" =>
    \E id \in DOMAIN escalations : escalations[id].parent = p

\* "Physical content hash must match recorded SHA-256": the payload file of a registered
\* artifact holds the content that its row records.
FileMatchesRecord == \A k \in DOMAIN artifacts : files[k] = artifacts[k].content
=============================================================================
