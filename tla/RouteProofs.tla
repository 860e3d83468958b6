---------------------------- MODULE RouteProofs ----------------------------
(***************************************************************************)
(* Proofs about execute_route, for every number of executors, parent runs, *)
(* candidates, calls and seconds and each plan the router makes.           *)
(***************************************************************************)
EXTENDS RouteExecution, TLAPS

\* What a step can make, now that its candidates were verified.
ValidScripts ==
  [type : {"script"}, blueprint : Valid, markdown : Valid, from : {SourceContent, Zero}]
Made(domain) ==
  CASE domain = "scribe" -> {SourceContent}
    [] domain = "herald" -> ValidScripts
    [] domain = "slicer" -> {PlanOf(c) : c \in {Zero} \cup ValidScripts}

Committing == {"commit", "markdown", "receipt"}
Registering == {"register", "stage", "verified", "promote"}

Calls ==
  [pc : {"step", "park"} \cup Committing \cup Registering, parent : Parents, resume : BOOLEAN,
   at : 1..(Len(Plan) + 1), input : {Objective} \cup Contents, source : Sources,
   gov : Governors(Generated \cup Contents), candidate : {None} \cup Generated \cup Contents,
   made : {None} \cup Contents]

Active(e) == exec[e] # Idle

ExecTyped == exec \in [Executors -> {Idle} \cup Calls]

\* The shared files and tables hold only what passed an audit.
StoreSound ==
  /\ runs \in [Parents -> {None, "RUNNING", "AWAITING_APPROVAL", "COMPLETED"}]
  /\ script \in [blueprint : Valid \cup {None}, markdown : Valid \cup {None}]
  /\ lost \subseteq Parents \X Domains
  /\ dag \in {None} \cup Made("slicer")
  /\ \A k \in DOMAIN files : k \in Keys /\ files[k] \in Made(k.step)
  /\ DOMAIN artifacts \subseteq DOMAIN files
  /\ \A k \in DOMAIN artifacts :
       artifacts[k] \in [content : Made(k.step), state : ArtifactStates]

UsableStates == {"VERIFIED", "PROMOTED"}

ReceiptsSound ==
  \A k \in DOMAIN artifacts :
    artifacts[k].state \in UsableStates => Committed(k.parent, k.step)

\* HandsOn and Hashes of given tables.
Linked(rows, won, gone, p, domain, from, to) ==
  \/ \E k \in DOMAIN rows :
       /\ k.parent = p /\ k.step = domain /\ rows[k].state \in UsableStates
       /\ k.source = from /\ rows[k].content = to
  \/ /\ from = to /\ <<p, domain>> \in gone
     /\ \E r \in won : /\ r.parent = p /\ r.domain = domain
                       /\ r.strikes < MaxStrikes /\ r.attempt = r.strikes + 1
HashesOf(rows) == {Zero} \cup {rows[k].content : k \in DOMAIN rows}

\* n steps of a parent run, each made under the hash that the one before handed on, the
\* last of them handing on s.
Chained(rows, won, gone, p, n, s) ==
  \E flow \in [0..n -> HashesOf(rows)] :
    /\ flow[0] = Zero /\ flow[n] = s
    /\ \A i \in 1..n : Linked(rows, won, gone, p, Plan[i], flow[i - 1], flow[i])

RunsSound ==
  /\ \A p \in Parents : runs[p] = "COMPLETED" =>
       \E s : Chained(artifacts, receipts, lost, p, Len(Plan), s)
  /\ AwaitingIsEscalated

\* What a call of execute_route relies on from its earlier steps,
CallSound(x) ==
  /\ x.pc # "step" => x.at <= Len(Plan)
  /\ x.at <= Len(Plan) =>
       /\ Domain(x) = "herald" =>
            x.input \in {Objective, SourceContent} /\ x.source \in {Zero, SourceContent}
       /\ Domain(x) = "slicer" => x.input \in {Objective, SourceContent} \cup ValidScripts
  /\ x.pc \in {"step", "park"} => x.gov.attempt = x.gov.strike
  /\ x.pc \in Committing \cup Registering =>
       x.gov.strike < MaxStrikes /\ x.gov.attempt = x.gov.strike + 1
  /\ x.pc \in Committing \cup {"register"} =>
       /\ Domain(x) = "herald" => x.candidate \in Valid
       /\ Domain(x) = "slicer" => x.candidate \in Made("slicer")
  /\ x.pc = "markdown" => Domain(x) = "herald"
  /\ x.pc = "receipt" => Domain(x) # "scribe"

\* and from what it wrote.
EffectSound(x) ==
  /\ x.pc \in Registering => ReceiptOf(x) \in receipts
  /\ x.pc \in {"stage", "verified", "promote"} =>
       x.made \in Made(Domain(x)) /\ KeyOf(x) \in DOMAIN files
  /\ x.pc \in {"verified", "promote"} => KeyOf(x) \in DOMAIN artifacts
  /\ x.pc = "promote" => artifacts[KeyOf(x)].state \in UsableStates
  /\ x.pc = "park" => \E id \in DOMAIN escalations : escalations[id].parent = x.parent
  /\ Chained(artifacts, receipts, lost, x.parent, x.at - 1, x.source)

CallsSound == \A e \in Executors : Active(e) => CallSound(exec[e]) /\ EffectSound(exec[e])

IInv == ExecTyped /\ StoreSound /\ ReceiptsSound /\ RunsSound /\ CallsSound

\* What no step takes back.
RowsGrow(rows, more) ==
  /\ DOMAIN rows \subseteq DOMAIN more
  /\ \A k \in DOMAIN rows :
       /\ more[k].content = rows[k].content
       /\ rows[k].state \in UsableStates => more[k].state \in UsableStates

Grows ==
  /\ receipts \subseteq receipts' /\ lost \subseteq lost'
  /\ DOMAIN files \subseteq DOMAIN files'
  /\ RowsGrow(artifacts, artifacts')
  /\ \A id \in DOMAIN escalations :
       id \in DOMAIN escalations' /\ escalations'[id].parent = escalations[id].parent

-----------------------------------------------------------------------------
(* Facts about the constants *)

LEMMA PlanFacts ==
  /\ Len(Plan) \in Nat \ {0}
  /\ \A i \in 1..Len(Plan) : Plan[i] \in Domains
  /\ \A i \in 1..Len(Plan) : i > 1 /\ Plan[i] = "herald" => Plan[i - 1] = "scribe"
  /\ \A i \in 1..Len(Plan) : Plan[i] = "slicer" => i > 1 /\ Plan[i - 1] = "herald"
<1>1. CASE Plan = <<"scribe", "herald", "slicer">>
  <2>1. Len(Plan) = 3 /\ Plan[1] = "scribe" /\ Plan[2] = "herald" /\ Plan[3] = "slicer"
    BY <1>1
  <2>2. 1..Len(Plan) = {1, 2, 3}
    BY <2>1
  <2> QED BY <2>1, <2>2 DEF Domains
<1>2. CASE Plan = <<"herald">>
  <2>1. Len(Plan) = 1 /\ Plan[1] = "herald"
    BY <1>2
  <2>2. 1..Len(Plan) = {1}
    BY <2>1
  <2> QED BY <2>1, <2>2 DEF Domains
<1> QED BY <1>1, <1>2, RouteAssumption

\* What steps make are contents, and tell their domains apart.
LEMMA MadeFacts ==
  /\ Made("scribe") = {SourceContent}
  /\ Made("herald") = ValidScripts
  /\ Made("slicer") = {PlanOf(c) : c \in {Zero} \cup ValidScripts}
  /\ ValidScripts \subseteq Scripts
  /\ \A d \in Domains : Made(d) \subseteq Contents
  /\ \A d \in Domains : \A c \in Made(d) : c.type = "script" => c \in ValidScripts
<1>1. /\ Made("scribe") = {SourceContent} /\ Made("herald") = ValidScripts
      /\ Made("slicer") = {PlanOf(c) : c \in {Zero} \cup ValidScripts}
  BY DEF Made
<1>2. ValidScripts \subseteq Scripts
  BY RouteAssumption DEF ValidScripts, Scripts
<1>3. \A d \in Domains : Made(d) \subseteq Contents
  BY <1>1, <1>2 DEF Domains, Contents
<1>4. \A d \in Domains : \A c \in Made(d) : c.type = "script" => c \in ValidScripts
  BY <1>1 DEF Domains, SourceContent, PlanOf
<1> QED BY <1>1, <1>2, <1>3, <1>4

LEMMA CallFacts ==
  ASSUME ExecTyped, NEW e \in Executors, Active(e)
  PROVE  /\ exec[e] \in Calls
         /\ exec[e].at <= Len(Plan) => Domain(exec[e]) \in Domains /\ KeyOf(exec[e]) \in Keys
         /\ KeyOf(exec[e]).parent = exec[e].parent
         /\ KeyOf(exec[e]).step = Domain(exec[e])
         /\ KeyOf(exec[e]).source = exec[e].source
<1>1. exec[e] \in Calls
  BY DEF ExecTyped, Active
<1>2. exec[e].at <= Len(Plan) => exec[e].at \in 1..Len(Plan)
  BY <1>1, PlanFacts DEF Calls
<1>3. exec[e].at <= Len(Plan) => Domain(exec[e]) \in Domains
  BY <1>2, PlanFacts DEF Domain
<1>4. exec[e].parent \in Parents /\ exec[e].source \in Sources
  BY <1>1 DEF Calls
<1> QED BY <1>1, <1>3, <1>4 DEF KeyOf, Key, Keys

LEMMA IdleIsIdle == \A e \in Executors : exec[e].pc # "idle" => Active(e)
BY DEF Active, Idle

-----------------------------------------------------------------------------
(* Rows and chains *)

\* transition_state to a usable state changes one row's state alone.
LEMMA TransitionGrows ==
  ASSUME NEW rows, NEW k \in DOMAIN rows, NEW state \in UsableStates,
         NEW C, \A j \in DOMAIN rows : rows[j] \in [content : C, state : ArtifactStates]
  PROVE  /\ RowsGrow(rows, TransitionedIn(rows, k, state))
         /\ DOMAIN TransitionedIn(rows, k, state) = DOMAIN rows
         /\ \A j \in DOMAIN rows : j # k => TransitionedIn(rows, k, state)[j] = rows[j]
         /\ TransitionedIn(rows, k, state)[k] =
              [content |-> rows[k].content, state |-> state]
<1> DEFINE more == TransitionedIn(rows, k, state)
<1>1. DOMAIN more = DOMAIN rows /\ \A j \in DOMAIN rows : j # k => more[j] = rows[j]
  BY DEF TransitionedIn
<1>2. more[k] = [content |-> rows[k].content, state |-> state]
  BY DEF TransitionedIn
<1>3. RowsGrow(rows, more)
  BY <1>1, <1>2 DEF RowsGrow
<1> QED BY <1>1, <1>2, <1>3

LEMMA ChainStarts ==
  ASSUME NEW rows, NEW won, NEW gone, NEW p PROVE Chained(rows, won, gone, p, 0, Zero)
<1> DEFINE flow == [i \in 0..0 |-> Zero]
<1>1. flow \in [0..0 -> HashesOf(rows)]
  BY DEF HashesOf
<1>2. flow[0] = Zero /\ 1..0 = {}
  OBVIOUS
<1> HIDE DEF flow
<1> QED BY <1>1, <1>2 DEF Chained

LEMMA LinkGrows ==
  ASSUME NEW rows, NEW more, RowsGrow(rows, more),
         NEW won, NEW won2, won \subseteq won2, NEW gone, NEW gone2, gone \subseteq gone2,
         NEW p, NEW d, NEW from, NEW to, Linked(rows, won, gone, p, d, from, to)
  PROVE  Linked(more, won2, gone2, p, d, from, to)
<1>1. \A k \in DOMAIN rows :
        /\ k \in DOMAIN more /\ more[k].content = rows[k].content
        /\ rows[k].state \in UsableStates => more[k].state \in UsableStates
  BY DEF RowsGrow
<1> QED BY <1>1 DEF Linked

LEMMA ChainGrows ==
  ASSUME NEW rows, NEW more, RowsGrow(rows, more),
         NEW won, NEW won2, won \subseteq won2, NEW gone, NEW gone2, gone \subseteq gone2,
         NEW p, NEW n \in Nat, NEW s, Chained(rows, won, gone, p, n, s)
  PROVE  Chained(more, won2, gone2, p, n, s)
<1>1. PICK flow \in [0..n -> HashesOf(rows)] :
        /\ flow[0] = Zero /\ flow[n] = s
        /\ \A i \in 1..n : Linked(rows, won, gone, p, Plan[i], flow[i - 1], flow[i])
  BY DEF Chained
<1>2. HashesOf(rows) \subseteq HashesOf(more)
  BY DEF HashesOf, RowsGrow
<1>3. flow \in [0..n -> HashesOf(more)]
  BY <1>1, <1>2
<1>4. \A i \in 1..n : Linked(more, won2, gone2, p, Plan[i], flow[i - 1], flow[i])
  BY <1>1, LinkGrows
<1> QED BY <1>1, <1>3, <1>4 DEF Chained

LEMMA ChainEnds ==
  ASSUME NEW rows, NEW won, NEW gone, NEW p, NEW n \in Nat, NEW s,
         Chained(rows, won, gone, p, n, s)
  PROVE  s \in HashesOf(rows)
<1>1. PICK flow \in [0..n -> HashesOf(rows)] : flow[n] = s
  BY DEF Chained
<1> QED BY <1>1

LEMMA ChainExtends ==
  ASSUME NEW rows, NEW won, NEW gone, NEW p, NEW n \in Nat, NEW s,
         Chained(rows, won, gone, p, n, s),
         NEW t \in HashesOf(rows), Linked(rows, won, gone, p, Plan[n + 1], s, t)
  PROVE  Chained(rows, won, gone, p, n + 1, t)
<1>1. PICK flow \in [0..n -> HashesOf(rows)] :
        /\ flow[0] = Zero /\ flow[n] = s
        /\ \A i \in 1..n : Linked(rows, won, gone, p, Plan[i], flow[i - 1], flow[i])
  BY DEF Chained
<1> DEFINE longer == [i \in 0..(n + 1) |-> IF i = n + 1 THEN t ELSE flow[i]]
<1>2. longer \in [0..(n + 1) -> HashesOf(rows)]
  BY <1>1
<1>3. longer[n + 1] = t /\ \A i \in 0..n : longer[i] = flow[i]
  OBVIOUS
<1> HIDE DEF longer
<1>4. ASSUME NEW i \in 1..(n + 1)
      PROVE  Linked(rows, won, gone, p, Plan[i], longer[i - 1], longer[i])
  <2>1. CASE i = n + 1
    <3>1. i - 1 = n /\ longer[i - 1] = s /\ longer[i] = t
      BY <1>1, <1>3, <2>1
    <3> QED BY <2>1, <3>1
  <2>2. CASE i # n + 1
    <3>1. i \in 1..n /\ i \in 0..n /\ i - 1 \in 0..n
      BY <2>2
    <3>2. longer[i] = flow[i] /\ longer[i - 1] = flow[i - 1]
      BY <1>3, <3>1
    <3> QED BY <1>1, <3>1, <3>2
  <2> QED BY <2>1, <2>2
<1>5. longer[0] = Zero
  BY <1>1, <1>3
<1> QED BY <1>2, <1>3, <1>4, <1>5 DEF Chained

-----------------------------------------------------------------------------
(* What is kept *)

LEMMA InitIInv == Init => IInv
<1> SUFFICES ASSUME Init PROVE IInv
  OBVIOUS
<1>1. DOMAIN artifacts = {} /\ DOMAIN files = {} /\ DOMAIN escalations = {}
  BY DEF Init
<1>2. ExecTyped /\ CallsSound
  BY DEF Init, ExecTyped, CallsSound, Active
<1>3. StoreSound
  BY <1>1 DEF Init, StoreSound
<1>4. ReceiptsSound
  BY <1>1 DEF ReceiptsSound
<1>5. \A p \in Parents : runs[p] = None
  BY DEF Init
<1>6. None \notin {"COMPLETED", "AWAITING_APPROVAL"}
  BY RouteAssumption
<1>7. RunsSound
  BY <1>5, <1>6 DEF RunsSound, AwaitingIsEscalated
<1> QED BY <1>2, <1>3, <1>4, <1>7 DEF IInv

LEMMA EarnedKept ==
  ASSUME receipts \subseteq receipts', NEW p, NEW d, Committed(p, d) PROVE Committed(p, d)'
BY DEF Committed

LEMMA RunsKept ==
  ASSUME IInv, Grows, UNCHANGED runs PROVE RunsSound'
<1>1. ASSUME NEW p \in Parents, runs'[p] = "COMPLETED"
      PROVE  \E s : Chained(artifacts', receipts', lost', p, Len(Plan), s)
  <2>1. PICK s : Chained(artifacts, receipts, lost, p, Len(Plan), s)
    BY <1>1 DEF IInv, RunsSound
  <2>2. Chained(artifacts', receipts', lost', p, Len(Plan), s)
    BY <2>1, ChainGrows, PlanFacts DEF Grows
  <2> QED BY <2>2
<1>2. ASSUME NEW p \in Parents, runs'[p] = "AWAITING_APPROVAL"
      PROVE  \E id \in DOMAIN escalations' : escalations'[id].parent = p
  BY <1>2 DEF IInv, RunsSound, AwaitingIsEscalated, Grows
<1> QED BY <1>1, <1>2 DEF RunsSound, AwaitingIsEscalated

LEMMA ReceiptsKept ==
  ASSUME IInv, Grows, UNCHANGED artifacts PROVE ReceiptsSound'
BY EarnedKept DEF IInv, ReceiptsSound, Grows

LEMMA StoreKept ==
  ASSUME IInv, UNCHANGED <<artifacts, files, script, dag, lost>>,
         runs' \in [Parents -> {None, "RUNNING", "AWAITING_APPROVAL", "COMPLETED"}]
  PROVE  StoreSound'
BY DEF IInv, StoreSound

LEMMA NothingLost ==
  ASSUME UNCHANGED <<artifacts, files, script, dag, receipts, lost, escalations>> PROVE Grows
BY DEF Grows, RowsGrow

\* What a call of execute_route wrote stays.
LEMMA OthersKept ==
  ASSUME IInv, Grows, NEW e \in Executors, Active(e), exec'[e] = exec[e]
  PROVE  (CallSound(exec[e]) /\ EffectSound(exec[e]))'
<1>1. CallSound(exec[e]) /\ EffectSound(exec[e])
  BY DEF IInv, CallsSound
<1>2. CallSound(exec[e])'
  BY <1>1 DEF CallSound, Domain
<1>3. exec[e] \in Calls
  BY CallFacts DEF IInv
<1>4. exec[e].at - 1 \in Nat
  BY <1>3, PlanFacts DEF Calls
<1>5. Chained(artifacts', receipts', lost', exec[e].parent, exec[e].at - 1, exec[e].source)
  BY <1>1, <1>4, ChainGrows DEF EffectSound, Grows
<1>6. \A k \in DOMAIN artifacts :
        /\ k \in DOMAIN artifacts'
        /\ artifacts[k].state \in UsableStates => artifacts'[k].state \in UsableStates
  BY DEF Grows, RowsGrow
<1>7. EffectSound(exec[e])'
  BY <1>1, <1>5, <1>6 DEF EffectSound, Grows, Domain, KeyOf, ReceiptOf
<1> QED BY <1>2, <1>7

\* A step of one executor: what remains to be shown is its own call.
LEMMA OneMoves ==
  ASSUME IInv, Grows, NEW e \in Executors, exec' = [exec EXCEPT ![e] = exec'[e]],
         exec'[e] \in {Idle} \cup Calls,
         (Active(e) => CallSound(exec[e]) /\ EffectSound(exec[e]))'
  PROVE  ExecTyped' /\ CallsSound'
<1>1. ExecTyped'
  BY DEF IInv, ExecTyped
<1>2. ASSUME NEW f \in Executors, Active(f)'
      PROVE  (CallSound(exec[f]) /\ EffectSound(exec[f]))'
  <2>1. CASE f = e
    BY <1>2, <2>1
  <2>2. CASE f # e
    <3>1. exec'[f] = exec[f]
      BY <2>2 DEF IInv, ExecTyped
    <3>2. Active(f)
      BY <1>2, <3>1 DEF Active
    <3> QED BY <3>1, <3>2, OthersKept
  <2> QED BY <2>1, <2>2
<1>3. CallsSound'
  BY <1>2 DEF CallsSound
<1> QED BY <1>1, <1>3

\* Only one parent run's row changes.
LEMMA OneRun ==
  ASSUME IInv, Grows, NEW p \in Parents,
         \A q \in Parents : q # p => runs'[q] = runs[q],
         runs'[p] = "COMPLETED" =>
           \E s : Chained(artifacts', receipts', lost', p, Len(Plan), s),
         runs'[p] = "AWAITING_APPROVAL" =>
           \E id \in DOMAIN escalations' : escalations'[id].parent = p
  PROVE  RunsSound'
<1>1. ASSUME NEW q \in Parents, q # p, runs'[q] = "COMPLETED"
      PROVE  \E s : Chained(artifacts', receipts', lost', q, Len(Plan), s)
  <2>1. PICK s : Chained(artifacts, receipts, lost, q, Len(Plan), s)
    BY <1>1 DEF IInv, RunsSound
  <2>2. Chained(artifacts', receipts', lost', q, Len(Plan), s)
    BY <2>1, ChainGrows, PlanFacts DEF Grows
  <2> QED BY <2>2
<1>2. ASSUME NEW q \in Parents, q # p, runs'[q] = "AWAITING_APPROVAL"
      PROVE  \E id \in DOMAIN escalations' : escalations'[id].parent = q
  BY <1>2 DEF IInv, RunsSound, AwaitingIsEscalated, Grows
<1> QED BY <1>1, <1>2 DEF RunsSound, AwaitingIsEscalated

\* The one executor that moves is well, and the tables are.
LEMMA Assembled ==
  ASSUME IInv, Grows, NEW e \in Executors, exec' = [exec EXCEPT ![e] = exec'[e]],
         exec'[e] \in {Idle} \cup Calls,
         (Active(e) => CallSound(exec[e]) /\ EffectSound(exec[e]))',
         StoreSound', ReceiptsSound', RunsSound'
  PROVE  IInv'
BY OneMoves DEF IInv

-----------------------------------------------------------------------------
(* The actions *)

LEMMA StartStep ==
  ASSUME IInv, NEW e \in Executors, NEW p \in Parents, NEW resume \in BOOLEAN,
         Start(e, p, resume)
  PROVE  IInv'
<1>1. Grows /\ ReceiptsSound'
  BY NothingLost, ReceiptsKept DEF Start
<1>2. runs' \in [Parents -> {None, "RUNNING", "AWAITING_APPROVAL", "COMPLETED"}]
  BY DEF Start, IInv, StoreSound
<1>3. StoreSound'
  BY <1>2, StoreKept DEF Start
<1>4. RunsSound'
  <2>1. runs'[p] = "RUNNING" /\ \A q \in Parents : q # p => runs'[q] = runs[q]
    BY DEF Start, IInv, StoreSound
  <2> QED BY <1>1, <2>1, OneRun
<1> DEFINE x == [pc |-> "step", parent |-> p, resume |-> resume, at |-> 1,
                 input |-> Objective, source |-> Zero, gov |-> Fresh, candidate |-> None,
                 made |-> None]
<1>5. exec'[e] = x /\ exec' = [exec EXCEPT ![e] = x]
  BY DEF Start, IInv, ExecTyped
<1>6. 1 \in 1..(Len(Plan) + 1) /\ Fresh \in Governors(Generated \cup Contents)
  BY PlanFacts, GovernorAssumption DEF Fresh, Governors
<1>7. x \in Calls
  BY <1>6 DEF Calls, Sources
<1>8. CallSound(exec[e])'
  BY <1>5 DEF CallSound, Committing, Registering, Fresh
<1>9. Chained(artifacts', receipts', lost', p, 1 - 1, Zero)
  BY ChainStarts
<1>10. EffectSound(exec[e])'
  BY <1>5, <1>9 DEF EffectSound, Registering
<1> QED BY <1>1, <1>3, <1>4, <1>5, <1>7, <1>8, <1>10, Assembled

LEMMA DieStep ==
  ASSUME IInv, NEW e \in Executors, Die(e) PROVE IInv'
<1>1. Grows /\ ReceiptsSound'
  BY NothingLost, ReceiptsKept DEF Die
<1>2. StoreSound' /\ RunsSound'
  BY <1>1, StoreKept, RunsKept DEF Die, IInv, StoreSound
<1>3. exec'[e] = Idle /\ exec' = [exec EXCEPT ![e] = exec'[e]]
  BY DEF Die, IInv, ExecTyped
<1>4. ~Active(e)'
  BY <1>3 DEF Active
<1> QED BY <1>1, <1>2, <1>3, <1>4, Assembled

\* The next step of a plan, whatever the last one hands on to it.
LEMMA MoveOn ==
  ASSUME IInv, NEW e \in Executors, Active(e), exec[e].at <= Len(Plan),
         NEW input \in {Objective} \cup Contents, NEW source \in Sources,
         exec[e].at < Len(Plan) =>
           /\ Plan[exec[e].at + 1] = "herald" =>
                input \in {Objective, SourceContent} /\ source \in {Zero, SourceContent}
           /\ Plan[exec[e].at + 1] = "slicer" =>
                input \in {Objective, SourceContent} \cup ValidScripts,
         Chained(artifacts', receipts', lost', exec[e].parent, exec[e].at, source),
         exec' = [exec EXCEPT ![e] = Advanced(exec[e], input, source)]
  PROVE  /\ exec' = [exec EXCEPT ![e] = exec'[e]] /\ exec'[e] \in {Idle} \cup Calls
         /\ (CallSound(exec[e]) /\ EffectSound(exec[e]))'
<1> DEFINE x == exec[e]
           y == Advanced(exec[e], input, source)
<1>1. exec'[e] = y /\ exec' = [exec EXCEPT ![e] = exec'[e]]
  BY DEF IInv, ExecTyped
<1>2. x \in Calls
  BY CallFacts DEF IInv
<1>3. x.at \in Nat \ {0} /\ x.at + 1 \in 1..(Len(Plan) + 1) /\ Len(Plan) \in Nat
  BY <1>2, PlanFacts DEF Calls
<1>4. Fresh \in Governors(Generated \cup Contents)
  BY GovernorAssumption DEF Fresh, Governors
<1>5. /\ y \in Calls
      /\ y.pc = "step" /\ y.at = x.at + 1 /\ y.input = input /\ y.source = source
      /\ y.gov = Fresh /\ y.parent = x.parent
  BY <1>2, <1>3, <1>4 DEF Advanced, Calls
<1>6. CallSound(exec[e])'
  <2>1. Domain(y) = Plan[x.at + 1] /\ (y.at <= Len(Plan) => x.at < Len(Plan))
    BY <1>3, <1>5 DEF Domain
  <2>2. CallSound(y)
    BY <1>5, <2>1 DEF CallSound, Fresh, Committing, Registering
  <2> QED BY <1>1, <2>2 DEF CallSound, Domain
<1>7. EffectSound(exec[e])'
  <2>1. y.at - 1 = x.at
    BY <1>3, <1>5
  <2>2. Chained(artifacts', receipts', lost', y.parent, y.at - 1, y.source)
    BY <1>5, <2>1
  <2> QED BY <1>1, <1>5, <2>2 DEF EffectSound, Registering
<1> QED BY <1>1, <1>5, <1>6, <1>7

\* The next step of a plan, from a usable row of the last.
LEMMA AdvanceStep ==
  ASSUME IInv, NEW e \in Executors, Active(e), exec[e].at <= Len(Plan),
         Grows, NEW input \in Made(Domain(exec[e])), NEW source,
         KeyOf(exec[e]) \in DOMAIN artifacts',
         artifacts'[KeyOf(exec[e])].state \in UsableStates,
         source = artifacts'[KeyOf(exec[e])].content, source \in Made(Domain(exec[e])),
         exec' = [exec EXCEPT ![e] = Advanced(exec[e], input, source)]
  PROVE  /\ exec' = [exec EXCEPT ![e] = exec'[e]] /\ exec'[e] \in {Idle} \cup Calls
         /\ (CallSound(exec[e]) /\ EffectSound(exec[e]))'
<1> DEFINE x == exec[e]
<1>1. /\ x \in Calls /\ Domain(x) \in Domains /\ EffectSound(x)
      /\ KeyOf(x).parent = x.parent /\ KeyOf(x).step = Domain(x) /\ KeyOf(x).source = x.source
  BY CallFacts DEF IInv, CallsSound
<1>2. x.at \in Nat \ {0} /\ Len(Plan) \in Nat
  BY <1>1, PlanFacts DEF Calls
<1>3. input \in Contents /\ source \in Contents
  BY <1>1, MadeFacts
<1>4. ASSUME x.at < Len(Plan)
      PROVE  /\ Plan[x.at + 1] = "herald" => input = SourceContent /\ source = SourceContent
             /\ Plan[x.at + 1] = "slicer" => input \in ValidScripts
  <2>1. x.at + 1 \in 1..Len(Plan) /\ x.at + 1 > 1 /\ (x.at + 1) - 1 = x.at
    BY <1>2, <1>4
  <2>2. /\ Plan[x.at + 1] = "herald" => Domain(x) = "scribe"
        /\ Plan[x.at + 1] = "slicer" => Domain(x) = "herald"
    BY <2>1, PlanFacts DEF Domain
  <2> QED BY <2>2, MadeFacts
<1>5. Chained(artifacts', receipts', lost', x.parent, x.at, source)
  <2>1. Chained(artifacts, receipts, lost, x.parent, x.at - 1, x.source)
    BY <1>1 DEF EffectSound
  <2>2. x.at - 1 \in Nat /\ (x.at - 1) + 1 = x.at
    BY <1>2
  <2>3. Chained(artifacts', receipts', lost', x.parent, x.at - 1, x.source)
    BY <2>1, <2>2, ChainGrows DEF Grows
  <2>4. Linked(artifacts', receipts', lost', x.parent, Plan[(x.at - 1) + 1], x.source, source)
    BY <1>1, <2>2 DEF Linked, Domain
  <2>5. source \in HashesOf(artifacts')
    BY DEF HashesOf
  <2> HIDE DEF x
  <2>6. Chained(artifacts', receipts', lost', x.parent, (x.at - 1) + 1, source)
    BY <2>2, <2>3, <2>4, <2>5, ChainExtends
  <2> QED BY <2>2, <2>6
<1> QED BY <1>3, <1>4, <1>5, MoveOn DEF Sources

LEMMA UseCachedStep ==
  ASSUME IInv, NEW e \in Executors, UseCached(e) PROVE IInv'
<1> DEFINE x == exec[e]
           k == KeyOf(exec[e])
<1>1. /\ x.pc = "step" /\ x.at <= Len(Plan) /\ Cached(x)
      /\ exec' = [exec EXCEPT ![e] = Advanced(x, files[k], artifacts[k].content)]
      /\ UNCHANGED <<runs, artifacts, files, script, dag, receipts, lost, escalations>>
  BY DEF UseCached
<1>2. Active(e)
  BY <1>1, IdleIsIdle
<1>3. Grows /\ ReceiptsSound' /\ StoreSound' /\ RunsSound'
  BY <1>1, NothingLost, ReceiptsKept, StoreKept, RunsKept DEF IInv, StoreSound
<1>4. k \in DOMAIN artifacts' /\ artifacts'[k].state \in UsableStates
  BY <1>1 DEF Cached, FoundVerified, UsableStates
<1>5. k.step = Domain(x)
  BY <1>2, CallFacts DEF IInv
<1>6. files[k] \in Made(Domain(x)) /\ artifacts[k].content \in Made(Domain(x))
  BY <1>1, <1>4, <1>5 DEF IInv, StoreSound
<1>7. artifacts[k].content = artifacts'[k].content
  BY <1>1
<1> HIDE DEF x, k
<1>8. /\ exec' = [exec EXCEPT ![e] = exec'[e]] /\ exec'[e] \in {Idle} \cup Calls
      /\ (CallSound(exec[e]) /\ EffectSound(exec[e]))'
  BY <1>1, <1>2, <1>3, <1>4, <1>6, <1>7, AdvanceStep DEF x, k
<1> QED BY <1>3, <1>8, Assembled

LEMMA EscalateStep ==
  ASSUME IInv, NEW e \in Executors, Escalate(e) PROVE IInv'
<1> DEFINE x == exec[e]
           id == Escalation(exec[e])
<1>1. /\ x.pc = "step" /\ x.at <= Len(Plan)
      /\ UNCHANGED <<runs, artifacts, files, script, dag, receipts, lost>>
  BY DEF Escalate
<1>2. Active(e)
  BY <1>1, IdleIsIdle
<1>3. x \in Calls /\ CallSound(x) /\ EffectSound(x)
  BY <1>2, CallFacts DEF IInv, CallsSound
<1>4. CASE id \in DOMAIN escalations
  <2>1. exec' = [exec EXCEPT ![e] = Idle] /\ UNCHANGED escalations
    BY <1>4 DEF Escalate
  <2>2. Grows /\ ReceiptsSound' /\ StoreSound' /\ RunsSound'
    BY <1>1, <2>1, NothingLost, ReceiptsKept, StoreKept, RunsKept DEF IInv, StoreSound
  <2>3. exec'[e] = Idle /\ exec' = [exec EXCEPT ![e] = exec'[e]]
    BY <2>1 DEF IInv, ExecTyped
  <2>4. ~Active(e)'
    BY <2>3 DEF Active
  <2> QED BY <2>2, <2>3, <2>4, Assembled
<1>5. CASE id \notin DOMAIN escalations
  <2>1. /\ escalations' = Put(escalations, id,
                              [parent |-> x.parent, status |-> "AWAITING_APPROVAL"])
        /\ exec' = [exec EXCEPT ![e].pc = "park"]
    BY <1>5 DEF Escalate
  <2>2. /\ id \in DOMAIN escalations' /\ escalations'[id].parent = x.parent
        /\ \A i \in DOMAIN escalations :
             i \in DOMAIN escalations' /\ escalations'[i] = escalations[i]
    BY <1>5, <2>1 DEF Put
  <2>3. Grows
    BY <1>1, <2>2 DEF Grows, RowsGrow
  <2>4. ReceiptsSound' /\ StoreSound' /\ RunsSound'
    BY <1>1, <2>3, ReceiptsKept, StoreKept, RunsKept DEF IInv, StoreSound
  <2> DEFINE y == [exec[e] EXCEPT !.pc = "park"]
  <2>5. exec'[e] = y /\ exec' = [exec EXCEPT ![e] = exec'[e]]
    BY <2>1 DEF IInv, ExecTyped
  <2>6. /\ y \in Calls /\ y.pc = "park" /\ y.at = x.at /\ y.parent = x.parent
        /\ y.input = x.input /\ y.source = x.source /\ y.gov = x.gov
    BY <1>3 DEF Calls
  <2>7. CallSound(y)
    BY <1>1, <1>3, <2>6 DEF CallSound, Committing, Registering, Domain
  <2>8. CallSound(exec[e])'
    BY <2>5, <2>7 DEF CallSound, Domain
  <2>9. Chained(artifacts', receipts', lost', x.parent, x.at - 1, x.source)
    BY <1>1, <1>3 DEF EffectSound
  <2>10. EffectSound(exec[e])'
    BY <2>2, <2>5, <2>6, <2>9 DEF EffectSound, Registering
  <2> QED BY <2>3, <2>4, <2>5, <2>6, <2>8, <2>10, Assembled
<1> QED BY <1>4, <1>5

LEMMA ParkStep ==
  ASSUME IInv, NEW e \in Executors, Park(e) PROVE IInv'
<1> DEFINE x == exec[e]
<1>1. /\ x.pc = "park" /\ exec' = [exec EXCEPT ![e] = Idle]
      /\ runs' = [runs EXCEPT ![x.parent] = "AWAITING_APPROVAL"]
      /\ UNCHANGED <<artifacts, files, script, dag, receipts, lost, escalations>>
  BY DEF Park
<1>2. Active(e)
  BY <1>1, IdleIsIdle
<1>3. x \in Calls /\ EffectSound(x)
  BY <1>2, CallFacts DEF IInv, CallsSound
<1>4. x.parent \in Parents
  BY <1>3 DEF Calls
<1>5. Grows /\ ReceiptsSound'
  BY <1>1, NothingLost, ReceiptsKept
<1>6. runs' \in [Parents -> {None, "RUNNING", "AWAITING_APPROVAL", "COMPLETED"}]
  BY <1>1 DEF IInv, StoreSound
<1>7. StoreSound'
  BY <1>1, <1>6, StoreKept
<1>8. RunsSound'
  <2>1. runs'[x.parent] = "AWAITING_APPROVAL"
        /\ \A q \in Parents : q # x.parent => runs'[q] = runs[q]
    BY <1>1, <1>4 DEF IInv, StoreSound
  <2>2. \E id \in DOMAIN escalations' : escalations'[id].parent = x.parent
    BY <1>1, <1>3 DEF EffectSound
  <2> HIDE DEF x
  <2> QED BY <1>4, <1>5, <2>1, <2>2, OneRun
<1>9. exec'[e] = Idle /\ exec' = [exec EXCEPT ![e] = exec'[e]]
  BY <1>1 DEF IInv, ExecTyped
<1>10. ~Active(e)'
  BY <1>9 DEF Active
<1> QED BY <1>5, <1>7, <1>8, <1>9, <1>10, Assembled

LEMMA CompleteStep ==
  ASSUME IInv, NEW e \in Executors, Complete(e) PROVE IInv'
<1> DEFINE x == exec[e]
<1>1. /\ x.pc = "step" /\ x.at > Len(Plan) /\ exec' = [exec EXCEPT ![e] = Idle]
      /\ runs' = [runs EXCEPT ![x.parent] = "COMPLETED"]
      /\ UNCHANGED <<artifacts, files, script, dag, receipts, lost, escalations>>
  BY DEF Complete
<1>2. Active(e)
  BY <1>1, IdleIsIdle
<1>3. x \in Calls /\ EffectSound(x)
  BY <1>2, CallFacts DEF IInv, CallsSound
<1>4. x.parent \in Parents /\ x.at - 1 = Len(Plan)
  BY <1>1, <1>3, PlanFacts DEF Calls
<1>5. Grows /\ ReceiptsSound'
  BY <1>1, NothingLost, ReceiptsKept
<1>6. runs' \in [Parents -> {None, "RUNNING", "AWAITING_APPROVAL", "COMPLETED"}]
  BY <1>1 DEF IInv, StoreSound
<1>7. StoreSound'
  BY <1>1, <1>6, StoreKept
<1>8. RunsSound'
  <2>1. runs'[x.parent] = "COMPLETED"
        /\ \A q \in Parents : q # x.parent => runs'[q] = runs[q]
    BY <1>1, <1>4 DEF IInv, StoreSound
  <2>2. Chained(artifacts', receipts', lost', x.parent, Len(Plan), x.source)
    BY <1>1, <1>3, <1>4 DEF EffectSound
  <2> HIDE DEF x
  <2> QED BY <1>4, <1>5, <2>1, <2>2, OneRun
<1>9. exec'[e] = Idle /\ exec' = [exec EXCEPT ![e] = exec'[e]]
  BY <1>1 DEF IInv, ExecTyped
<1>10. ~Active(e)'
  BY <1>9 DEF Active
<1> QED BY <1>5, <1>7, <1>8, <1>9, <1>10, Assembled

\* What a runner generates for a step of a call.
LEMMA CandidateFacts ==
  ASSUME IInv, NEW e \in Executors, Active(e), exec[e].at <= Len(Plan),
         NEW c \in CandidatesFor(Domain(exec[e]), TaskSource(Domain(exec[e]), exec[e].input))
  PROVE  /\ c \in Generated \cup Contents
         /\ Domain(exec[e]) = "herald" /\ Audits("herald", c) => c \in Valid
         /\ Domain(exec[e]) = "slicer" => c \in Made("slicer")
<1> DEFINE x == exec[e]
<1>1. x \in Calls /\ Domain(x) \in Domains /\ CallSound(x)
  BY CallFacts DEF IInv, CallsSound
<1>2. x.at \in 1..Len(Plan)
  BY <1>1, PlanFacts DEF Calls
<1>3. CASE Domain(x) = "scribe"
  BY <1>3 DEF CandidatesFor, ScribeCandidates
<1>4. CASE Domain(x) = "herald"
  BY <1>4 DEF CandidatesFor, HeraldCandidates, Audits, HeraldAudit
<1>5. CASE Domain(x) = "slicer"
  <2>1. x.input \in {Objective, SourceContent} \cup ValidScripts
    BY <1>1, <1>5 DEF CallSound
  <2>2. TaskSource("slicer", x.input) \in {Zero} \cup ValidScripts
    BY <2>1, MadeFacts DEF TaskSource, SlicerSpec, Objective, SourceContent, Scripts
  <2>3. c = PlanOf(TaskSource("slicer", x.input))
    BY <1>5 DEF CandidatesFor, SlicerCandidates
  <2>4. c \in Made("slicer")
    BY <2>2, <2>3, MadeFacts
  <2>5. Made("slicer") \subseteq Contents
    BY MadeFacts DEF Domains
  <2> QED BY <1>5, <2>4, <2>5
<1> QED BY <1>1, <1>3, <1>4, <1>5 DEF Domains

\* The governor stays within its ceiling.
LEMMA GovernorFacts ==
  ASSUME NEW g \in Governors(Generated \cup Contents), g.attempt = g.strike, CanAttempt(g),
         NEW c, c \in Generated \cup Contents
  PROVE  /\ Raised(g) \in Governors(Generated \cup Contents)
         /\ Raised(g).attempt = Raised(g).strike
         /\ Rejected(g, c) \in Governors(Generated \cup Contents)
         /\ Rejected(g, c).attempt = Rejected(g, c).strike
         /\ Seen(g, c) \in Governors(Generated \cup Contents)
         /\ Seen(g, c).strike < MaxStrikes /\ Seen(g, c).attempt = Seen(g, c).strike + 1
<1> DEFINE C == Generated \cup Contents
<1>1. /\ g \in [attempt : 0..MaxStrikes, strike : 0..MaxStrikes, last : C \cup {None}]
      /\ g.strike < MaxStrikes /\ MaxStrikes \in Nat /\ c \in C
  BY GovernorAssumption DEF Governors, CanAttempt
<1> HIDE DEF C
<1>2. g.attempt + 1 \in 0..MaxStrikes /\ g.strike + 1 \in 0..MaxStrikes
  BY <1>1
<1>3. Raised(g) \in [attempt : 0..MaxStrikes, strike : 0..MaxStrikes, last : C \cup {None}]
      /\ Raised(g).attempt = Raised(g).strike
  BY <1>1, <1>2 DEF Raised
<1>4. /\ Seen(g, c) \in [attempt : 0..MaxStrikes, strike : 0..MaxStrikes, last : C \cup {None}]
      /\ Seen(g, c).strike = g.strike /\ Seen(g, c).attempt = g.attempt + 1
  BY <1>1, <1>2 DEF Seen
<1>5. /\ Rejected(g, c) \in
           [attempt : 0..MaxStrikes, strike : 0..MaxStrikes, last : C \cup {None}]
      /\ Rejected(g, c).strike = g.strike + 1 /\ Rejected(g, c).attempt = g.attempt + 1
  BY <1>2, <1>4 DEF Rejected
<1> QED BY <1>1, <1>3, <1>4, <1>5 DEF Governors, C

LEMMA AttemptStep ==
  ASSUME IInv, NEW e \in Executors, Attempt(e) PROVE IInv'
<1> DEFINE x == exec[e]
           C == Generated \cup Contents
           Candidates == CandidatesFor(Domain(exec[e]),
                                       TaskSource(Domain(exec[e]), exec[e].input))
<1>1. /\ x.pc = "step" /\ x.at <= Len(Plan) /\ CanAttempt(x.gov)
      /\ UNCHANGED <<runs, artifacts, files, script, dag, receipts, lost, escalations>>
  BY DEF Attempt
<1>2. Active(e)
  BY <1>1, IdleIsIdle
<1>3. x \in Calls /\ CallSound(x) /\ EffectSound(x)
  BY <1>2, CallFacts DEF IInv, CallsSound
<1>4. Grows /\ ReceiptsSound' /\ StoreSound' /\ RunsSound'
  BY <1>1, NothingLost, ReceiptsKept, StoreKept, RunsKept DEF IInv, StoreSound
<1>5. x.gov \in Governors(C) /\ x.gov.attempt = x.gov.strike
  BY <1>1, <1>3 DEF Calls, CallSound
<1>6. Chained(artifacts', receipts', lost', x.parent, x.at - 1, x.source)
  BY <1>1, <1>3 DEF EffectSound
<1>7. ASSUME NEW g \in Governors(C), g.attempt = g.strike,
             exec' = [exec EXCEPT ![e].gov = g]
      PROVE  IInv'
  <2> DEFINE y == [exec[e] EXCEPT !.gov = g]
  <2>1. exec'[e] = y /\ exec' = [exec EXCEPT ![e] = exec'[e]]
    BY <1>7 DEF IInv, ExecTyped
  <2>2. /\ y \in Calls /\ y.pc = "step" /\ y.at = x.at /\ y.parent = x.parent
        /\ y.input = x.input /\ y.source = x.source /\ y.gov = g
    BY <1>1, <1>3 DEF Calls
  <2>3. CallSound(y)
    BY <1>1, <1>3, <1>7, <2>2 DEF CallSound, Committing, Registering, Domain
  <2>4. CallSound(exec[e])'
    BY <2>1, <2>3 DEF CallSound, Domain
  <2>5. EffectSound(exec[e])'
    BY <1>6, <2>1, <2>2 DEF EffectSound, Registering
  <2> QED BY <1>4, <2>1, <2>2, <2>4, <2>5, Assembled
<1>8. ASSUME NEW c \in Candidates, Audits(Domain(x), c),
             exec' = [exec EXCEPT ![e].pc = "commit", ![e].candidate = c,
                                  ![e].gov = Seen(@, c)]
      PROVE  IInv'
  <2> DEFINE y == [exec[e] EXCEPT !.pc = "commit", !.candidate = c, !.gov = Seen(@, c)]
  <2>1. exec'[e] = y /\ exec' = [exec EXCEPT ![e] = exec'[e]]
    BY <1>8 DEF IInv, ExecTyped
  <2>2. c \in C /\ (Domain(x) = "herald" => c \in Valid)
        /\ (Domain(x) = "slicer" => c \in Made("slicer"))
    BY <1>1, <1>2, <1>8, CandidateFacts
  <2>3. /\ Seen(x.gov, c) \in Governors(C) /\ Seen(x.gov, c).strike < MaxStrikes
        /\ Seen(x.gov, c).attempt = Seen(x.gov, c).strike + 1
    BY <1>1, <1>5, <2>2, GovernorFacts DEF C
  <2>4. /\ y \in Calls /\ y.pc = "commit" /\ y.at = x.at /\ y.parent = x.parent
        /\ y.input = x.input /\ y.source = x.source /\ y.gov = Seen(x.gov, c)
        /\ y.candidate = c
    BY <1>3, <2>2, <2>3 DEF Calls, Committing
  <2>5. CallSound(y)
    BY <1>1, <1>3, <2>2, <2>3, <2>4 DEF CallSound, Committing, Registering, Domain
  <2>6. CallSound(exec[e])'
    BY <2>1, <2>5 DEF CallSound, Domain
  <2>7. EffectSound(exec[e])'
    BY <1>6, <2>1, <2>4 DEF EffectSound, Registering
  <2> QED BY <1>4, <2>1, <2>4, <2>6, <2>7, Assembled
<1>9. \/ exec' = [exec EXCEPT ![e].gov = Raised(x.gov)]
      \/ \E c \in Candidates : exec' = [exec EXCEPT ![e].gov = Rejected(x.gov, c)]
      \/ \E c \in Candidates : /\ Audits(Domain(x), c)
                               /\ exec' = [exec EXCEPT ![e].pc = "commit", ![e].candidate = c,
                                                       ![e].gov = Seen(@, c)]
  BY DEF Attempt
<1>10. CASE exec' = [exec EXCEPT ![e].gov = Raised(x.gov)]
  <2>1. SourceContent \in C
    BY DEF Contents
  <2>2. Raised(x.gov) \in Governors(C) /\ Raised(x.gov).attempt = Raised(x.gov).strike
    BY <1>1, <1>5, <2>1, GovernorFacts
  <2> QED BY <1>7, <1>10, <2>2
<1>11. ASSUME NEW c \in Candidates, exec' = [exec EXCEPT ![e].gov = Rejected(x.gov, c)]
       PROVE  IInv'
  <2>1. c \in C
    BY <1>1, <1>2, <1>11, CandidateFacts
  <2>2. Rejected(x.gov, c) \in Governors(C)
        /\ Rejected(x.gov, c).attempt = Rejected(x.gov, c).strike
    BY <1>1, <1>5, <2>1, GovernorFacts
  <2> QED BY <1>7, <1>11, <2>2
<1> QED BY <1>8, <1>9, <1>10, <1>11

\* A step of a call that moves its program counter alone.
LEMMA CounterMoves ==
  ASSUME IInv, NEW e \in Executors, Active(e), NEW pc \in Committing \cup Registering,
         exec[e].pc \in Committing \cup Registering,
         Domain(exec[e]) # "scribe" \/ pc # "receipt",
         Domain(exec[e]) = "herald" \/ pc # "markdown",
         Grows, exec' = [exec EXCEPT ![e].pc = pc],
         pc \in Registering \ {"register"} \/ exec[e].pc \in Committing
  PROVE  /\ exec' = [exec EXCEPT ![e] = exec'[e]] /\ exec'[e] \in {Idle} \cup Calls
         /\ exec'[e] = [exec[e] EXCEPT !.pc = pc]
         /\ exec'[e].pc = pc /\ exec'[e].parent = exec[e].parent /\ exec'[e].at = exec[e].at
         /\ exec'[e].source = exec[e].source /\ exec'[e].made = exec[e].made
         /\ exec'[e].candidate = exec[e].candidate /\ exec'[e].gov = exec[e].gov
         /\ CallSound(exec[e])'
         /\ Chained(artifacts', receipts', lost', exec[e].parent, exec[e].at - 1, exec[e].source)
         /\ KeyOf(exec'[e]) = KeyOf(exec[e]) /\ Domain(exec'[e]) = Domain(exec[e])
         /\ ReceiptOf(exec'[e]) = ReceiptOf(exec[e])
<1> DEFINE x == exec[e]
           y == [exec[e] EXCEPT !.pc = pc]
<1>1. exec'[e] = y /\ exec' = [exec EXCEPT ![e] = exec'[e]]
  BY DEF IInv, ExecTyped
<1>2. x \in Calls /\ CallSound(x) /\ EffectSound(x)
  BY CallFacts DEF IInv, CallsSound
<1>3. /\ y \in Calls /\ y.pc = pc /\ y.at = x.at /\ y.parent = x.parent
      /\ y.input = x.input /\ y.source = x.source /\ y.gov = x.gov /\ y.made = x.made
      /\ y.candidate = x.candidate
  BY <1>2 DEF Calls
<1>4. /\ KeyOf(y) = KeyOf(x) /\ Domain(y) = Domain(x) /\ ReceiptOf(y) = ReceiptOf(x)
  BY <1>3 DEF KeyOf, Domain, ReceiptOf
<1>5. CallSound(y)
  BY <1>2, <1>3, <1>4 DEF CallSound, Committing, Registering
<1>6. CallSound(exec[e])'
  BY <1>1, <1>5 DEF CallSound, Domain
<1>7. x.at - 1 \in Nat
  BY <1>2, PlanFacts DEF Calls
<1>8. Chained(artifacts', receipts', lost', x.parent, x.at - 1, x.source)
  BY <1>2, <1>7, ChainGrows DEF EffectSound, Grows
<1> QED BY <1>1, <1>3, <1>4, <1>6, <1>8

LEMMA CommitSourceStep ==
  ASSUME IInv, NEW e \in Executors, CommitSource(e) PROVE IInv'
<1>1. /\ exec[e].pc = "commit" /\ Domain(exec[e]) = "scribe"
      /\ receipts' = receipts \cup {ReceiptOf(exec[e])}
      /\ exec' = [exec EXCEPT ![e].pc = "register"]
      /\ UNCHANGED <<runs, artifacts, files, script, dag, lost, escalations>>
  BY DEF CommitSource
<1>2. Active(e)
  BY <1>1, IdleIsIdle
<1>3. Grows
  BY <1>1 DEF Grows, RowsGrow
<1>4. StoreSound' /\ RunsSound' /\ ReceiptsSound'
  BY <1>1, <1>3, StoreKept, RunsKept, ReceiptsKept DEF IInv, StoreSound
<1>5. "register" \in Committing \cup Registering /\ exec[e].pc \in Committing \cup Registering
      /\ exec[e].pc \in Committing /\ "register" # "receipt" /\ "register" # "markdown"
  BY <1>1 DEF Committing, Registering
<1>6. /\ exec' = [exec EXCEPT ![e] = exec'[e]] /\ exec'[e] \in {Idle} \cup Calls
      /\ exec'[e].pc = "register" /\ CallSound(exec[e])'
      /\ Chained(artifacts', receipts', lost', exec[e].parent, exec[e].at - 1, exec[e].source)
      /\ exec'[e].parent = exec[e].parent /\ exec'[e].at = exec[e].at
      /\ exec'[e].source = exec[e].source
      /\ Domain(exec'[e]) = Domain(exec[e]) /\ ReceiptOf(exec'[e]) = ReceiptOf(exec[e])
  BY <1>1, <1>2, <1>3, <1>5, CounterMoves
<1>7. ReceiptOf(exec'[e]) \in receipts' /\ Domain(exec'[e]) = "scribe"
  BY <1>1, <1>6
<1>8. EffectSound(exec[e])'
  BY <1>6, <1>7 DEF EffectSound, Domain, ReceiptOf, KeyOf
<1> QED BY <1>3, <1>4, <1>6, <1>8, Assembled

LEMMA CommitBlueprintStep ==
  ASSUME IInv, NEW e \in Executors, CommitBlueprint(e) PROVE IInv'
<1>1. /\ exec[e].pc = "commit" /\ Domain(exec[e]) = "herald"
      /\ script' = IF OwnFile(exec[e]) THEN script
                   ELSE [script EXCEPT !.blueprint = exec[e].candidate]
      /\ exec' = [exec EXCEPT ![e].pc = "markdown"]
      /\ UNCHANGED <<runs, artifacts, files, dag, receipts, lost, escalations>>
  BY DEF CommitBlueprint
<1>2. Active(e)
  BY <1>1, IdleIsIdle
<1>3. exec[e].candidate \in Valid
  BY <1>1, <1>2 DEF IInv, CallsSound, CallSound, Committing
<1>4. script' \in [blueprint : Valid \cup {None}, markdown : Valid \cup {None}]
  BY <1>1, <1>3 DEF IInv, StoreSound
<1>5. Grows
  BY <1>1, <1>4 DEF Grows, RowsGrow
<1>6. StoreSound'
  BY <1>1, <1>4 DEF IInv, StoreSound
<1>7. RunsSound' /\ ReceiptsSound'
  BY <1>1, <1>5, RunsKept, ReceiptsKept
<1>8. "markdown" \in Committing \cup Registering /\ exec[e].pc \in Committing \cup Registering
      /\ exec[e].pc \in Committing /\ "markdown" # "receipt"
  BY <1>1 DEF Committing, Registering
<1>9. /\ exec' = [exec EXCEPT ![e] = exec'[e]] /\ exec'[e] \in {Idle} \cup Calls
      /\ exec'[e].pc = "markdown" /\ CallSound(exec[e])'
      /\ Chained(artifacts', receipts', lost', exec[e].parent, exec[e].at - 1, exec[e].source)
      /\ exec'[e].parent = exec[e].parent /\ exec'[e].at = exec[e].at
      /\ exec'[e].source = exec[e].source
  BY <1>1, <1>2, <1>5, <1>8, CounterMoves
<1>10. EffectSound(exec[e])'
  BY <1>4, <1>9 DEF EffectSound, Registering
<1> QED BY <1>5, <1>6, <1>7, <1>9, <1>10, Assembled

LEMMA CommitMarkdownStep ==
  ASSUME IInv, NEW e \in Executors, CommitMarkdown(e) PROVE IInv'
<1>1. /\ exec[e].pc = "markdown"
      /\ script' = IF OwnFile(exec[e]) THEN script
                   ELSE [script EXCEPT !.markdown = exec[e].candidate]
      /\ exec' = [exec EXCEPT ![e].pc = "receipt"]
      /\ UNCHANGED <<runs, artifacts, files, dag, receipts, lost, escalations>>
  BY DEF CommitMarkdown
<1>2. Active(e)
  BY <1>1, IdleIsIdle
<1>3. Domain(exec[e]) = "herald" /\ exec[e].candidate \in Valid
  BY <1>1, <1>2 DEF IInv, CallsSound, CallSound, Committing
<1>4. script' \in [blueprint : Valid \cup {None}, markdown : Valid \cup {None}]
  BY <1>1, <1>3 DEF IInv, StoreSound
<1>5. Grows
  BY <1>1, <1>4 DEF Grows, RowsGrow
<1>6. StoreSound'
  BY <1>1, <1>4 DEF IInv, StoreSound
<1>7. RunsSound' /\ ReceiptsSound'
  BY <1>1, <1>5, RunsKept, ReceiptsKept
<1>8. "receipt" \in Committing \cup Registering /\ exec[e].pc \in Committing \cup Registering
      /\ exec[e].pc \in Committing /\ Domain(exec[e]) # "scribe"
  BY <1>1, <1>3 DEF Committing, Registering
<1>9. /\ exec' = [exec EXCEPT ![e] = exec'[e]] /\ exec'[e] \in {Idle} \cup Calls
      /\ exec'[e].pc = "receipt" /\ CallSound(exec[e])'
      /\ Chained(artifacts', receipts', lost', exec[e].parent, exec[e].at - 1, exec[e].source)
      /\ exec'[e].parent = exec[e].parent /\ exec'[e].at = exec[e].at
      /\ exec'[e].source = exec[e].source
      /\ Domain(exec'[e]) = "herald"
  BY <1>1, <1>2, <1>3, <1>5, <1>8, CounterMoves
<1>10. EffectSound(exec[e])'
  BY <1>3, <1>4, <1>9 DEF EffectSound, Registering, Domain
<1> QED BY <1>5, <1>6, <1>7, <1>9, <1>10, Assembled

LEMMA CommitPlanStep ==
  ASSUME IInv, NEW e \in Executors, CommitPlan(e) PROVE IInv'
<1>1. /\ exec[e].pc = "commit" /\ Domain(exec[e]) = "slicer"
      /\ dag' = IF OwnFile(exec[e]) THEN dag ELSE exec[e].candidate
      /\ exec' = [exec EXCEPT ![e].pc = "receipt"]
      /\ UNCHANGED <<runs, artifacts, files, script, receipts, lost, escalations>>
  BY DEF CommitPlan
<1>2. Active(e)
  BY <1>1, IdleIsIdle
<1>3. dag' \in {None} \cup Made("slicer")
  BY <1>1, <1>2 DEF IInv, CallsSound, CallSound, Committing, StoreSound
<1>4. Grows
  BY <1>1, <1>3 DEF Grows, RowsGrow
<1>5. StoreSound'
  BY <1>1, <1>3, MadeFacts DEF IInv, StoreSound
<1>6. RunsSound' /\ ReceiptsSound'
  BY <1>1, <1>4, RunsKept, ReceiptsKept
<1>7. "receipt" \in Committing \cup Registering /\ exec[e].pc \in Committing \cup Registering
      /\ exec[e].pc \in Committing /\ "receipt" # "markdown" /\ Domain(exec[e]) # "scribe"
  BY <1>1 DEF Committing, Registering
<1>8. /\ exec' = [exec EXCEPT ![e] = exec'[e]] /\ exec'[e] \in {Idle} \cup Calls
      /\ exec'[e].pc = "receipt" /\ CallSound(exec[e])'
      /\ Chained(artifacts', receipts', lost', exec[e].parent, exec[e].at - 1, exec[e].source)
      /\ exec'[e].parent = exec[e].parent /\ exec'[e].at = exec[e].at
      /\ exec'[e].source = exec[e].source
      /\ Domain(exec'[e]) = "slicer"
  BY <1>1, <1>2, <1>4, <1>7, CounterMoves
<1>9. EffectSound(exec[e])'
  BY <1>8 DEF EffectSound, Registering, Domain
<1> QED BY <1>4, <1>5, <1>6, <1>8, <1>9, Assembled

LEMMA RecordReceiptStep ==
  ASSUME IInv, NEW e \in Executors, RecordReceipt(e) PROVE IInv'
<1>1. /\ exec[e].pc = "receipt"
      /\ receipts' = receipts \cup {ReceiptOf(exec[e])}
      /\ exec' = [exec EXCEPT ![e].pc = "register"]
      /\ UNCHANGED <<runs, artifacts, files, script, dag, lost, escalations>>
  BY DEF RecordReceipt
<1>2. Active(e)
  BY <1>1, IdleIsIdle
<1>3. Grows
  BY <1>1 DEF Grows, RowsGrow
<1>4. StoreSound' /\ RunsSound' /\ ReceiptsSound'
  BY <1>1, <1>3, StoreKept, RunsKept, ReceiptsKept DEF IInv, StoreSound
<1>5. "register" \in Committing \cup Registering /\ exec[e].pc \in Committing \cup Registering
      /\ exec[e].pc \in Committing /\ "register" # "receipt" /\ "register" # "markdown"
  BY <1>1 DEF Committing, Registering
<1>6. /\ exec' = [exec EXCEPT ![e] = exec'[e]] /\ exec'[e] \in {Idle} \cup Calls
      /\ exec'[e].pc = "register" /\ CallSound(exec[e])'
      /\ Chained(artifacts', receipts', lost', exec[e].parent, exec[e].at - 1, exec[e].source)
      /\ exec'[e].parent = exec[e].parent /\ exec'[e].at = exec[e].at
      /\ exec'[e].source = exec[e].source
      /\ Domain(exec'[e]) = Domain(exec[e]) /\ ReceiptOf(exec'[e]) = ReceiptOf(exec[e])
  BY <1>1, <1>2, <1>3, <1>5, CounterMoves
<1>7. ReceiptOf(exec'[e]) \in receipts'
  BY <1>1, <1>6
<1>8. EffectSound(exec[e])'
  BY <1>1, <1>6, <1>7 DEF EffectSound, Domain, ReceiptOf, KeyOf
<1> QED BY <1>3, <1>4, <1>6, <1>8, Assembled

\* What the router takes for a step's output passed that step's audit.
LEMMA OutputFacts ==
  ASSUME IInv, NEW e \in Executors, exec[e].pc = "register",
         OwnFile(exec[e]) \/ SharedFiles(exec[e])
  PROVE  OutputOf(exec[e]) \in Made(Domain(exec[e]))
<1> DEFINE x == exec[e]
<1>1. Active(e)
  BY IdleIsIdle
<1>2. x \in Calls /\ CallSound(x) /\ EffectSound(x)
  BY <1>1, CallFacts DEF IInv, CallsSound
<1>3. x.at \in 1..Len(Plan) /\ Domain(x) \in Domains
  BY <1>1, <1>2, PlanFacts, CallFacts DEF Calls, CallSound, IInv
<1>4. CASE Domain(x) = "scribe"
  BY <1>4, MadeFacts DEF OutputOf, ScribeOutput
<1>5. CASE Domain(x) = "herald"
  <2>1. x.source \in {SourceContent, Zero} /\ x.candidate \in Valid
    BY <1>2, <1>3, <1>5 DEF CallSound
  <2>2. CASE OwnFile(x)
    BY <1>5, <2>1, <2>2, MadeFacts DEF OutputOf, HeraldOutput, ScriptOf, ValidScripts
  <2>3. CASE ~OwnFile(x)
    <3>1. script.blueprint \in Valid /\ script.markdown \in Valid
      BY <1>5, <2>3 DEF SharedFiles, IInv, StoreSound
    <3> QED BY <1>5, <2>1, <2>3, <3>1, MadeFacts
            DEF OutputOf, HeraldOutput, ScriptOf, ValidScripts
  <2> QED BY <2>2, <2>3
<1>6. CASE Domain(x) = "slicer"
  <2>1. CASE OwnFile(x)
    BY <1>2, <1>6, <2>1 DEF CallSound, OutputOf, SlicerOutput
  <2>2. CASE ~OwnFile(x)
    BY <1>6, <2>2 DEF SharedFiles, IInv, StoreSound, OutputOf, SlicerOutput
  <2> QED BY <2>1, <2>2
<1> QED BY <1>3, <1>4, <1>5, <1>6 DEF Domains

LEMMA WriteArtifactStep ==
  ASSUME IInv, NEW e \in Executors, WriteArtifact(e) PROVE IInv'
<1> DEFINE x == exec[e]
           k == KeyOf(exec[e])
           made == OutputOf(exec[e])
           y == [exec[e] EXCEPT !.pc = "stage", !.made = made]
<1>1. /\ x.pc = "register" /\ (OwnFile(x) \/ SharedFiles(x))
      /\ files' = Put(files, k, made)
      /\ exec' = [exec EXCEPT ![e].pc = "stage", ![e].made = made]
      /\ UNCHANGED <<runs, artifacts, script, dag, receipts, lost, escalations>>
  BY DEF WriteArtifact
<1>2. Active(e)
  BY <1>1, IdleIsIdle
<1>3. x \in Calls /\ CallSound(x) /\ EffectSound(x)
  BY <1>2, CallFacts DEF IInv, CallsSound
<1>4. Domain(x) \in Domains /\ k \in Keys /\ k.step = Domain(x)
  BY <1>1, <1>2, <1>3, CallFacts DEF IInv, CallSound
<1>5. made \in Made(Domain(x)) /\ made \in Contents
  BY <1>1, <1>4, OutputFacts, MadeFacts
<1> HIDE DEF made
<1>6. /\ DOMAIN files' = DOMAIN files \cup {k} /\ files'[k] = made
      /\ \A j \in DOMAIN files : j # k => files'[j] = files[j]
  BY <1>1 DEF Put
<1>7. Grows
  BY <1>1, <1>6 DEF Grows, RowsGrow
<1>8. StoreSound'
  <2>1. \A j \in DOMAIN files' : j \in Keys /\ files'[j] \in Made(j.step)
    BY <1>4, <1>5, <1>6 DEF IInv, StoreSound
  <2> QED BY <1>1, <1>6, <2>1 DEF IInv, StoreSound
<1>9. RunsSound' /\ ReceiptsSound'
  BY <1>1, <1>7, RunsKept, ReceiptsKept
<1>10. exec'[e] = y /\ exec' = [exec EXCEPT ![e] = exec'[e]]
  BY <1>1 DEF IInv, ExecTyped
<1>11. /\ y \in Calls /\ y.pc = "stage" /\ y.at = x.at /\ y.parent = x.parent
       /\ y.input = x.input /\ y.source = x.source /\ y.gov = x.gov /\ y.made = made
       /\ y.candidate = x.candidate
  BY <1>3, <1>5 DEF Calls, Registering
<1>12. /\ KeyOf(y) = k /\ Domain(y) = Domain(x) /\ ReceiptOf(y) = ReceiptOf(x)
  BY <1>11 DEF KeyOf, Domain, ReceiptOf
<1>13. CallSound(y)
  BY <1>1, <1>3, <1>11, <1>12 DEF CallSound, Committing, Registering
<1>14. CallSound(exec[e])'
  BY <1>10, <1>13 DEF CallSound, Domain
<1>15. /\ Chained(artifacts', receipts', lost', y.parent, y.at - 1, y.source)
       /\ ReceiptOf(y) \in receipts' /\ KeyOf(y) \in DOMAIN files'
       /\ y.made \in Made(Domain(y))
  BY <1>1, <1>3, <1>5, <1>6, <1>11, <1>12 DEF EffectSound, Registering
<1>16. EffectSound(exec[e])'
  BY <1>10, <1>11, <1>15 DEF EffectSound, Registering, Domain, KeyOf, ReceiptOf
<1> QED BY <1>7, <1>8, <1>9, <1>10, <1>11, <1>14, <1>16, Assembled

LEMMA SkipArtifactStep ==
  ASSUME IInv, NEW e \in Executors, SkipArtifact(e) PROVE IInv'
<1> DEFINE x == exec[e]
<1>1. /\ x.pc = "register" /\ Domain(x) # "scribe"
      /\ lost' = lost \cup {<<x.parent, Domain(x)>>}
      /\ exec' = [exec EXCEPT ![e] = Advanced(x, x.input, x.source)]
      /\ UNCHANGED <<runs, artifacts, files, script, dag, receipts, escalations>>
  BY DEF SkipArtifact
<1>2. Active(e)
  BY <1>1, IdleIsIdle
<1>3. x \in Calls /\ CallSound(x) /\ EffectSound(x)
  BY <1>2, CallFacts DEF IInv, CallsSound
<1>4. x.at <= Len(Plan) /\ x.at \in Nat \ {0} /\ Len(Plan) \in Nat /\ Domain(x) \in Domains
  BY <1>1, <1>2, <1>3, PlanFacts, CallFacts DEF CallSound, Calls, IInv
<1>5. Grows
  BY <1>1 DEF Grows, RowsGrow
<1>6. x.parent \in Parents
  BY <1>3 DEF Calls
<1>7. StoreSound' /\ ReceiptsSound' /\ RunsSound'
  <2>1. lost' \subseteq Parents \X Domains
    BY <1>1, <1>4, <1>6 DEF IInv, StoreSound
  <2>2. StoreSound'
    BY <1>1, <2>1 DEF IInv, StoreSound
  <2> QED BY <1>1, <1>5, <2>2, ReceiptsKept, RunsKept
<1>8. ASSUME x.at < Len(Plan)
      PROVE  /\ Plan[x.at + 1] # "herald"
             /\ Plan[x.at + 1] = "slicer" => x.input \in {Objective, SourceContent}
  <2>1. x.at + 1 \in 1..Len(Plan) /\ x.at + 1 > 1 /\ (x.at + 1) - 1 = x.at
    BY <1>4, <1>8
  <2>2. Plan[x.at + 1] # "herald"
    BY <1>1, <2>1, PlanFacts DEF Domain
  <2>3. Plan[x.at + 1] = "slicer" => Domain(x) = "herald"
    BY <2>1, PlanFacts DEF Domain
  <2> QED BY <1>3, <1>4, <2>2, <2>3 DEF CallSound
<1>9. Chained(artifacts', receipts', lost', x.parent, x.at, x.source)
  <2>1. x.at - 1 \in Nat /\ (x.at - 1) + 1 = x.at
    BY <1>4
  <2>2. Chained(artifacts, receipts, lost, x.parent, x.at - 1, x.source)
    BY <1>3 DEF EffectSound
  <2>3. Chained(artifacts', receipts', lost', x.parent, x.at - 1, x.source)
    BY <1>5, <2>1, <2>2, ChainGrows DEF Grows
  <2>4. /\ ReceiptOf(x) \in receipts' /\ ReceiptOf(x).parent = x.parent
        /\ ReceiptOf(x).domain = Domain(x) /\ ReceiptOf(x).strikes < MaxStrikes
        /\ ReceiptOf(x).attempt = ReceiptOf(x).strikes + 1
    BY <1>1, <1>3 DEF EffectSound, CallSound, Registering, ReceiptOf
  <2>5. Linked(artifacts', receipts', lost', x.parent, Plan[(x.at - 1) + 1], x.source, x.source)
    BY <1>1, <2>1, <2>4 DEF Linked, Domain
  <2> HIDE DEF x
  <2>6. x.source \in HashesOf(artifacts')
    BY <2>1, <2>3, ChainEnds
  <2>7. Chained(artifacts', receipts', lost', x.parent, (x.at - 1) + 1, x.source)
    BY <2>1, <2>3, <2>5, <2>6, ChainExtends
  <2> QED BY <2>1, <2>7
<1>10. x.input \in {Objective} \cup Contents /\ x.source \in Sources
  BY <1>3 DEF Calls
<1>11. /\ exec' = [exec EXCEPT ![e] = exec'[e]] /\ exec'[e] \in {Idle} \cup Calls
       /\ (CallSound(exec[e]) /\ EffectSound(exec[e]))'
  BY <1>1, <1>2, <1>4, <1>8, <1>9, <1>10, MoveOn
<1> QED BY <1>5, <1>7, <1>11, Assembled

LEMMA StageStep ==
  ASSUME IInv, NEW e \in Executors, Stage(e) PROVE IInv'
<1> DEFINE x == exec[e]
           k == KeyOf(exec[e])
<1>1. /\ x.pc = "stage" /\ artifacts' = StagedIn(artifacts, k, x.made)
      /\ exec' = [exec EXCEPT ![e].pc = "verified"]
      /\ UNCHANGED <<runs, files, script, dag, receipts, lost, escalations>>
  BY DEF Stage
<1>2. Active(e)
  BY <1>1, IdleIsIdle
<1>3. x \in Calls /\ CallSound(x) /\ EffectSound(x)
  BY <1>2, CallFacts DEF IInv, CallsSound
<1>4. /\ k.step = Domain(x) /\ x.made \in Made(Domain(x)) /\ k \in DOMAIN files
  BY <1>1, <1>2, <1>3, CallFacts DEF IInv, EffectSound
<1>5. /\ RowsGrow(artifacts, artifacts')
      /\ DOMAIN artifacts' = DOMAIN artifacts \cup {k}
      /\ \A j \in DOMAIN artifacts : artifacts'[j] = artifacts[j]
      /\ k \notin DOMAIN artifacts => artifacts'[k] = Row(x.made)
  <2> DEFINE more == StagedIn(artifacts, k, x.made)
  <2>1. /\ RowsGrow(artifacts, more) /\ DOMAIN more = DOMAIN artifacts \cup {k}
        /\ \A j \in DOMAIN artifacts : more[j] = artifacts[j]
        /\ k \notin DOMAIN artifacts => more[k] = Row(x.made)
    BY DEF StagedIn, Put, RowsGrow
  <2>2. artifacts' = more
    BY <1>1
  <2> HIDE DEF more
  <2> QED BY <2>1, <2>2
<1>6. Grows
  BY <1>1, <1>5 DEF Grows
<1>7. Row(x.made) \in [content : Made(k.step), state : ArtifactStates]
      /\ Row(x.made).state \notin UsableStates
  BY <1>4 DEF Row, ArtifactStates, UsableStates
<1>8. StoreSound'
  <2>1. \A j \in DOMAIN artifacts' :
          artifacts'[j] \in [content : Made(j.step), state : ArtifactStates]
    BY <1>5, <1>7 DEF IInv, StoreSound
  <2> QED BY <1>1, <1>4, <1>5, <2>1 DEF IInv, StoreSound
<1>9. ReceiptsSound'
  <2>1. ASSUME NEW j \in DOMAIN artifacts', artifacts'[j].state \in UsableStates
        PROVE  Committed(j.parent, j.step)'
    <3>1. j \in DOMAIN artifacts /\ artifacts[j].state \in UsableStates
      BY <1>5, <1>7, <2>1
    <3>2. Committed(j.parent, j.step)
      BY <3>1 DEF IInv, ReceiptsSound
    <3> QED BY <1>1, <3>2 DEF Committed
  <2> QED BY <2>1 DEF ReceiptsSound
<1>10. RunsSound'
  BY <1>1, <1>6, RunsKept
<1>11. "verified" \in Committing \cup Registering /\ x.pc \in Committing \cup Registering
       /\ "verified" \in Registering \ {"register"}
       /\ "verified" # "receipt" /\ "verified" # "markdown"
  BY <1>1 DEF Committing, Registering
<1>12. /\ exec' = [exec EXCEPT ![e] = exec'[e]] /\ exec'[e] \in {Idle} \cup Calls
       /\ exec'[e].pc = "verified" /\ CallSound(exec[e])'
       /\ Chained(artifacts', receipts', lost', x.parent, x.at - 1, x.source)
       /\ exec'[e].parent = x.parent /\ exec'[e].at = x.at
       /\ exec'[e].source = x.source /\ exec'[e].made = x.made
       /\ KeyOf(exec'[e]) = k /\ Domain(exec'[e]) = Domain(x)
       /\ ReceiptOf(exec'[e]) = ReceiptOf(x)
  BY <1>1, <1>2, <1>6, <1>11, CounterMoves
<1>13. /\ ReceiptOf(x) \in receipts' /\ k \in DOMAIN files' /\ k \in DOMAIN artifacts'
  BY <1>1, <1>3, <1>4, <1>5 DEF EffectSound, Registering
<1>14. EffectSound(exec[e])'
  BY <1>4, <1>12, <1>13 DEF EffectSound, Registering, Domain, KeyOf, ReceiptOf
<1> QED BY <1>6, <1>8, <1>9, <1>10, <1>12, <1>14, Assembled

\* transition_state by the executor whose receipt the row's step has.
LEMMA TransitionStep ==
  ASSUME IInv, NEW e \in Executors, exec[e].pc \in {"verified", "promote"},
         NEW state \in UsableStates,
         artifacts' = TransitionedIn(artifacts, KeyOf(exec[e]), state),
         UNCHANGED <<runs, files, script, dag, receipts, lost, escalations>>
  PROVE  /\ Grows /\ StoreSound' /\ ReceiptsSound' /\ RunsSound'
         /\ KeyOf(exec[e]) \in DOMAIN artifacts'
         /\ artifacts'[KeyOf(exec[e])].state \in UsableStates
         /\ artifacts'[KeyOf(exec[e])].content = artifacts[KeyOf(exec[e])].content
         /\ artifacts[KeyOf(exec[e])].content \in Made(Domain(exec[e]))
<1> DEFINE x == exec[e]
           k == KeyOf(exec[e])
<1>1. Active(e)
  BY IdleIsIdle
<1>2. x \in Calls /\ CallSound(x) /\ EffectSound(x)
  BY <1>1, CallFacts DEF IInv, CallsSound
<1>3. /\ k.step = Domain(x) /\ k.parent = x.parent /\ k \in DOMAIN artifacts
  BY <1>1, <1>2, CallFacts DEF IInv, EffectSound
<1>4. artifacts[k] \in [content : Made(k.step), state : ArtifactStates]
  BY <1>3 DEF IInv, StoreSound
<1>5. \A j \in DOMAIN artifacts :
        artifacts[j] \in [content : UNION {Made(i.step) : i \in DOMAIN artifacts},
                          state : ArtifactStates]
  BY DEF IInv, StoreSound
<1>6. /\ RowsGrow(artifacts, artifacts') /\ DOMAIN artifacts' = DOMAIN artifacts
      /\ \A j \in DOMAIN artifacts : j # k => artifacts'[j] = artifacts[j]
      /\ artifacts'[k] = [content |-> artifacts[k].content, state |-> state]
  <2> DEFINE more == TransitionedIn(artifacts, k, state)
             C == UNION {Made(i.step) : i \in DOMAIN artifacts}
  <2>1. \A j \in DOMAIN artifacts : artifacts[j] \in [content : C, state : ArtifactStates]
    BY <1>5
  <2> HIDE DEF C
  <2>2. /\ RowsGrow(artifacts, more) /\ DOMAIN more = DOMAIN artifacts
        /\ \A j \in DOMAIN artifacts : j # k => more[j] = artifacts[j]
        /\ more[k] = [content |-> artifacts[k].content, state |-> state]
    BY <1>3, <2>1, TransitionGrows
  <2>3. artifacts' = more
    OBVIOUS
  <2> HIDE DEF more
  <2> QED BY <2>2, <2>3
<1>7. Grows
  BY <1>6 DEF Grows
<1>8. RunsSound'
  BY <1>7, RunsKept
<1>9. artifacts'[k] \in [content : Made(k.step), state : ArtifactStates]
  BY <1>4, <1>6 DEF UsableStates, ArtifactStates
<1>10. StoreSound'
  BY <1>6, <1>9 DEF IInv, StoreSound
<1>11. Committed(k.parent, k.step)
  <2>1. ReceiptOf(x) \in receipts
    BY <1>2 DEF EffectSound, Registering
  <2>2. x.gov.strike < MaxStrikes /\ x.gov.attempt = x.gov.strike + 1
    BY <1>2 DEF CallSound, Registering
  <2> QED BY <1>3, <2>1, <2>2 DEF Committed, ReceiptOf
<1>12. ReceiptsSound'
  <2>1. ASSUME NEW j \in DOMAIN artifacts, artifacts'[j].state \in UsableStates
        PROVE  Committed(j.parent, j.step)
    BY <1>6, <1>11, <2>1 DEF IInv, ReceiptsSound
  <2> QED BY <1>6, <2>1 DEF ReceiptsSound, Committed
<1> QED BY <1>3, <1>4, <1>6, <1>7, <1>8, <1>10, <1>12

LEMMA VerifyStep ==
  ASSUME IInv, NEW e \in Executors, Verify(e) PROVE IInv'
<1> DEFINE x == exec[e]
           k == KeyOf(exec[e])
<1>1. /\ x.pc = "verified" /\ artifacts' = TransitionedIn(artifacts, k, "VERIFIED")
      /\ exec' = [exec EXCEPT ![e].pc = "promote"]
      /\ UNCHANGED <<runs, files, script, dag, receipts, lost, escalations>>
  BY DEF Verify
<1>2. Active(e)
  BY <1>1, IdleIsIdle
<1>3. x \in Calls /\ CallSound(x) /\ EffectSound(x)
  BY <1>2, CallFacts DEF IInv, CallsSound
<1>4. "VERIFIED" \in UsableStates
  BY DEF UsableStates
<1>5. /\ Grows /\ StoreSound' /\ ReceiptsSound' /\ RunsSound'
      /\ k \in DOMAIN artifacts' /\ artifacts'[k].state \in UsableStates
  BY <1>1, <1>4, TransitionStep
<1>6. "promote" \in Committing \cup Registering /\ x.pc \in Committing \cup Registering
       /\ "promote" \in Registering \ {"register"}
       /\ "promote" # "receipt" /\ "promote" # "markdown"
  BY <1>1 DEF Committing, Registering
<1>7. /\ exec' = [exec EXCEPT ![e] = exec'[e]] /\ exec'[e] \in {Idle} \cup Calls
      /\ exec'[e].pc = "promote" /\ CallSound(exec[e])'
      /\ Chained(artifacts', receipts', lost', x.parent, x.at - 1, x.source)
      /\ exec'[e].parent = x.parent /\ exec'[e].at = x.at
      /\ exec'[e].source = x.source /\ exec'[e].made = x.made
      /\ KeyOf(exec'[e]) = k /\ Domain(exec'[e]) = Domain(x)
      /\ ReceiptOf(exec'[e]) = ReceiptOf(x)
  BY <1>1, <1>2, <1>5, <1>6, CounterMoves
<1>8. /\ ReceiptOf(x) \in receipts' /\ k \in DOMAIN files' /\ x.made \in Made(Domain(x))
  BY <1>1, <1>3 DEF EffectSound, Registering
<1>9. EffectSound(exec[e])'
  BY <1>5, <1>7, <1>8 DEF EffectSound, Registering, Domain, KeyOf, ReceiptOf
<1> QED BY <1>5, <1>7, <1>9, Assembled

LEMMA PromoteStep ==
  ASSUME IInv, NEW e \in Executors, Promote(e) PROVE IInv'
<1> DEFINE x == exec[e]
           k == KeyOf(exec[e])
<1>1. /\ x.pc = "promote" /\ artifacts' = TransitionedIn(artifacts, k, "PROMOTED")
      /\ exec' = [exec EXCEPT ![e] = Advanced(x, x.made, artifacts[k].content)]
      /\ UNCHANGED <<runs, files, script, dag, receipts, lost, escalations>>
  BY DEF Promote
<1>2. Active(e)
  BY <1>1, IdleIsIdle
<1>3. x \in Calls /\ CallSound(x) /\ EffectSound(x)
  BY <1>2, CallFacts DEF IInv, CallsSound
<1>4. "PROMOTED" \in UsableStates
  BY DEF UsableStates
<1>5. /\ Grows /\ StoreSound' /\ ReceiptsSound' /\ RunsSound'
      /\ k \in DOMAIN artifacts' /\ artifacts'[k].state \in UsableStates
      /\ artifacts'[k].content = artifacts[k].content
      /\ artifacts[k].content \in Made(Domain(x))
  BY <1>1, <1>4, TransitionStep
<1>6. x.at <= Len(Plan) /\ x.made \in Made(Domain(x))
  BY <1>1, <1>3 DEF CallSound, EffectSound
<1> HIDE DEF x, k
<1>7. /\ exec' = [exec EXCEPT ![e] = exec'[e]] /\ exec'[e] \in {Idle} \cup Calls
      /\ (CallSound(exec[e]) /\ EffectSound(exec[e]))'
  BY <1>1, <1>2, <1>5, <1>6, AdvanceStep DEF x, k
<1> QED BY <1>5, <1>7, Assembled

-----------------------------------------------------------------------------
(* Around it *)

LEMMA ResolveStep ==
  ASSUME IInv, NEW id, NEW decision, ResolveEscalation(id, decision) PROVE IInv'
<1>1. /\ UNCHANGED <<runs, artifacts, files, script, dag, receipts, lost, exec>>
      /\ DOMAIN escalations' = DOMAIN escalations
      /\ \A i \in DOMAIN escalations : escalations'[i].parent = escalations[i].parent
  BY DEF ResolveEscalation
<1>2. Grows
  BY <1>1 DEF Grows, RowsGrow
<1>3. StoreSound' /\ ReceiptsSound' /\ RunsSound'
  BY <1>1, <1>2, StoreKept, ReceiptsKept, RunsKept DEF IInv, StoreSound
<1>4. ExecTyped'
  BY <1>1 DEF IInv, ExecTyped
<1>5. ASSUME NEW e \in Executors, Active(e)'
      PROVE  (CallSound(exec[e]) /\ EffectSound(exec[e]))'
  <2>1. exec'[e] = exec[e] /\ Active(e)
    BY <1>1, <1>5 DEF Active
  <2> QED BY <1>2, <2>1, OthersKept
<1>6. CallsSound'
  BY <1>5 DEF CallsSound
<1> QED BY <1>3, <1>4, <1>6 DEF IInv

LEMMA ClearScratchStep ==
  ASSUME IInv, ClearScratch PROVE IInv'
<1>1. /\ script' = [blueprint |-> None, markdown |-> None] /\ dag' = None
      /\ UNCHANGED <<runs, artifacts, files, receipts, lost, escalations, exec>>
  BY DEF ClearScratch
<1>2. Grows
  BY <1>1 DEF Grows, RowsGrow
<1>3. StoreSound'
  BY <1>1 DEF IInv, StoreSound
<1>4. ReceiptsSound' /\ RunsSound'
  BY <1>1, <1>2, ReceiptsKept, RunsKept
<1>5. ExecTyped'
  BY <1>1 DEF IInv, ExecTyped
<1>6. ASSUME NEW e \in Executors, Active(e)'
      PROVE  (CallSound(exec[e]) /\ EffectSound(exec[e]))'
  <2>1. exec'[e] = exec[e] /\ Active(e)
    BY <1>1, <1>6 DEF Active
  <2> QED BY <1>2, <2>1, OthersKept
<1>7. CallsSound'
  BY <1>6 DEF CallsSound
<1> QED BY <1>3, <1>4, <1>5, <1>7 DEF IInv

LEMMA StutterStep ==
  ASSUME IInv,
         UNCHANGED <<runs, artifacts, files, script, dag, receipts, lost, escalations, exec>>
  PROVE  IInv'
<1>1. Grows
  BY NothingLost
<1>2. StoreSound' /\ ReceiptsSound' /\ RunsSound'
  BY <1>1, StoreKept, ReceiptsKept, RunsKept DEF IInv, StoreSound
<1>3. ExecTyped'
  BY DEF IInv, ExecTyped
<1>4. ASSUME NEW e \in Executors, Active(e)'
      PROVE  (CallSound(exec[e]) /\ EffectSound(exec[e]))'
  <2>1. exec'[e] = exec[e] /\ Active(e)
    BY <1>4 DEF Active
  <2> QED BY <1>1, <2>1, OthersKept
<1>5. CallsSound'
  BY <1>4 DEF CallsSound
<1> QED BY <1>2, <1>3, <1>5 DEF IInv

-----------------------------------------------------------------------------
(* The theorems *)

\* Whatever executors interleave, die and resume, the rows of runs, artifacts and
\* escalations, the shared scratch files and every call of execute_route stay in the
\* relation that IInv states.
THEOREM Soundness == Spec => []IInv
<1>1. ASSUME IInv, [Next]_vars PROVE IInv'
  <2>1. CASE \E e \in Executors : Executes(e) \/ Die(e)
    <3>1. PICK e \in Executors : Executes(e) \/ Die(e)
      BY <2>1
    <3>2. CASE Die(e)
      BY <1>1, <3>2, DieStep
    <3>3. CASE Executes(e)
      BY <1>1, <3>3, UseCachedStep, EscalateStep, ParkStep, AttemptStep, CommitSourceStep,
         CommitBlueprintStep, CommitMarkdownStep, CommitPlanStep, RecordReceiptStep,
         WriteArtifactStep, SkipArtifactStep, StageStep, VerifyStep, PromoteStep, CompleteStep
         DEF Executes
    <3> QED BY <3>1, <3>2, <3>3
  <2>2. CASE \E e \in Executors, p \in Parents, resume \in BOOLEAN : Start(e, p, resume)
    BY <1>1, <2>2, StartStep
  <2>3. CASE \E id \in DOMAIN escalations, d \in Decisions : ResolveEscalation(id, d)
    BY <1>1, <2>3, ResolveStep
  <2>4. CASE Tick
    BY <1>1, <2>4, StutterStep DEF Tick
  <2>5. CASE ClearScratch
    BY <1>1, <2>5, ClearScratchStep
  <2>6. CASE UNCHANGED vars
    BY <1>1, <2>6, StutterStep DEF vars
  <2> QED BY <1>1, <2>1, <2>2, <2>3, <2>4, <2>5, <2>6 DEF Next
<1> QED BY <1>1, InitIInv, PTL DEF Spec

\* Every table, file and call of execute_route has its type, and the governor's counters
\* never pass the ceiling of attempts and strikes.
THEOREM TypeCorrect == Spec => []TypeOK
<1>1. IInv => TypeOK
  <2> SUFFICES ASSUME IInv PROVE TypeOK
    OBVIOUS
  <2>1. /\ runs \in [Parents -> {None, "RUNNING", "AWAITING_APPROVAL", "COMPLETED"}]
        /\ script \in [blueprint : Generated \cup {None}, markdown : Generated \cup {None}]
        /\ lost \subseteq Parents \X Domains
    BY RouteAssumption DEF IInv, StoreSound
  <2>2. dag \in {None} \cup Contents
    BY MadeFacts DEF IInv, StoreSound, Domains
  <2>3. \A k \in DOMAIN files : k \in Keys /\ k.step \in Domains
    BY DEF IInv, StoreSound, Keys
  <2>4. \A k \in DOMAIN files : files[k] \in Contents
    BY <2>3, MadeFacts DEF IInv, StoreSound
  <2>5. DOMAIN artifacts \subseteq Keys /\ DOMAIN artifacts \subseteq DOMAIN files
    BY <2>3 DEF IInv, StoreSound
  <2>6. \A k \in DOMAIN artifacts :
          artifacts[k] \in [content : Contents, state : ArtifactStates]
    BY <2>3, <2>5, MadeFacts DEF IInv, StoreSound
  <2>7. ASSUME NEW e \in Executors, exec[e] # Idle PROVE exec[e] \in Calls
    BY <2>7 DEF IInv, ExecTyped
  <2> QED BY <2>1, <2>2, <2>4, <2>5, <2>6, <2>7 DEF TypeOK, Calls
<1> QED BY <1>1, Soundness, PTL

\* An artifact that a resume may reuse holds only audited content, although the runners'
\* files are shared, and its own parent run has the receipt of an attempt within the strike
\* ceiling (find_verified_artifact, record_execution_receipt).
THEOREM ReuseIsEarned == Spec => []UsableWasEarned
<1>1. IInv => UsableWasEarned
  <2> SUFFICES ASSUME IInv, NEW p \in Parents, NEW d \in Domains, NEW k \in Usable(p, d)
               PROVE  /\ artifacts[k].content.type = "script" =>
                           {artifacts[k].content.blueprint, artifacts[k].content.markdown}
                             \subseteq Valid
                      /\ Committed(p, d)
    BY DEF UsableWasEarned, Committed
  <2>1. /\ k \in DOMAIN artifacts /\ k.parent = p /\ k.step = d
        /\ artifacts[k].state \in UsableStates
    BY DEF Usable, UsableStates
  <2>2. artifacts[k].content \in Made(d)
    BY <2>1 DEF IInv, StoreSound
  <2>3. artifacts[k].content.type = "script" => artifacts[k].content \in ValidScripts
    BY <2>2, MadeFacts
  <2> QED BY <2>1, <2>3 DEF IInv, ReceiptsSound, ValidScripts
<1> QED BY <1>1, Soundness, PTL

\* The steps of a run that the runs table calls COMPLETED are joined hash by hash, but for
\* those whose committed files were gone before they were registered (execute_route).
THEOREM CompletionIsEarned == Spec => []CompletedIsEarned
<1>1. IInv => CompletedIsEarned
  <2> SUFFICES ASSUME IInv, NEW p \in Parents, runs[p] = "COMPLETED"
               PROVE  \E flow \in [0..Len(Plan) -> Hashes] :
                        /\ flow[0] = Zero
                        /\ \A i \in 1..Len(Plan) : HandsOn(p, Plan[i], flow[i - 1], flow[i])
    BY DEF CompletedIsEarned
  <2>1. PICK s : Chained(artifacts, receipts, lost, p, Len(Plan), s)
    BY DEF IInv, RunsSound
  <2>2. PICK flow \in [0..Len(Plan) -> HashesOf(artifacts)] :
          /\ flow[0] = Zero
          /\ \A i \in 1..Len(Plan) :
               Linked(artifacts, receipts, lost, p, Plan[i], flow[i - 1], flow[i])
    BY <2>1 DEF Chained
  <2>3. flow \in [0..Len(Plan) -> Hashes]
    BY <2>2 DEF Hashes, HashesOf
  <2>4. ASSUME NEW d, NEW from, NEW to, Linked(artifacts, receipts, lost, p, d, from, to)
        PROVE  HandsOn(p, d, from, to)
    BY <2>4 DEF Linked, HandsOn, Usable, UsableStates, Committed
  <2> QED BY <2>2, <2>3, <2>4
<1> QED BY <1>1, Soundness, PTL

\* A run that is AWAITING_APPROVAL has an escalation to decide on: the escalation is
\* recorded before the run's row is written (record_escalation, resolve_escalation).
THEOREM WaitingIsEscalated == Spec => []AwaitingIsEscalated
<1>1. IInv => AwaitingIsEscalated
  BY DEF IInv, RunsSound
<1> QED BY <1>1, Soundness, PTL
=============================================================================
