---------------------------- MODULE ForgeProofs ----------------------------
(***************************************************************************)
(* Proofs about the action pipeline of the Forge, for every set of actors, *)
(* keys and proposals, however many runs and deaths there are, and         *)
(* whatever the execution graphs beside it do; and about the execution     *)
(* graphs, for every set of requests and of provisionable capabilities.    *)
(***************************************************************************)
EXTENDS Forge, FiniteSetTheorems, TLAPS

PCs == {"idle", "normalize", "route", "direct", "build", "open", "gate", "issue", "consume",
        "perform", "record", "evaluate", "close"}
Decisions == {"NONE", "AUTHORIZED", "DENIED"}
Outcomes == {"NONE", "OPEN", "COMMITTED", "FAILED", "DENIED"}
States == {"NONE", "AUTHORIZED", "CONSUMED"}
Locals == [pc : PCs, proposal : Proposals, decision : Decisions, committed : BOOLEAN, again : BOOLEAN]
KeyOf(a) == Proposed(a).key

ActorsTyped == actor \in [Actors -> Locals]

StoreTyped ==
  /\ transactions \in [Actors -> Outcomes]
  /\ authorizations \in [Keys -> [state : States, holder : Actors \cup {"nobody"}]]
  /\ performed \in [Keys -> Seq(Actors)]

\* What has not been consumed has not been performed, and nothing twice.
KeysSound ==
  \A k \in Keys :
    /\ performed[k] = <<>> \/ \E a \in Actors : performed[k] = <<a>>
    /\ authorizations[k].state # "CONSUMED" => performed[k] = <<>>

\* Who is about to perform holds the consumed key, which nobody has performed.
PerformersSound ==
  \A a \in Actors : At(a, "perform") =>
    /\ authorizations[KeyOf(a)].holder = a
    /\ authorizations[KeyOf(a)].state = "CONSUMED"
    /\ performed[KeyOf(a)] = <<>>

\* A receipt, until the run is closed, and a COMMITTED transaction are of an operation
\* that their actor performed.
OutcomesSound ==
  \A a \in Actors :
    /\ actor[a].committed /\ actor[a].pc \notin {"idle", "close"} => performed[KeyOf(a)] = <<a>>
    /\ transactions[a] = "COMMITTED" => performed[KeyOf(a)] = <<a>>

Sound == ActorsTyped /\ StoreTyped /\ KeysSound /\ PerformersSound /\ OutcomesSound

-----------------------------------------------------------------------------
\* Nothing has run: everything holds.
LEMMA InitSound == Init => Sound
<1> SUFFICES ASSUME Init PROVE Sound
  OBVIOUS
<1> USE ProposalAssumption DEF Init, ActionsInit
<1>1. PICK p \in Proposals : actor = [a \in Actors |-> Idle(p)]
  <2> DEFINE first == CHOOSE p \in Proposals : TRUE
  <2>1. first \in Proposals
    OBVIOUS
  <2>2. actor = [a \in Actors |-> Idle(first)]
    OBVIOUS
  <2> HIDE DEF first
  <2> QED BY <2>1, <2>2
<1>2. ActorsTyped
  <2>1. Idle(p) \in Locals
    BY DEF Idle, Locals, PCs, Decisions
  <2> QED BY <1>1, <2>1 DEF ActorsTyped
<1>3. StoreTyped
  <2>1. Free \in [state : States, holder : Actors \cup {"nobody"}]
    BY DEF Free, States
  <2>2. <<>> \in Seq(Actors)
    OBVIOUS
  <2>3. transactions \in [Actors -> Outcomes]
    BY DEF Outcomes
  <2>4. authorizations \in [Keys -> [state : States, holder : Actors \cup {"nobody"}]]
    BY <2>1
  <2>5. performed \in [Keys -> Seq(Actors)]
    BY <2>2
  <2> QED BY <2>3, <2>4, <2>5 DEF StoreTyped
<1>4. KeysSound
  BY DEF KeysSound, Free
<1>5. \A a \in Actors : actor[a].pc = "idle" /\ ~actor[a].committed
  BY <1>1 DEF Idle
<1>6. PerformersSound /\ OutcomesSound
  BY <1>5 DEF PerformersSound, OutcomesSound, At
<1> QED BY <1>2, <1>3, <1>4, <1>6 DEF Sound

-----------------------------------------------------------------------------
\* A step that leaves an actor's proposal alone and moves the actor to a point where it
\* relies on no more than it did keeps what the actors rely on.  Such are all steps of the
\* pipeline but those that write the store.
LEMMA QuietStep ==
  ASSUME Sound, NEW a \in Actors, NEW outcome \in Outcomes,
         actor' \in [Actors -> Locals],
         \A b \in Actors \ {a} : actor'[b] = actor[b],
         actor'[a].proposal = actor[a].proposal,
         actor'[a].pc # "perform",
         actor'[a].committed => actor[a].committed \/ actor'[a].pc \in {"idle", "close"},
         actor[a].pc \in {"idle", "close"} => actor'[a].pc = "idle",
         transactions' = transactions \/ transactions' = [transactions EXCEPT ![a] = outcome],
         outcome = "COMMITTED" => actor[a].committed /\ actor[a].pc \notin {"idle", "close"},
         UNCHANGED <<authorizations, performed>>
  PROVE  Sound'
<1> USE DEF Sound, ActorsTyped, StoreTyped
<1>1. \A b \in Actors : KeyOf(b)' = KeyOf(b)
  BY DEF KeyOf, Proposed
<1>2. StoreTyped' /\ KeysSound'
  BY DEF KeysSound
<1>3. PerformersSound'
  BY <1>1 DEF PerformersSound, At
<1>4. OutcomesSound'
  <2> SUFFICES ASSUME NEW b \in Actors
               PROVE  /\ actor'[b].committed /\ actor'[b].pc \notin {"idle", "close"} =>
                           performed[KeyOf(b)] = <<b>>
                      /\ transactions'[b] = "COMMITTED" => performed[KeyOf(b)] = <<b>>
    BY <1>1 DEF OutcomesSound
  <2>1. CASE b = a
    BY <2>1, <1>1 DEF OutcomesSound
  <2>2. CASE b # a
    BY <2>2 DEF OutcomesSound
  <2> QED BY <2>1, <2>2
<1> QED BY <1>2, <1>3, <1>4

\* The run of an actor, up to the gate and after the operation.
LEMMA PipelineStep ==
  ASSUME Sound, NEW a \in Actors,
         \/ NormalizeTask(a) \/ Route(a) \/ AnswerDirectly(a) \/ BuildArtifact(a)
         \/ OpenTransaction(a) \/ EvaluateProposal(a) \/ RecordOutcome(a) \/ PresentAgain(a)
         \/ EvaluateOutcome(a) \/ CloseRun(a) \/ ActorDies(a)
  PROVE  Sound'
<1> USE DEF At, Step
<1>1. actor \in [Actors -> Locals] /\ actor[a] \in Locals
  BY DEF Sound, ActorsTyped
<1>2. CASE NormalizeTask(a)
  <2>1. actor' = [actor EXCEPT ![a].pc = "route"]
    BY <1>2 DEF NormalizeTask
  <2>2. actor' \in [Actors -> Locals]
    BY <2>1, <1>1 DEF Locals, PCs
  <2> QED BY <1>1, <1>2, <2>1, <2>2, QuietStep DEF NormalizeTask, Locals, PCs, Outcomes
<1>3. CASE Route(a)
  <2>1. PICK next \in {"open", "direct", "build"} : actor' = [actor EXCEPT ![a].pc = next]
    BY <1>3 DEF Route
  <2>2. actor' \in [Actors -> Locals]
    BY <2>1, <1>1 DEF Locals, PCs
  <2>3. /\ \A b \in Actors \ {a} : actor'[b] = actor[b]
        /\ actor'[a].proposal = actor[a].proposal /\ actor'[a].committed = actor[a].committed
        /\ actor'[a].pc \in {"open", "direct", "build"}
    BY <2>1, <1>1 DEF Locals
  <2> QED BY <1>3, <2>2, <2>3, QuietStep DEF Route, Outcomes
<1>4. CASE AnswerDirectly(a) \/ BuildArtifact(a)
  <2>1. PICK done \in BOOLEAN :
          actor' = [actor EXCEPT ![a].pc = "close", ![a].committed = done]
    BY <1>4 DEF AnswerDirectly, BuildArtifact
  <2>2. actor' \in [Actors -> Locals]
    BY <2>1, <1>1 DEF Locals, PCs
  <2>3. /\ \A b \in Actors \ {a} : actor'[b] = actor[b]
        /\ actor'[a].proposal = actor[a].proposal
        /\ actor'[a].pc = "close"
    BY <2>1, <1>1 DEF Locals
  <2>4. /\ UNCHANGED <<transactions, authorizations, performed>>
        /\ actor[a].pc \notin {"idle", "close"}
    BY <1>4 DEF AnswerDirectly, BuildArtifact
  <2> QED BY <2>2, <2>3, <2>4, QuietStep DEF Outcomes
<1>5. CASE OpenTransaction(a)
  <2>1. actor' = [actor EXCEPT ![a].pc = "gate"]
    BY <1>5 DEF OpenTransaction
  <2>2. actor' \in [Actors -> Locals]
    BY <2>1, <1>1 DEF Locals, PCs
  <2>3. transactions' = [transactions EXCEPT ![a] = "OPEN"]
    BY <1>5 DEF OpenTransaction, RecordTransaction
  <2>4. /\ \A b \in Actors \ {a} : actor'[b] = actor[b]
        /\ actor'[a].proposal = actor[a].proposal
        /\ actor'[a].pc = "gate" /\ actor'[a].committed = actor[a].committed
    BY <2>1, <1>1 DEF Locals
  <2>5. /\ UNCHANGED <<authorizations, performed>>
        /\ actor[a].pc = "open"
    BY <1>5 DEF OpenTransaction
  <2> QED BY <2>2, <2>3, <2>4, <2>5, QuietStep DEF Outcomes
<1>6. CASE EvaluateProposal(a)
  <2>1. PICK pc \in {"record", "issue"}, decision \in Decisions :
          actor' = [actor EXCEPT ![a].pc = pc, ![a].decision = decision]
    BY <1>6 DEF EvaluateProposal, Decisions
  <2>2. actor' \in [Actors -> Locals]
    BY <2>1, <1>1 DEF Locals, PCs
  <2>3. /\ \A b \in Actors \ {a} : actor'[b] = actor[b]
        /\ actor'[a].proposal = actor[a].proposal
        /\ actor'[a].pc = pc /\ actor'[a].committed = actor[a].committed
    BY <2>1, <1>1 DEF Locals
  <2>4. /\ UNCHANGED <<transactions, authorizations, performed>>
        /\ actor[a].pc = "gate"
    BY <1>6 DEF EvaluateProposal
  <2> QED BY <2>2, <2>3, <2>4, QuietStep DEF Outcomes
<1>7. CASE RecordOutcome(a)
  <2>1. actor' = [actor EXCEPT ![a].pc = "evaluate"]
    BY <1>7 DEF RecordOutcome
  <2>2. actor' \in [Actors -> Locals]
    BY <2>1, <1>1 DEF Locals, PCs
  <2>3. PICK outcome \in {"DENIED", "COMMITTED", "FAILED"} :
          /\ transactions' = [transactions EXCEPT ![a] = outcome]
          /\ outcome = "COMMITTED" => actor[a].committed
    BY <1>7 DEF RecordOutcome, RecordTransaction
  <2>4. /\ \A b \in Actors \ {a} : actor'[b] = actor[b]
        /\ actor'[a].proposal = actor[a].proposal
        /\ actor'[a].pc = "evaluate" /\ actor'[a].committed = actor[a].committed
    BY <2>1, <1>1 DEF Locals
  <2>5. /\ UNCHANGED <<authorizations, performed>>
        /\ actor[a].pc = "record"
    BY <1>7 DEF RecordOutcome
  <2> QED BY <2>2, <2>3, <2>4, <2>5, QuietStep DEF Outcomes
<1>8. CASE PresentAgain(a)
  <2>1. actor' = [actor EXCEPT ![a].pc = "consume", ![a].again = TRUE]
    BY <1>8 DEF PresentAgain
  <2>2. actor' \in [Actors -> Locals]
    BY <2>1, <1>1 DEF Locals, PCs
  <2>3. /\ \A b \in Actors \ {a} : actor'[b] = actor[b]
        /\ actor'[a].proposal = actor[a].proposal /\ actor'[a].committed = actor[a].committed
        /\ actor'[a].pc \in {"consume"}
    BY <2>1, <1>1 DEF Locals
  <2> QED BY <1>8, <2>2, <2>3, QuietStep DEF PresentAgain, Outcomes
<1>9. CASE EvaluateOutcome(a)
  <2>1. PICK there \in BOOLEAN :
          actor' = [actor EXCEPT ![a].pc = "close", ![a].committed = @ /\ there]
    BY <1>9 DEF EvaluateOutcome
  <2>2. actor' \in [Actors -> Locals]
    BY <2>1, <1>1 DEF Locals, PCs
  <2>3. /\ \A b \in Actors \ {a} : actor'[b] = actor[b]
        /\ actor'[a].proposal = actor[a].proposal
        /\ actor'[a].pc = "close"
    BY <2>1, <1>1 DEF Locals
  <2>4. /\ UNCHANGED <<transactions, authorizations, performed>>
        /\ actor[a].pc = "evaluate"
    BY <1>9 DEF EvaluateOutcome
  <2> QED BY <2>2, <2>3, <2>4, QuietStep DEF Outcomes
<1>10. CASE CloseRun(a) \/ ActorDies(a)
  <2>1. actor' = [actor EXCEPT ![a].pc = "idle"]
    BY <1>10 DEF CloseRun, ActorDies
  <2>2. actor' \in [Actors -> Locals]
    BY <2>1, <1>1 DEF Locals, PCs
  <2>3. /\ \A b \in Actors \ {a} : actor'[b] = actor[b]
        /\ actor'[a].proposal = actor[a].proposal /\ actor'[a].committed = actor[a].committed
        /\ actor'[a].pc \in {"idle"}
    BY <2>1, <1>1 DEF Locals
  <2> QED BY <1>10, <2>2, <2>3, QuietStep DEF CloseRun, ActorDies, Outcomes
<1> QED BY <1>2, <1>3, <1>4, <1>5, <1>6, <1>7, <1>8, <1>9, <1>10

\* A run begins: nothing is claimed of it yet.
LEMMA BeginStep ==
  ASSUME Sound, NEW a \in Actors, Begin(a)
  PROVE  Sound'
<1> USE DEF Sound, ActorsTyped, StoreTyped
<1>1. PICK p \in Proposals :
        actor' = [actor EXCEPT ![a] = [Idle(p) EXCEPT !.pc = "normalize"]]
  BY DEF Begin
<1>2. LET x == [Idle(p) EXCEPT !.pc = "normalize"]
      IN  x \in Locals /\ x.pc = "normalize" /\ ~x.committed
  BY DEF Idle, Locals, PCs, Decisions
<1>3. /\ transactions' = [transactions EXCEPT ![a] = "NONE"]
      /\ UNCHANGED <<authorizations, performed>>
  BY DEF Begin, RecordTransaction
<1>4. /\ actor' \in [Actors -> Locals]
      /\ actor'[a].pc = "normalize" /\ ~actor'[a].committed
      /\ \A b \in Actors \ {a} : actor'[b] = actor[b]
  BY <1>1, <1>2
<1>5. \A b \in Actors \ {a} : KeyOf(b)' = KeyOf(b)
  BY <1>4 DEF KeyOf, Proposed
<1>6. StoreTyped' /\ KeysSound'
  BY <1>3 DEF KeysSound, Outcomes
<1>7. PerformersSound'
  BY <1>3, <1>4, <1>5 DEF PerformersSound, At
<1>8. OutcomesSound'
  BY <1>3, <1>4, <1>5 DEF OutcomesSound
<1> QED BY <1>4, <1>6, <1>7, <1>8

\* A key is inserted only where there was none, so nobody is about to perform under it.
LEMMA IssueStep ==
  ASSUME Sound, NEW a \in Actors, IssueAuthorization(a)
  PROVE  Sound'
<1> USE DEF Sound, ActorsTyped, StoreTyped, At, Step
<1>1. actor \in [Actors -> Locals] /\ actor[a] \in Locals /\ KeyOf(a) \in Keys
  BY ProposalAssumption DEF Locals, KeyOf, Proposed
<1>2. PICK pc \in {"consume", "idle"} : actor' = [actor EXCEPT ![a].pc = pc]
  BY DEF IssueAuthorization, RecordAuthorization
<1>3. /\ actor' \in [Actors -> Locals]
      /\ \A b \in Actors \ {a} : actor'[b] = actor[b]
      /\ actor'[a].proposal = actor[a].proposal
      /\ actor'[a].pc = pc /\ actor'[a].committed = actor[a].committed
  BY <1>1, <1>2 DEF Locals, PCs
<1>4. /\ UNCHANGED <<transactions, performed>>
      /\ actor[a].pc = "issue"
  BY DEF IssueAuthorization
<1>5. CASE UNCHANGED authorizations
  BY <1>3, <1>4, <1>5, QuietStep DEF Outcomes
<1>6. CASE /\ authorizations[KeyOf(a)].state = "NONE"
           /\ authorizations' = [authorizations EXCEPT ![KeyOf(a)] =
                                   [state |-> "AUTHORIZED", holder |-> a]]
  <2>1. StoreTyped'
    BY <1>1, <1>4, <1>6 DEF States
  <2>2. KeysSound'
    BY <1>1, <1>4, <1>6 DEF KeysSound
  <2>3. \A b \in Actors : KeyOf(b)' = KeyOf(b)
    BY <1>3 DEF KeyOf, Proposed
  <2>4. PerformersSound'
    BY <1>1, <1>3, <1>4, <1>6, <2>3 DEF PerformersSound
  <2>5. OutcomesSound'
    BY <1>3, <1>4, <2>3 DEF OutcomesSound
  <2> QED BY <1>3, <2>1, <2>2, <2>4, <2>5
<1> QED BY <1>5, <1>6 DEF IssueAuthorization, RecordAuthorization, KeyOf

\* The consumption of a key makes its holder the only one that may perform.
LEMMA ConsumeStep ==
  ASSUME Sound, NEW a \in Actors, ConsumeAuthorization(a)
  PROVE  Sound'
<1> USE DEF Sound, ActorsTyped, StoreTyped, At, Step
<1>1. actor \in [Actors -> Locals] /\ actor[a] \in Locals /\ KeyOf(a) \in Keys
  BY ProposalAssumption DEF Locals, KeyOf, Proposed
<1>2. /\ UNCHANGED <<transactions, performed>>
      /\ actor[a].pc = "consume"
  BY DEF ConsumeAuthorization
<1>3. CASE actor' = [actor EXCEPT ![a].pc = Received(a)] /\ UNCHANGED authorizations
  <2>1. Received(a) \in {"evaluate", "record"}
    BY DEF Received
  <2>2. /\ actor' \in [Actors -> Locals]
        /\ \A b \in Actors \ {a} : actor'[b] = actor[b]
        /\ actor'[a].proposal = actor[a].proposal
        /\ actor'[a].pc = Received(a) /\ actor'[a].committed = actor[a].committed
    BY <1>1, <1>3, <2>1 DEF Locals, PCs
  <2> QED BY <1>2, <1>3, <2>1, <2>2, QuietStep DEF Outcomes
<1>4. CASE /\ Consumable(a)
           /\ authorizations' = [authorizations EXCEPT ![KeyOf(a)].state = "CONSUMED"]
           /\ actor' = [actor EXCEPT ![a].pc = "perform"]
  <2>1. /\ actor' \in [Actors -> Locals]
        /\ \A b \in Actors \ {a} : actor'[b] = actor[b]
        /\ actor'[a].proposal = actor[a].proposal
        /\ actor'[a].pc = "perform" /\ actor'[a].committed = actor[a].committed
    BY <1>1, <1>4 DEF Locals, PCs
  <2>2. \A b \in Actors : KeyOf(b)' = KeyOf(b)
    BY <2>1 DEF KeyOf, Proposed
  <2>3. /\ authorizations[KeyOf(a)].holder = a /\ authorizations[KeyOf(a)].state = "AUTHORIZED"
        /\ performed[KeyOf(a)] = <<>>
    BY <1>1, <1>4 DEF Consumable, KeyOf, KeysSound
  <2>4. /\ StoreTyped'
        /\ authorizations'[KeyOf(a)].state = "CONSUMED"
        /\ authorizations'[KeyOf(a)].holder = a
        /\ \A k \in Keys \ {KeyOf(a)} : authorizations'[k] = authorizations[k]
    BY <1>1, <1>2, <1>4, <2>3 DEF States
  <2>5. KeysSound'
    BY <1>1, <1>2, <2>4 DEF KeysSound
  <2>6. PerformersSound'
    <3> SUFFICES ASSUME NEW b \in Actors, actor'[b].pc = "perform"
                 PROVE  /\ authorizations'[KeyOf(b)].holder = b
                        /\ authorizations'[KeyOf(b)].state = "CONSUMED"
                        /\ performed[KeyOf(b)] = <<>>
      BY <1>2, <2>2 DEF PerformersSound
    <3>1. CASE b = a
      BY <2>3, <2>4, <3>1
    <3>2. CASE b # a
      <4>1. /\ KeyOf(b) \in Keys
            /\ authorizations[KeyOf(b)].holder = b
            /\ authorizations[KeyOf(b)].state = "CONSUMED"
            /\ performed[KeyOf(b)] = <<>>
        BY <2>1, <3>2, ProposalAssumption DEF KeyOf, Proposed, Locals, PerformersSound
      <4> QED BY <2>3, <2>4, <4>1
    <3> QED BY <3>1, <3>2
  <2>7. OutcomesSound'
    BY <1>2, <2>1, <2>2 DEF OutcomesSound
  <2> QED BY <2>1, <2>4, <2>5, <2>6, <2>7
<1> QED BY <1>3, <1>4 DEF ConsumeAuthorization, KeyOf

\* The operation is performed by the one that holds its key, for the first time.
LEMMA PerformStep ==
  ASSUME Sound, NEW a \in Actors, Perform(a)
  PROVE  Sound'
<1> USE DEF Sound, ActorsTyped, StoreTyped, At, Step
<1>1. actor \in [Actors -> Locals] /\ actor[a] \in Locals /\ KeyOf(a) \in Keys
  BY ProposalAssumption DEF Locals, KeyOf, Proposed
<1>2. /\ UNCHANGED <<transactions, authorizations>>
      /\ actor[a].pc = "perform" /\ Received(a) \in {"evaluate", "record"}
  BY DEF Perform, Received
<1>3. CASE actor' = [actor EXCEPT ![a].pc = Received(a)] /\ UNCHANGED performed
  <2>1. /\ actor' \in [Actors -> Locals]
        /\ \A b \in Actors \ {a} : actor'[b] = actor[b]
        /\ actor'[a].proposal = actor[a].proposal
        /\ actor'[a].pc = Received(a) /\ actor'[a].committed = actor[a].committed
    BY <1>1, <1>2, <1>3 DEF Locals, PCs
  <2> QED BY <1>2, <1>3, <2>1, QuietStep DEF Outcomes
<1>4. CASE /\ performed' = [performed EXCEPT ![KeyOf(a)] = Append(@, a)]
           /\ actor' = [actor EXCEPT ![a].pc = Received(a), ![a].committed = TRUE]
  <2>1. /\ actor' \in [Actors -> Locals]
        /\ \A b \in Actors \ {a} : actor'[b] = actor[b]
        /\ actor'[a].proposal = actor[a].proposal
        /\ actor'[a].pc \in {"evaluate", "record"}
    BY <1>1, <1>2, <1>4 DEF Locals, PCs
  <2>2. \A b \in Actors : KeyOf(b)' = KeyOf(b)
    BY <2>1 DEF KeyOf, Proposed
  <2>3. /\ authorizations[KeyOf(a)].holder = a /\ authorizations[KeyOf(a)].state = "CONSUMED"
        /\ performed[KeyOf(a)] = <<>>
    BY <1>1, <1>2 DEF PerformersSound
  <2>4. /\ performed'[KeyOf(a)] = <<a>>
        /\ \A k \in Keys \ {KeyOf(a)} : performed'[k] = performed[k]
        /\ performed' \in [Keys -> Seq(Actors)]
    <3>1. Append(<<>>, a) = <<a>> /\ <<a>> \in Seq(Actors)
      OBVIOUS
    <3> QED BY <1>1, <1>4, <2>3, <3>1
  <2>5. StoreTyped' /\ KeysSound'
    BY <1>1, <1>2, <2>3, <2>4 DEF KeysSound
  <2>6. PerformersSound'
    <3> SUFFICES ASSUME NEW b \in Actors, actor'[b].pc = "perform"
                 PROVE  /\ authorizations[KeyOf(b)].holder = b
                        /\ authorizations[KeyOf(b)].state = "CONSUMED"
                        /\ performed'[KeyOf(b)] = <<>>
      BY <1>2, <2>2 DEF PerformersSound
    <3>1. b # a /\ actor[b].pc = "perform"
      BY <2>1
    <3>2. /\ KeyOf(b) \in Keys
          /\ authorizations[KeyOf(b)].holder = b
          /\ authorizations[KeyOf(b)].state = "CONSUMED"
          /\ performed[KeyOf(b)] = <<>>
      BY <3>1, ProposalAssumption DEF KeyOf, Proposed, Locals, PerformersSound
    <3>3. KeyOf(b) # KeyOf(a)
      BY <2>3, <3>1, <3>2
    <3> QED BY <2>4, <3>2, <3>3
  <2>7. OutcomesSound'
    <3> SUFFICES ASSUME NEW b \in Actors
                 PROVE  /\ actor'[b].committed /\ actor'[b].pc \notin {"idle", "close"} =>
                             performed'[KeyOf(b)] = <<b>>
                        /\ transactions'[b] = "COMMITTED" => performed'[KeyOf(b)] = <<b>>
      BY <2>2 DEF OutcomesSound
    <3>1. CASE b = a
      BY <2>4, <3>1
    <3>2. CASE b # a
      <4>1. KeyOf(b) \in Keys
        BY ProposalAssumption DEF KeyOf, Proposed, Locals
      <4>2. performed[KeyOf(b)] = <<b>> => KeyOf(b) # KeyOf(a)
        <5>1. <<>> # <<b>>
          OBVIOUS
        <5> QED BY <2>3, <5>1
      <4> QED BY <1>2, <2>1, <2>4, <3>2, <4>1, <4>2 DEF OutcomesSound
    <3> QED BY <3>1, <3>2
  <2> QED BY <2>1, <2>5, <2>6, <2>7
<1> QED BY <1>3, <1>4 DEF Perform, KeyOf

-----------------------------------------------------------------------------
\* The invariant of the action pipeline, at every program point of every actor: a key that
\* was not consumed was not performed, who is about to perform holds the consumed key, and a
\* receipt or a COMMITTED transaction is of an operation its actor performed
\* (authorize.py:35-116, execute.py:12-106, store.py:268-303).
THEOREM Soundness == Spec => []Sound
<1>1. Init => Sound
  BY InitSound
<1>2. Sound /\ [Next]_vars => Sound'
  <2> SUFFICES ASSUME Sound, [Next]_vars PROVE Sound'
    OBVIOUS
  <2>1. CASE UNCHANGED actionVars
    BY <2>1 DEF actionVars, Sound, ActorsTyped, StoreTyped, KeysSound, PerformersSound,
                OutcomesSound, At, KeyOf, Proposed
  <2>2. CASE \E a \in Actors : ActionStep(a)
    BY <2>2, BeginStep, PipelineStep, IssueStep, ConsumeStep, PerformStep DEF ActionStep
  <2> QED BY <2>1, <2>2 DEF Next, vars, actionVars
<1> QED BY <1>1, <1>2, PTL DEF Spec

\* An authorized operation is performed at most once whoever asks for its key, however often
\* its decision is presented and wherever an actor dies, and a COMMITTED transaction is of an
\* operation that its own actor performed (authorize.py:79, execute.py:62, forge.py:489).
THEOREM PerformedOnce == Spec => []PerformedAtMostOnce
<1>1. Sound => PerformedAtMostOnce
  <2> SUFFICES ASSUME Sound PROVE PerformedAtMostOnce
    OBVIOUS
  <2>1. \A k \in Keys : Len(performed[k]) <= 1
    <3> SUFFICES ASSUME NEW k \in Keys PROVE Len(performed[k]) <= 1
      OBVIOUS
    <3>1. performed[k] = <<>> \/ \E a \in Actors : performed[k] = <<a>>
      BY DEF Sound, KeysSound
    <3>2. CASE performed[k] = <<>>
      BY <3>2
    <3>3. ASSUME NEW a \in Actors, performed[k] = <<a>> PROVE Len(performed[k]) <= 1
      BY <3>3
    <3> QED BY <3>1, <3>2, <3>3
  <2>2. \A a \in Actors : transactions[a] = "COMMITTED" => a \in Performers(KeyOf(a))
    <3> SUFFICES ASSUME NEW a \in Actors, transactions[a] = "COMMITTED"
                 PROVE  a \in Performers(KeyOf(a))
      OBVIOUS
    <3>1. performed[KeyOf(a)] = <<a>>
      BY DEF Sound, OutcomesSound
    <3> QED BY <3>1 DEF Performers
  <2> QED BY <2>1, <2>2 DEF PerformedAtMostOnce, KeyOf
<1> QED BY <1>1, Soundness, PTL
-----------------------------------------------------------------------------
(* The execution graphs.                                                   *)

IsList(s) == Len(s) \in Nat /\ s = [i \in 1..Len(s) |-> s[i]]

GraphPCs == {"idle", "derive", "resolve", "compile", "execute", "deficit"}

GraphShape ==
  /\ graph = [pc |-> graph.pc, request |-> graph.request, obligations |-> graph.obligations,
              operations |-> graph.operations, state |-> graph.state, trace |-> graph.trace,
              status |-> graph.status]
  /\ graph.pc \in GraphPCs
  /\ graph.pc # "idle" => graph.request \in Requests /\ graph.status # "SUCCESS"

\* What the registry holds has its verifier's word.
Sealed(cap) ==
  /\ cap = Capability(cap.id, cap.operator, cap.effect, cap.in, cap.out, cap.authority,
                      cap.evidence, TRUE, cap.lifecycle)
  /\ cap.lifecycle \in {"VERIFIED_FOR_TASK", "PROMOTED"}
RegistrySealed == \A cap \in registry : Sealed(cap)

\* The obligation or operation is for the clause at its position, under a proof.
ForClause(made, i) ==
  /\ made[i].req = graph.request.requirements[i].id
  /\ made[i].text = graph.request.requirements[i].text
  /\ BindingHash(made[i]) \in proofs

\* Until the graph is executed, the store holds what the run began with.
StoreFresh ==
  graph.pc \in {"derive", "resolve", "compile"} =>
    graph.state = Run(graph.request).state /\ graph.trace = <<>>

ObligationsProved ==
  graph.pc = "resolve" =>
    /\ IsList(graph.obligations)
    /\ DOMAIN graph.obligations = DOMAIN graph.request.requirements
    /\ \A i \in DOMAIN graph.obligations : ForClause(graph.obligations, i)

Succeeded == graph.status = "SUCCESS"

\* An operation is for a proved obligation and promises what its contract does.
OperationsProved ==
  graph.pc \in {"compile", "execute"} \/ Succeeded =>
    /\ IsList(graph.operations)
    /\ DOMAIN graph.operations = DOMAIN graph.request.requirements
    /\ \A i \in DOMAIN graph.operations :
         /\ ForClause(graph.operations, i)
         /\ graph.operations[i].contract.out \subseteq graph.operations[i].out

\* What the gates before the execution looked at.
GraphCompiled ==
  graph.pc = "execute" \/ Succeeded =>
    \A i \in DOMAIN graph.operations :
      /\ AuthorizedIn(registry, graph.operations[i].cap)
      /\ Supplied(graph.operations, Run(graph.request).state, i)

\* The keys hold what the run began with and what the built-in capabilities before i return.
Keeps(keys, i) ==
  /\ Run(graph.request).state \subseteq keys
  /\ \A j \in 1..(i - 1) :
       IsBuiltin(graph.operations[j]) => graph.operations[j].out \subseteq keys

TraceKept ==
  graph.pc = "execute" \/ Succeeded =>
    /\ IsList(graph.trace) /\ Len(graph.trace) <= Len(graph.operations)
    /\ Keeps(graph.state, Len(graph.trace) + 1)
    /\ \A i \in DOMAIN graph.trace :
         /\ Keeps(graph.trace[i].read, i)
         /\ graph.trace[i].from = "inputs" \/ MayGuess(graph.operations[i])

GatesPassed ==
  Succeeded =>
    Len(graph.trace) = Len(graph.operations) /\ GatesPass(graph.operations, graph.state)

GraphSound ==
  /\ GraphShape /\ RegistrySealed /\ StoreFresh /\ ObligationsProved
  /\ OperationsProved /\ GraphCompiled /\ TraceKept /\ GatesPassed

\* The capabilities of the registry may all execute, whatever their lifecycle.
LEMMA SealedMayExecute ==
  ASSUME NEW cap, Sealed(cap)
  PROVE  IsAuthorizedForExecution(cap)
<1>1. cap = Capability(cap.id, cap.operator, cap.effect, cap.in, cap.out, cap.authority,
                       cap.evidence, TRUE, cap.lifecycle)
  BY DEF Sealed
<1>2. Capability(cap.id, cap.operator, cap.effect, cap.in, cap.out, cap.authority,
                 cap.evidence, TRUE, cap.lifecycle).real
  BY DEF Capability
<1> QED BY <1>1, <1>2 DEF Sealed, IsAuthorizedForExecution, AuthorizedStates

\* The best of some capabilities is one of them.
LEMMA BestIsOneOf ==
  ASSUME NEW candidates, candidates # {}, NEW effect
  PROVE  SelectBest(candidates, effect) \in candidates
<1> DEFINE exact ==
      PreferIf(candidates, {cap \in candidates : effect # "" /\ cap.effect = effect})
           best == PreferIf(exact, {cap \in exact : cap.lifecycle = "PROMOTED"})
<1>1. exact # {} /\ exact \subseteq candidates
  BY DEF PreferIf
<1> HIDE DEF exact
<1>2. best # {} /\ best \subseteq exact
  BY <1>1 DEF PreferIf
<1>3. (CHOOSE cap \in best : TRUE) \in best
  <2> HIDE DEF best
  <2> QED BY <1>2
<1>4. SelectBest(candidates, effect) = CHOOSE cap \in best : TRUE
  BY DEF SelectBest, exact
<1> QED BY <1>1, <1>2, <1>3, <1>4

\* What resolves is bound to a capability of the registry that promises what the contract does.
LEMMA SelectedFits ==
  ASSUME NEW obligation, NEW produced, NEW evidence,
         Deficit(registry, obligation, produced, evidence) = ""
  PROVE  /\ Selected(registry, obligation) \in registry
         /\ obligation.contract.out \subseteq Selected(registry, obligation).out
<1> DEFINE contract == obligation.contract
           candidates == Candidates(registry, contract)
<1>1. candidates # {}
  BY DEF Deficit
<1>2. \A cap \in candidates : cap \in registry /\ contract.out \subseteq cap.out
  BY DEF Candidates, Matching, MatchingEffect
<1>3. SelectBest(candidates, contract.effect) \in candidates
  <2> HIDE DEF candidates
  <2> QED BY <1>1, BestIsOneOf
<1> QED BY <1>2, <1>3 DEF Selected

\* A sequence is a list.
LEMMA SeqIsList ==
  ASSUME NEW S, NEW s \in Seq(S)
  PROVE  IsList(s)
<1>1. Len(s) \in Nat /\ s \in [1..Len(s) -> S]
  OBVIOUS
<1> QED BY <1>1 DEF IsList

\* What is appended to a list comes last, and the rest stays where it was.
LEMMA AppendList ==
  ASSUME NEW s, IsList(s), NEW e
  PROVE  /\ IsList(Append(s, e)) /\ Len(Append(s, e)) = Len(s) + 1
         /\ \A i \in 1..Len(s) : Append(s, e)[i] = s[i]
         /\ Append(s, e)[Len(s) + 1] = e
<1> DEFINE S == {s[i] : i \in 1..Len(s)} \cup {e}
<1>1. s \in [1..Len(s) -> S]
  BY DEF IsList
<1>2. s \in Seq(S) /\ e \in S
  BY <1>1 DEF IsList
<1> HIDE DEF S
<1>3. Append(s, e) \in Seq(S) /\ Len(Append(s, e)) = Len(s) + 1
  BY <1>2
<1>4. IsList(Append(s, e))
  BY <1>3, SeqIsList
<1> QED BY <1>2, <1>3, <1>4

\* A registry that grows, and whose capabilities are promoted, authorizes no less.
LEMMA AuthorityKept ==
  ASSUME NEW old, NEW new, NEW id,
         \A cap \in old : \E other \in new : other.id = cap.id,
         \A cap \in new : Sealed(cap),
         AuthorizedIn(old, id)
  PROVE  AuthorizedIn(new, id)
BY SealedMayExecute DEF AuthorizedIn

-----------------------------------------------------------------------------
\* Nothing has run and only what the Forge comes with is registered.
LEMMA InitGraphSound == GraphInit => GraphSound
<1> SUFFICES ASSUME GraphInit PROVE GraphSound
  OBVIOUS
<1>1. PICK request : graph = [Run(request) EXCEPT !.pc = "idle"]
  BY DEF GraphInit
<1>2. graph = [pc |-> "idle", request |-> request, obligations |-> <<>>, operations |-> <<>>,
               state |-> Run(request).state, trace |-> <<>>, status |-> "NONE"]
  BY <1>1 DEF Run
<1>3. GraphShape /\ graph.pc = "idle" /\ ~Succeeded
  <2>1. /\ graph.pc = "idle" /\ graph.request = request /\ graph.obligations = <<>>
        /\ graph.operations = <<>> /\ graph.state = Run(request).state
        /\ graph.trace = <<>> /\ graph.status = "NONE"
    BY <1>2
  <2> QED BY <1>2, <2>1 DEF GraphShape, GraphPCs, Succeeded
<1>4. RegistrySealed
  <2> SUFFICES ASSUME NEW cap \in Builtins PROVE Sealed(cap)
    BY DEF GraphInit, RegistrySealed
  <2>1. PICK id, operator, effect, in, out, authority :
          cap = Builtin(id, operator, effect, in, out, authority)
    BY DEF Builtins, SvrisBuiltins, ShadowBuiltins, ForgeBuiltins
  <2> QED BY <2>1 DEF Builtin, Sealed, Capability
<1> QED BY <1>3, <1>4 DEF GraphSound, StoreFresh, ObligationsProved, OperationsProved,
                          GraphCompiled, TraceKept, GatesPassed

\* A function on the first n positions is a list of n elements.
LEMMA FunctionIsList ==
  ASSUME NEW s, NEW n \in Nat, s = [i \in 1..n |-> s[i]]
  PROVE  IsList(s) /\ Len(s) = n
<1> DEFINE S == {s[i] : i \in 1..n}
<1>1. s \in [1..n -> S]
  OBVIOUS
<1> HIDE DEF S
<1>2. s \in Seq(S) /\ Len(s) = n
  BY <1>1
<1> QED BY <1>2, SeqIsList

\* The positions of a list.
LEMMA ListDomain ==
  ASSUME NEW s, IsList(s)
  PROVE  DOMAIN s = 1..Len(s)
BY DEF IsList

\* A run that is over and did not succeed promises nothing.
LEMMA IdleSound ==
  ASSUME GraphShape', RegistrySealed', graph'.pc = "idle", graph'.status # "SUCCESS"
  PROVE  GraphSound'
BY DEF GraphSound, StoreFresh, ObligationsProved, OperationsProved, GraphCompiled, TraceKept,
       GatesPassed, Succeeded

\* A run that ends without success, in a deficit, a refusal or a failed gate, claims nothing.
LEMMA EndSound ==
  ASSUME GraphSound, NEW status, status # "SUCCESS", End(status), UNCHANGED registry
  PROVE  GraphSound'
<1>1. graph' = [pc |-> "idle", request |-> graph.request, obligations |-> graph.obligations,
                operations |-> graph.operations, state |-> graph.state, trace |-> graph.trace,
                status |-> status]
  BY DEF End, GraphSound, GraphShape
<1>2. GraphShape' /\ graph'.pc = "idle" /\ graph'.status = status
  BY <1>1 DEF GraphShape, GraphPCs
<1> QED BY <1>2, IdleSound DEF GraphSound, RegistrySealed

\* A run begins: nothing has been derived, and the store holds its inputs.
LEMMA SubmitStep ==
  ASSUME GraphSound, Submit
  PROVE  GraphSound'
<1>1. PICK request \in Requests : graph' = Run(request)
  BY DEF Submit
<1>2. graph' = [pc |-> "derive", request |-> request, obligations |-> <<>>, operations |-> <<>>,
                state |-> Run(request).state, trace |-> <<>>, status |-> "NONE"]
  BY <1>1 DEF Run
<1>3. /\ graph'.pc = "derive" /\ graph'.request = request /\ graph'.state = Run(request).state
      /\ graph'.trace = <<>> /\ graph'.status = "NONE"
  BY <1>2
<1>4. GraphShape'
  <2>1. /\ graph'.obligations = <<>> /\ graph'.operations = <<>>
    BY <1>2
  <2> QED BY <1>2, <1>3, <2>1 DEF GraphShape, GraphPCs
<1>5. RegistrySealed'
  BY DEF Submit, GraphSound, RegistrySealed
<1>6. StoreFresh'
  BY <1>3 DEF StoreFresh
<1> QED BY <1>3, <1>4, <1>5, <1>6 DEF GraphSound, ObligationsProved, OperationsProved,
                                      GraphCompiled, TraceKept, GatesPassed, Succeeded

\* A candidate is for the requirement it was generated for.
LEMMA CandidateOf ==
  ASSUME NEW req, NEW requirements, NEW contracts, NEW proposals, NEW inputs,
         NEW c \in GenerateCandidates(req, requirements, contracts, proposals, inputs)
  PROVE  c.req = req.id /\ c.text = req.text
<1>1. \E contract, origin : c = Candidate(req, contract, origin)
  BY DEF GenerateCandidates
<1> QED BY <1>1 DEF Candidate

\* Each requirement has its obligation or its deficit, under its own position.
LEMMA EachDerived ==
  ASSUME NEW requirements, NEW contracts, NEW proposals, NEW inputs, NEW custody, NEW derived,
         derived = DeriveObligations(requirements, contracts, proposals, inputs, custody),
         DOMAIN derived.deficits = {}
  PROVE  /\ derived.obligations = [i \in DOMAIN requirements |-> derived.obligations[i]]
         /\ \A i \in DOMAIN requirements :
              /\ derived.obligations[i].req = requirements[i].id
              /\ derived.obligations[i].text = requirements[i].text
<1> DEFINE grounded(r) ==
             Grounded(GenerateCandidates(r, requirements, contracts, proposals, inputs), custody)
           single == {i \in DOMAIN requirements : Cardinality(grounded(requirements[i])) = 1}
           obligations == [i \in single |->
             Obligation(CHOOSE c \in grounded(requirements[i]) : TRUE, custody)]
           deficits == [i \in DOMAIN requirements \ single |->
             IF grounded(requirements[i]) = {} THEN "SEMANTIC_BINDING_DEFICIT" ELSE "AMBIGUOUS"]
<1>1. derived = [obligations |-> obligations, deficits |-> deficits]
  BY DEF DeriveObligations
<1> HIDE DEF grounded
<1>2. DOMAIN deficits = DOMAIN requirements \ single /\ DOMAIN obligations = single
  OBVIOUS
<1>3. obligations = [i \in single |-> obligations[i]]
  OBVIOUS
<1> HIDE DEF single, obligations, deficits
<1>4. derived.obligations = obligations /\ derived.deficits = deficits
  BY <1>1
<1>5. single \subseteq DOMAIN requirements
  BY DEF single
<1>6. single = DOMAIN requirements
  BY <1>2, <1>4, <1>5
<1>7. ASSUME NEW i \in DOMAIN requirements
      PROVE  /\ derived.obligations[i].req = requirements[i].id
             /\ derived.obligations[i].text = requirements[i].text
  <2>1. i \in single
    BY <1>6
  <2>2. grounded(requirements[i]) # {}
    <3>1. Cardinality(grounded(requirements[i])) = 1
      BY <2>1 DEF single
    <3> QED BY <3>1, FS_EmptySet
  <2>3. PICK c \in grounded(requirements[i]) :
          obligations[i] = Obligation(c, custody)
    BY <2>1, <2>2 DEF obligations
  <2>4. c.req = requirements[i].id /\ c.text = requirements[i].text
    BY <2>3, CandidateOf DEF grounded, Grounded
  <2>5. obligations[i].req = c.req /\ obligations[i].text = c.text
    BY <2>3 DEF Obligation
  <2> QED BY <1>4, <2>4, <2>5
<1> QED BY <1>3, <1>4, <1>6, <1>7

\* The proofs of all obligations are written before any of them is resolved.
LEMMA DeriveStep ==
  ASSUME GraphSound, Derive
  PROVE  GraphSound'
<1> DEFINE derived ==
      DeriveObligations(graph.request.requirements, graph.request.contracts, {},
                        graph.state, EmptyCustody)
<1>1. PICK made : made = derived
  OBVIOUS
<1>2. /\ graph.pc = "derive" /\ UNCHANGED registry
      /\ proofs' = proofs \cup {BindingHash(made.obligations[i]) : i \in DOMAIN made.obligations}
      /\ \/ DOMAIN made.deficits = {}
            /\ graph' = [graph EXCEPT !.pc = "resolve", !.obligations = made.obligations]
         \/ End("RESOLUTION_DEFICIT")
  BY <1>1 DEF Derive, In
<1>3. CASE End("RESOLUTION_DEFICIT")
  BY <1>2, <1>3, EndSound
<1>4. CASE /\ DOMAIN made.deficits = {}
           /\ graph' = [graph EXCEPT !.pc = "resolve", !.obligations = made.obligations]
  <2>1. graph' = [pc |-> "resolve", request |-> graph.request, obligations |-> made.obligations,
                  operations |-> graph.operations, state |-> graph.state, trace |-> graph.trace,
                  status |-> graph.status]
    BY <1>4 DEF GraphSound, GraphShape
  <2>2. /\ graph'.pc = "resolve" /\ graph'.request = graph.request
        /\ graph'.obligations = made.obligations /\ graph'.state = graph.state
        /\ graph'.trace = graph.trace /\ graph'.status = graph.status
        /\ graph'.operations = graph.operations
    BY <2>1
  <2>3. graph.request \in Requests /\ graph.status # "SUCCESS"
    BY <1>2 DEF GraphSound, GraphShape
  <2>4. GraphShape'
    BY <2>1, <2>2, <2>3 DEF GraphShape, GraphPCs
  <2>5. RegistrySealed' /\ StoreFresh'
    BY <1>2, <2>2 DEF GraphSound, RegistrySealed, StoreFresh
  <2>6. ObligationsProved'
    <3>1. /\ made.obligations = [i \in DOMAIN graph.request.requirements |-> made.obligations[i]]
          /\ \A i \in DOMAIN graph.request.requirements :
               /\ made.obligations[i].req = graph.request.requirements[i].id
               /\ made.obligations[i].text = graph.request.requirements[i].text
      BY <1>1, <1>4, EachDerived
    <3>2. PICK n \in Nat : DOMAIN graph.request.requirements = 1..n
      BY <2>3, ForgeAssumption
    <3>3. IsList(made.obligations)
      BY <3>1, <3>2, FunctionIsList
    <3>4. DOMAIN made.obligations = DOMAIN graph.request.requirements
      BY <3>1
    <3>5. \A i \in DOMAIN made.obligations : ForClause(graph.obligations, i)'
      BY <1>2, <2>2, <3>1, <3>4 DEF ForClause
    <3> QED BY <2>2, <3>3, <3>4, <3>5 DEF ObligationsProved
  <2> QED BY <2>2, <2>3, <2>4, <2>5, <2>6
          DEF GraphSound, OperationsProved, GraphCompiled, TraceKept, GatesPassed, Succeeded
<1> QED BY <1>2, <1>3, <1>4

\* What resolves is a list of operations, each for its obligation's binding.
LEMMA ResolveStep ==
  ASSUME GraphSound, ResolveObligations
  PROVE  GraphSound'
<1>1. PICK ops : ops = Operations(registry, graph.obligations)
  OBVIOUS
<1>2. /\ graph.pc = "resolve" /\ UNCHANGED <<registry, proofs>>
      /\ \/ /\ Resolves(registry, graph.obligations, graph.state, {})
            /\ graph' = [graph EXCEPT !.pc = "compile", !.operations = ops]
         \/ graph' = [graph EXCEPT !.pc = "deficit", !.status = "RESOLUTION_DEFICIT"]
  BY <1>1 DEF ResolveObligations, In
<1>3. graph.request \in Requests /\ graph.status # "SUCCESS"
  BY <1>2 DEF GraphSound, GraphShape
<1>4. RegistrySealed'
  BY <1>2 DEF GraphSound, RegistrySealed
<1>5. CASE graph' = [graph EXCEPT !.pc = "deficit", !.status = "RESOLUTION_DEFICIT"]
  <2>1. graph' = [pc |-> "deficit", request |-> graph.request, obligations |-> graph.obligations,
                  operations |-> graph.operations, state |-> graph.state, trace |-> graph.trace,
                  status |-> "RESOLUTION_DEFICIT"]
    BY <1>5 DEF GraphSound, GraphShape
  <2>2. /\ graph'.pc = "deficit" /\ graph'.request = graph.request
        /\ graph'.status = "RESOLUTION_DEFICIT"
    BY <2>1
  <2>3. GraphShape'
    <3>1. /\ graph'.obligations = graph.obligations /\ graph'.state = graph.state
          /\ graph'.trace = graph.trace /\ graph'.operations = graph.operations
      BY <2>1
    <3> QED BY <1>3, <2>1, <2>2, <3>1 DEF GraphShape, GraphPCs
  <2> QED BY <1>4, <2>2, <2>3 DEF GraphSound, StoreFresh, ObligationsProved, OperationsProved,
                                  GraphCompiled, TraceKept, GatesPassed, Succeeded
<1>6. CASE /\ Resolves(registry, graph.obligations, graph.state, {})
           /\ graph' = [graph EXCEPT !.pc = "compile", !.operations = ops]
  <2>1. graph' = [pc |-> "compile", request |-> graph.request, obligations |-> graph.obligations,
                  operations |-> ops, state |-> graph.state, trace |-> graph.trace,
                  status |-> graph.status]
    BY <1>6 DEF GraphSound, GraphShape
  <2>2. /\ graph'.pc = "compile" /\ graph'.request = graph.request
        /\ graph'.obligations = graph.obligations /\ graph'.state = graph.state
        /\ graph'.trace = graph.trace /\ graph'.status = graph.status
        /\ graph'.operations = ops
    BY <2>1
  <2>3. GraphShape'
    BY <1>3, <2>1, <2>2 DEF GraphShape, GraphPCs
  <2>4. StoreFresh'
    BY <1>2, <2>2 DEF GraphSound, StoreFresh
  <2>5. /\ IsList(graph.obligations)
        /\ DOMAIN graph.obligations = DOMAIN graph.request.requirements
        /\ \A i \in DOMAIN graph.obligations : ForClause(graph.obligations, i)
    BY <1>2 DEF GraphSound, ObligationsProved
  <2>6. IsList(ops) /\ DOMAIN ops = DOMAIN graph.obligations
    <3>1. ops = [i \in DOMAIN graph.obligations |-> ops[i]] /\ DOMAIN ops = DOMAIN graph.obligations
      BY <1>1 DEF Operations
    <3>2. DOMAIN graph.obligations = 1..Len(graph.obligations) /\ Len(graph.obligations) \in Nat
      BY <2>5, ListDomain DEF IsList
    <3> QED BY <3>1, <3>2, FunctionIsList
  <2>7. ASSUME NEW i \in DOMAIN ops
        PROVE  /\ ForClause(graph.operations, i)'
               /\ ops[i].contract.out \subseteq ops[i].out
    <3>1. PICK obligation : obligation = graph.obligations[i]
      OBVIOUS
    <3>2. PICK cap : cap = Selected(registry, obligation)
      OBVIOUS
    <3>3. ops[i] = InducedOperation(obligation, cap)
      BY <1>1, <2>6, <2>7, <3>1, <3>2 DEF Operations
    <3>4. /\ ops[i].req = obligation.req /\ ops[i].text = obligation.text
          /\ ops[i].contract = obligation.contract /\ ops[i].out = cap.out
      BY <3>3 DEF InducedOperation
    <3>5. \E produced : Deficit(registry, obligation, produced, {}) = ""
      BY <1>6, <2>6, <3>1 DEF Resolves
    <3>6. obligation.contract.out \subseteq cap.out
      BY <3>2, <3>5, SelectedFits
    <3>7. ForClause(graph.obligations, i)
      BY <2>5, <2>6
    <3>8. ForClause(graph.operations, i)'
      BY <1>2, <2>2, <3>1, <3>4, <3>7 DEF ForClause, BindingHash
    <3> QED BY <3>4, <3>6, <3>8
  <2>8. OperationsProved'
    BY <2>2, <2>5, <2>6, <2>7 DEF OperationsProved
  <2> QED BY <1>3, <1>4, <2>2, <2>3, <2>4, <2>8
          DEF GraphSound, ObligationsProved, GraphCompiled, TraceKept, GatesPassed, Succeeded
<1> QED BY <1>2, <1>5, <1>6

\* The gates before the execution: every clause has its operation, every input its source.
LEMMA CompileStep ==
  ASSUME GraphSound, CompileGraph
  PROVE  GraphSound'
<1>1. PICK decomposition :
        decomposition = DecompositionStatus(RequirementIds(graph.request), graph.operations,
                                            Bound(graph.operations), graph.state)
  OBVIOUS
<1>2. /\ graph.pc = "compile" /\ UNCHANGED <<registry, proofs>>
      /\ \/ /\ decomposition = "SATISFIED"
            /\ \A i \in DOMAIN graph.operations : AuthorizedIn(registry, graph.operations[i].cap)
            /\ graph' = [graph EXCEPT !.pc = "execute"]
         \/ End("REFUSED")
  BY <1>1 DEF CompileGraph, In, Compiles
<1>3. CASE End("REFUSED")
  BY <1>2, <1>3, EndSound
<1>4. CASE /\ decomposition = "SATISFIED"
           /\ \A i \in DOMAIN graph.operations : AuthorizedIn(registry, graph.operations[i].cap)
           /\ graph' = [graph EXCEPT !.pc = "execute"]
  <2>1. graph' = [pc |-> "execute", request |-> graph.request, obligations |-> graph.obligations,
                  operations |-> graph.operations, state |-> graph.state, trace |-> graph.trace,
                  status |-> graph.status]
    BY <1>4 DEF GraphSound, GraphShape
  <2>2. /\ graph'.pc = "execute" /\ graph'.request = graph.request
        /\ graph'.obligations = graph.obligations /\ graph'.state = graph.state
        /\ graph'.trace = graph.trace /\ graph'.status = graph.status
        /\ graph'.operations = graph.operations
    BY <2>1
  <2>3. graph.request \in Requests /\ graph.status # "SUCCESS"
    BY <1>2 DEF GraphSound, GraphShape
  <2>4. GraphShape'
    BY <2>1, <2>2, <2>3 DEF GraphShape, GraphPCs
  <2>5. RegistrySealed' /\ OperationsProved'
    BY <1>2, <2>2 DEF GraphSound, RegistrySealed, OperationsProved, ForClause, Succeeded
  <2>6. graph.state = Run(graph.request).state /\ graph.trace = <<>>
    BY <1>2 DEF GraphSound, StoreFresh
  <2>7. \A i \in DOMAIN graph.operations : Supplied(graph.operations, graph.state, i)
    BY <1>1, <1>4 DEF DecompositionStatus
  <2>8. GraphCompiled'
    BY <1>2, <1>4, <2>2, <2>6, <2>7 DEF GraphCompiled
  <2>9. TraceKept'
    <3>1. IsList(<<>>) /\ Len(<<>>) = 0 /\ DOMAIN <<>> = {}
      BY DEF IsList
    <3>2. Len(graph.operations) \in Nat
      BY <1>2 DEF GraphSound, OperationsProved, IsList
    <3>3. Keeps(graph.state, Len(graph.trace) + 1)
      BY <2>6, <3>1 DEF Keeps
    <3>4. Keeps(graph.state, Len(graph.trace) + 1)'
      BY <2>2, <3>3 DEF Keeps
    <3> QED BY <2>2, <2>6, <3>1, <3>2, <3>4 DEF TraceKept
  <2> QED BY <2>2, <2>3, <2>4, <2>5, <2>8, <2>9
          DEF GraphSound, StoreFresh, ObligationsProved, GatesPassed, Succeeded
<1> QED BY <1>2, <1>3, <1>4

\* An operation takes the store as it is and adds what it returns.
LEMMA ExecuteStep ==
  ASSUME GraphSound, ExecuteOperation
  PROVE  GraphSound'
<1> DEFINE n == Len(graph.trace)
           op == graph.operations[n + 1]
<1>1. /\ graph.pc = "execute" /\ n < Len(graph.operations) /\ UNCHANGED <<registry, proofs>>
      /\ \E result \in FirstCall(op) \cup SecondCall(op) :
           graph' = [graph EXCEPT
             !.state = @ \cup result.keys,
             !.trace = Append(@, [req |-> op.req, read |-> graph.state, from |-> result.from])]
  BY DEF ExecuteOperation, Executing, In, Current
<1>2. PICK keys, entry :
        /\ keys \in Returns(op)
        /\ entry.read = graph.state /\ (entry.from = "inputs" \/ MayGuess(op))
        /\ graph' = [graph EXCEPT !.state = @ \cup keys, !.trace = Append(@, entry)]
  <2>1. PICK result \in FirstCall(op) \cup SecondCall(op) :
          graph' = [graph EXCEPT
            !.state = @ \cup result.keys,
            !.trace = Append(@, [req |-> op.req, read |-> graph.state, from |-> result.from])]
    BY <1>1
  <2>2. result.keys \in Returns(op) /\ (result.from = "inputs" \/ MayGuess(op))
    BY <2>1 DEF FirstCall, SecondCall, MayGuess
  <2>3. PICK entry : entry = [req |-> op.req, read |-> graph.state, from |-> result.from]
    OBVIOUS
  <2>4. entry.read = graph.state /\ entry.from = result.from
    BY <2>3
  <2> QED BY <2>1, <2>2, <2>3, <2>4
<1>3. PICK trace : trace = Append(graph.trace, entry)
  OBVIOUS
<1>4. graph' = [pc |-> "execute", request |-> graph.request, obligations |-> graph.obligations,
                operations |-> graph.operations, state |-> graph.state \cup keys,
                trace |-> trace, status |-> graph.status]
  BY <1>1, <1>2, <1>3 DEF GraphSound, GraphShape
<1>5. /\ graph'.pc = "execute" /\ graph'.request = graph.request
      /\ graph'.obligations = graph.obligations /\ graph'.state = graph.state \cup keys
      /\ graph'.trace = trace /\ graph'.status = graph.status
      /\ graph'.operations = graph.operations
  BY <1>4
<1>6. graph.request \in Requests /\ graph.status # "SUCCESS"
  BY <1>1 DEF GraphSound, GraphShape
<1>7. GraphShape'
  BY <1>4, <1>5, <1>6 DEF GraphShape, GraphPCs
<1>8. RegistrySealed' /\ OperationsProved' /\ GraphCompiled'
  BY <1>1, <1>5 DEF GraphSound, RegistrySealed, OperationsProved, ForClause, GraphCompiled,
                    Succeeded
<1>9. /\ IsList(graph.trace) /\ n \in Nat /\ Len(graph.operations) \in Nat
      /\ Keeps(graph.state, n + 1)
      /\ \A i \in 1..n : Keeps(graph.trace[i].read, i)
      /\ \A i \in 1..n : graph.trace[i].from = "inputs" \/ MayGuess(graph.operations[i])
  BY <1>1, ListDomain DEF GraphSound, TraceKept, OperationsProved, IsList
<1>10. /\ IsList(trace) /\ Len(trace) = n + 1
       /\ \A i \in 1..n : trace[i] = graph.trace[i]
       /\ trace[n + 1] = entry
  BY <1>3, <1>9, AppendList
<1>11. Keeps(graph.state \cup keys, n + 2)
  <2>1. ASSUME NEW j \in 1..(n + 1), IsBuiltin(graph.operations[j])
        PROVE  graph.operations[j].out \subseteq graph.state \cup keys
    <3>1. CASE j = n + 1
      <4>1. keys = op.out
        BY <1>2, <2>1, <3>1 DEF Returns
      <4> QED BY <3>1, <4>1
    <3>2. CASE j \in 1..n
      BY <1>9, <2>1, <3>2 DEF Keeps
    <3> QED BY <1>9, <3>1, <3>2
  <2>2. 1..(n + 2 - 1) = 1..(n + 1)
    BY <1>9
  <2> QED BY <1>9, <2>1, <2>2 DEF Keeps
<1>12. \A i \in DOMAIN trace : Keeps(trace[i].read, i)
  <2> SUFFICES ASSUME NEW i \in 1..(n + 1) PROVE Keeps(trace[i].read, i)
    BY <1>10, ListDomain
  <2>1. CASE i \in 1..n
    BY <1>9, <1>10, <2>1
  <2>2. CASE i = n + 1
    <3>1. trace[i].read = graph.state
      BY <1>2, <1>10, <2>2
    <3> QED BY <1>9, <2>2, <3>1
  <2> QED BY <1>9, <2>1, <2>2
<1>13. \A i \in DOMAIN trace : trace[i].from = "inputs" \/ MayGuess(graph.operations[i])
  <2> SUFFICES ASSUME NEW i \in 1..(n + 1)
               PROVE  trace[i].from = "inputs" \/ MayGuess(graph.operations[i])
    BY <1>10, ListDomain
  <2>1. CASE i \in 1..n
    BY <1>9, <1>10, <2>1
  <2>2. CASE i = n + 1
    BY <1>2, <1>10, <2>2
  <2> QED BY <1>9, <2>1, <2>2
<1>14. TraceKept'
  <2>1. ASSUME NEW kept, NEW i, Keeps(kept, i)
        PROVE  /\ Run(graph'.request).state \subseteq kept
               /\ \A j \in 1..(i - 1) :
                    IsBuiltin(graph'.operations[j]) => graph'.operations[j].out \subseteq kept
    BY <1>5, <2>1 DEF Keeps
  <2>2. Len(trace) + 1 = n + 2 /\ Len(trace) <= Len(graph.operations)
    BY <1>1, <1>9, <1>10
  <2>3. Keeps(graph.state, Len(graph.trace) + 1)'
    BY <1>5, <1>11, <2>1, <2>2 DEF Keeps
  <2>4. \A i \in DOMAIN graph'.trace : Keeps(graph.trace[i].read, i)'
    BY <1>5, <1>12, <2>1 DEF Keeps
  <2>5. \A i \in DOMAIN graph'.trace :
          graph'.trace[i].from = "inputs" \/ MayGuess(graph'.operations[i])
    BY <1>5, <1>13
  <2> QED BY <1>5, <1>10, <2>2, <2>3, <2>4, <2>5 DEF TraceKept
<1> QED BY <1>5, <1>6, <1>7, <1>8, <1>14
        DEF GraphSound, StoreFresh, ObligationsProved, GatesPassed, Succeeded

\* A verifier that refuses ends the run, whatever its adapter has put into the store.
LEMMA VerifierStep ==
  ASSUME GraphSound, VerifierRefuses
  PROVE  GraphSound'
<1>1. PICK state :
        graph' = [graph EXCEPT !.pc = "idle", !.status = "FAILED", !.state = state]
  BY DEF VerifierRefuses
<1>2. graph' = [pc |-> "idle", request |-> graph.request, obligations |-> graph.obligations,
                operations |-> graph.operations, state |-> state, trace |-> graph.trace,
                status |-> "FAILED"]
  BY <1>1 DEF GraphSound, GraphShape
<1>3. /\ graph'.pc = "idle" /\ graph'.request = graph.request /\ graph'.status = "FAILED"
      /\ graph'.obligations = graph.obligations /\ graph'.operations = graph.operations
      /\ graph'.state = state /\ graph'.trace = graph.trace
  BY <1>2
<1>4. GraphShape' /\ RegistrySealed'
  BY <1>2, <1>3 DEF GraphShape, GraphPCs, GraphSound, RegistrySealed, VerifierRefuses
<1> QED BY <1>3, <1>4, IdleSound

\* SUCCESS is reported where the trace is complete and the gates have passed.
LEMMA GatesStep ==
  ASSUME GraphSound, RunGates
  PROVE  GraphSound'
<1>1. /\ graph.pc = "execute" /\ Len(graph.trace) = Len(graph.operations)
      /\ UNCHANGED <<registry, proofs>>
      /\ \/ GatesPass(graph.operations, graph.state) /\ End("SUCCESS")
         \/ End("FAILED")
  BY DEF RunGates, In
<1>2. CASE End("FAILED")
  BY <1>1, <1>2, EndSound
<1>3. CASE GatesPass(graph.operations, graph.state) /\ End("SUCCESS")
  <2>1. graph' = [pc |-> "idle", request |-> graph.request, obligations |-> graph.obligations,
                  operations |-> graph.operations, state |-> graph.state, trace |-> graph.trace,
                  status |-> "SUCCESS"]
    BY <1>3 DEF End, GraphSound, GraphShape
  <2>2. /\ graph'.pc = "idle" /\ graph'.request = graph.request
        /\ graph'.obligations = graph.obligations /\ graph'.state = graph.state
        /\ graph'.trace = graph.trace /\ graph'.status = "SUCCESS"
        /\ graph'.operations = graph.operations
    BY <2>1
  <2>3. GraphShape'
    BY <2>1, <2>2 DEF GraphShape, GraphPCs
  <2>4. RegistrySealed' /\ OperationsProved' /\ GraphCompiled'
    BY <1>1, <2>2 DEF GraphSound, RegistrySealed, OperationsProved, ForClause, GraphCompiled
  <2>5. TraceKept'
    BY <1>1, <2>2 DEF GraphSound, TraceKept, Keeps
  <2>6. GatesPassed'
    BY <1>1, <1>3, <2>2 DEF GatesPassed, GatesPass
  <2> QED BY <2>2, <2>3, <2>4, <2>5, <2>6 DEF GraphSound, StoreFresh, ObligationsProved
<1> QED BY <1>1, <1>2, <1>3

\* A capability is registered under a new identifier, with its verifier's word.
LEMMA ProvisionStep ==
  ASSUME GraphSound, Provision
  PROVE  GraphSound'
<1>1. graph.pc = "deficit" /\ graph' = [graph EXCEPT !.pc = "idle"]
  BY DEF Provision, In
<1>2. graph' = [pc |-> "idle", request |-> graph.request, obligations |-> graph.obligations,
                operations |-> graph.operations, state |-> graph.state, trace |-> graph.trace,
                status |-> graph.status]
  BY <1>1 DEF GraphSound, GraphShape
<1>3. /\ graph'.pc = "idle" /\ graph'.request = graph.request
      /\ graph'.obligations = graph.obligations /\ graph'.operations = graph.operations
      /\ graph'.state = graph.state /\ graph'.trace = graph.trace
      /\ graph'.status = graph.status
  BY <1>2
<1>4. GraphShape' /\ graph'.status # "SUCCESS"
  BY <1>1, <1>2, <1>3 DEF GraphShape, GraphPCs, GraphSound
<1>5. RegistrySealed'
  <2> SUFFICES ASSUME NEW cap \in registry' PROVE Sealed(cap)
    BY DEF RegistrySealed
  <2>1. cap \in registry \/ cap \in Provisionable
    BY DEF Provision
  <2>2. CASE cap \in registry
    BY <2>2 DEF GraphSound, RegistrySealed
  <2>3. CASE cap \in Provisionable
    <3>1. cap = Capability(cap.id, cap.operator, cap.effect, cap.in, cap.out, {}, {}, TRUE,
                           "VERIFIED_FOR_TASK")
      BY <2>3, ForgeAssumption
    <3>2. /\ cap.authority = {} /\ cap.evidence = {} /\ cap.lifecycle = "VERIFIED_FOR_TASK"
      <4> DEFINE sealed == Capability(cap.id, cap.operator, cap.effect, cap.in, cap.out, {}, {},
                                      TRUE, "VERIFIED_FOR_TASK")
      <4>1. /\ sealed.authority = {} /\ sealed.evidence = {}
            /\ sealed.lifecycle = "VERIFIED_FOR_TASK"
        BY DEF Capability
      <4> HIDE DEF sealed
      <4>2. cap = sealed
        BY <3>1 DEF sealed
      <4> QED BY <4>1, <4>2
    <3> QED BY <3>1, <3>2 DEF Sealed
  <2> QED BY <2>1, <2>2, <2>3
<1> QED BY <1>3, <1>4, <1>5, IdleSound

\* A promoted capability keeps its identifier and its place.
LEMMA PromoteStep ==
  ASSUME GraphSound, PromoteCapability
  PROVE  GraphSound'
<1>1. PICK cap \in registry :
        registry' = (registry \ {cap}) \cup {[cap EXCEPT !.lifecycle = "PROMOTED"]}
  BY DEF PromoteCapability
<1>2. PICK promoted : promoted = [cap EXCEPT !.lifecycle = "PROMOTED"]
  OBVIOUS
<1>3. Sealed(cap)
  BY DEF GraphSound, RegistrySealed
<1>4. promoted.id = cap.id /\ Sealed(promoted)
  <2>1. promoted = Capability(cap.id, cap.operator, cap.effect, cap.in, cap.out, cap.authority,
                              cap.evidence, TRUE, "PROMOTED")
    <3>1. PICK real : real = TRUE
      OBVIOUS
    <3>2. cap = [id |-> cap.id, operator |-> cap.operator, effect |-> cap.effect, in |-> cap.in,
                 out |-> cap.out, authority |-> cap.authority, evidence |-> cap.evidence,
                 real |-> real, lifecycle |-> cap.lifecycle]
      BY <1>3, <3>1 DEF Sealed, Capability
    <3>3. promoted = [id |-> cap.id, operator |-> cap.operator, effect |-> cap.effect,
                      in |-> cap.in, out |-> cap.out, authority |-> cap.authority,
                      evidence |-> cap.evidence, real |-> real, lifecycle |-> "PROMOTED"]
      BY <1>2, <3>2
    <3> QED BY <3>1, <3>3 DEF Capability
  <2>2. /\ promoted.id = cap.id /\ promoted.operator = cap.operator
        /\ promoted.effect = cap.effect /\ promoted.in = cap.in /\ promoted.out = cap.out
        /\ promoted.authority = cap.authority /\ promoted.evidence = cap.evidence
        /\ promoted.lifecycle = "PROMOTED"
    BY <2>1 DEF Capability
  <2> QED BY <2>1, <2>2 DEF Sealed
<1>5. /\ \A other \in registry' : Sealed(other)
      /\ \A one \in registry : \E other \in registry' : other.id = one.id
  BY <1>1, <1>2, <1>4 DEF GraphSound, RegistrySealed
<1>6. \A id : AuthorizedIn(registry, id) => AuthorizedIn(registry', id)
  BY <1>5, AuthorityKept
<1>7. UNCHANGED <<graph, proofs>>
  BY DEF PromoteCapability
<1>8. GraphCompiled'
  BY <1>6, <1>7 DEF GraphSound, GraphCompiled, Succeeded
<1>9. RegistrySealed'
  BY <1>5 DEF RegistrySealed
<1> QED BY <1>7, <1>8, <1>9
        DEF GraphSound, GraphShape, StoreFresh, ObligationsProved, OperationsProved, ForClause,
            TraceKept, GatesPassed, Keeps, Succeeded

\* The invariant is about the execution graphs alone.
LEMMA GraphUnchanged ==
  ASSUME GraphSound, UNCHANGED graphVars
  PROVE  GraphSound'
BY DEF graphVars, GraphSound, GraphShape, RegistrySealed, StoreFresh, ObligationsProved,
       OperationsProved, ForClause, GraphCompiled, TraceKept, GatesPassed, Keeps, Succeeded

-----------------------------------------------------------------------------
\* The invariant of the execution graphs: until the gates before the execution have passed
\* the store is what the run began with, every operation has its proof and a capability of the
\* registry that promises what its contract does, and the trace grows with the store
\* (forge.py:199-353, resolution.py:69-253, compiler.py:188-252, provisioner.py:158-176).
THEOREM GraphSoundness == Spec => []GraphSound
<1>1. Init => GraphSound
  BY InitGraphSound DEF Init
<1>2. GraphSound /\ [Next]_vars => GraphSound'
  <2> SUFFICES ASSUME GraphSound, [Next]_vars PROVE GraphSound'
    OBVIOUS
  <2>1. CASE UNCHANGED graphVars
    BY <2>1, GraphUnchanged
  <2>2. CASE GraphStep
    <3>1. CASE OperationFails
      BY <3>1, EndSound DEF OperationFails
    <3> QED BY <2>2, <3>1, SubmitStep, DeriveStep, ResolveStep, CompileStep, ExecuteStep,
               VerifierStep, GatesStep, ProvisionStep, PromoteStep DEF GraphStep
  <2> QED BY <2>1, <2>2 DEF Next, vars
<1> QED BY <1>1, <1>2, PTL DEF Spec

\* For every clause of a run that ends in SUCCESS an operation ran, with its inputs at hand but
\* for what a provisioned capability before it promised, on a capability that may execute,
\* under a proof of exactly the clause, its text and the contract; what the contract promises
\* is in the final state, and was computed from those inputs unless the capability is the
\* calculator or a provisioned one (forge.py:96-353, compiler.py:179-274).
THEOREM SuccessEarned == Spec => []SuccessIsEarned
<1>1. GraphSound => SuccessIsEarned
  <2> SUFFICES ASSUME GraphSound, graph.status = "SUCCESS",
                      NEW clause \in ToSet(graph.request.requirements)
               PROVE  \E i \in DOMAIN graph.trace :
                        LET op == graph.operations[i] IN
                        /\ op.req = clause.id /\ <<clause.id, clause.text, op.contract>> \in proofs
                        /\ AuthorizedIn(registry, op.cap)
                        /\ op.in \subseteq graph.trace[i].read \cup Promised(i)
                        /\ op.contract.out \subseteq graph.state
                        /\ graph.trace[i].from = "inputs" \/ MayGuess(op)
    BY DEF SuccessIsEarned
  <2> USE DEF Succeeded
  <2>1. PICK i \in DOMAIN graph.request.requirements : graph.request.requirements[i] = clause
    BY DEF ToSet
  <2> DEFINE op == graph.operations[i]
  <2>2. /\ IsList(graph.trace) /\ IsList(graph.operations)
        /\ Len(graph.trace) = Len(graph.operations)
        /\ i \in DOMAIN graph.operations
    BY <2>1 DEF GraphSound, TraceKept, OperationsProved, GatesPassed
  <2>3. i \in DOMAIN graph.trace /\ i \in 1..Len(graph.operations)
    BY <2>2, ListDomain
  <2>4. /\ op.req = clause.id /\ <<clause.id, clause.text, op.contract>> \in proofs
        /\ op.contract.out \subseteq op.out
    BY <2>1, <2>2 DEF GraphSound, OperationsProved, ForClause, BindingHash
  <2>5. AuthorizedIn(registry, op.cap)
    BY <2>2 DEF GraphSound, GraphCompiled
  <2>6. op.out \subseteq graph.state
    BY <2>2 DEF GraphSound, GatesPassed, GatesPass
  <2>7. op.in \subseteq graph.trace[i].read \cup Promised(i)
    <3>1. Keeps(graph.trace[i].read, i)
      BY <2>3 DEF GraphSound, TraceKept
    <3>2. ASSUME NEW key \in op.in PROVE key \in graph.trace[i].read \cup Promised(i)
      <4>1. \/ key \in Run(graph.request).state
            \/ \E j \in 1..(i - 1) : key \in graph.operations[j].out
        BY <2>2, <3>2 DEF GraphSound, GraphCompiled, Supplied
      <4>2. CASE key \in Run(graph.request).state
        BY <3>1, <4>2 DEF Keeps
      <4>3. ASSUME NEW j \in 1..(i - 1), key \in graph.operations[j].out
            PROVE  key \in graph.trace[i].read \cup Promised(i)
        <5>1. CASE IsBuiltin(graph.operations[j])
          BY <3>1, <4>3, <5>1 DEF Keeps
        <5>2. CASE ~IsBuiltin(graph.operations[j])
          BY <4>3, <5>2 DEF Promised
        <5> QED BY <5>1, <5>2
      <4> QED BY <4>1, <4>2, <4>3
    <3> QED BY <3>2
  <2>8. graph.trace[i].from = "inputs" \/ MayGuess(op)
    BY <2>3 DEF GraphSound, TraceKept
  <2> QED BY <2>3, <2>4, <2>5, <2>6, <2>7, <2>8
<1> QED BY <1>1, GraphSoundness, PTL
=============================================================================
