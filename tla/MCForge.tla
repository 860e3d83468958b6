------------------------------- MODULE MCForge ------------------------------
EXTENDS Forge, TLC

CONSTANTS a1, a2, k1, k2

Operation(content, safe) == [target |-> "file", content |-> content, safe |-> safe]
Text == Operation("text", TRUE)
Proposal(key, operation, allowed) == [key |-> key, operation |-> operation, allowed |-> allowed]
SomeProposals ==
  {Proposal(k1, Text, TRUE), Proposal(k2, Operation("empty", TRUE), TRUE),
   Proposal(k1, Operation("text", FALSE), TRUE), Proposal(k2, Text, FALSE)}
FilesOfGraphs == {Operation("empty", TRUE), Text}

Requirement(i, topics) == [id |-> i, text |-> "t1", topics |-> topics]
Calculation == Contract("CALCULATION", {"force", "area"}, {"shear_stress_mpa"}, {}, {})
Mutation == Contract("STATE_MUTATION", {"target", "payload"}, {"committed"}, {}, {})
\* The effect named as the capability's operator.
Operated == Contract("CALCULATE", {"force", "area"}, {"shear_stress_mpa"}, {}, {})
Decision == Contract("AUTHORIZATION_DECISION", {"proposal"}, {"authorized"}, {}, {})
Normalizing == Contract("NORMALIZATION", {"text"}, {"parsed"}, {}, {})
Measured == Contract("CALCULATION", {"force", "area"}, {"shear_stress_mpa"}, {"ev"}, {})
Summary == Contract("NORMALIZATION", {"parsed"}, {"summary"}, {}, {})
Unknown == Contract("UNKNOWN_REPRESENTATION", {}, {}, {}, {})

Request(requirements, contracts, inputs) ==
  [requirements |-> requirements, contracts |-> contracts, inputs |-> inputs]
One == <<Requirement("r1", {})>>
\* A requirement's identifier is its position, so other intents have the same with other texts.
Other == <<[Requirement("r1", {}) EXCEPT !.text = "t2"]>>
AllRequests ==
  {Request(<<>>, {}, {}),
   Request(<<Requirement("r1", {"extract"}), Requirement("r2", {"ast", "dag"})>>, {},
           {"source_code", "tasks"}),
   Request(<<Requirement("r1", {"dag"})>>, {}, {"tasks"}),
   Request(<<Requirement("r1", {"dag"}), Requirement("r2", {"extract"})>>, {}, {}),
   Request(One, {<<"", Calculation>>}, {"force", "area"}),
   Request(Other, {<<"", Calculation>>}, {"force", "area"}),
   Request(One, {<<"", Calculation>>}, {"force"}),
   Request(One, {<<"", Operated>>}, {"force", "area"}),
   Request(One, {<<"r1", Mutation>>}, {"target", "payload"}),
   Request(One, {<<"r1", Decision>>}, {"proposal"}),
   Request(One, {<<"r1", Normalizing>>}, {}),
   Request(One, {<<"r1", Measured>>}, {"force", "area"}),
   Request(One, {<<"r1", Unknown>>}, {}),
   Request(<<Requirement("r1", {}), Requirement("r2", {})>>,
           {<<"r1", Normalizing>>, <<"r2", Summary>>}, {})}

\* The second works on what the first promises, and hands it on.
Provided(id, in, out) ==
  Capability(id, "TRANSFORM", "", in, out, {}, {}, TRUE, "VERIFIED_FOR_TASK")
SomeProvisionable ==
  {Provided("cap_prov_1", {"text"}, {"parsed", "result"}),
   Provided("cap_prov_2", {"parsed"}, {"parsed", "summary"})}

Symmetry == Permutations(Actors)

-----------------------------------------------------------------------------
(* The functions of the pipeline on inputs no run of the two above gives them. *)

Registries == {Builtins \cup more : more \in SUBSET SomeProvisionable}
StoreOf(request) == Run(request).state
DerivedOf(request) ==
  DeriveObligations(request.requirements, request.contracts, {}, StoreOf(request), EmptyCustody)

\* What the resolver accepts, the gates on decomposition, closure and compilation accept too:
\* for the requests of production, they refuse nothing of their own (forge.py:282-331).
ASSUME GatesAgree ==
  \A request \in AllRequests, capabilities \in Registries :
    LET obligations == DerivedOf(request).obligations
        operations == Operations(capabilities, obligations) IN
    /\ DOMAIN DerivedOf(request).deficits = {}
    /\ Resolves(capabilities, obligations, StoreOf(request), {})
    => Compiles(capabilities, operations, Adequacy(request),
                DecompositionStatus(RequirementIds(request), operations, Bound(operations),
                                    StoreOf(request)),
                EvaluateClosure(capabilities, operations, {}))

Proposals2 == {<<"r1", Calculation>>, <<"", Measured>>, <<"r1", Mutation>>}
Custodies ==
  [approved : SUBSET {<<"r1", "t1", Contract(c.effect, c.in, c.out, {}, {})>> :
                       c \in {Calculation, Mutation}},
   domain : SUBSET {<<"r1", "CALCULATION">>, <<"r1", "STATE_MUTATION">>}, evidence : SUBSET {"ev"}]

\* A model's proposal becomes an obligation only when a person approved exactly its binding or
\* a domain authority names its effect, and two that are grounded are a deficit; the path by
\* external evidence grounds none, for the generator drops a proposal's evidence
\* (obligations.py:256-283, 371-450).
ASSUME ProposalsNeedAuthority ==
  \A proposals \in SUBSET Proposals2, custody \in Custodies :
    LET derived == DeriveObligations(One, {}, proposals, {}, custody) IN
    /\ \A i \in DOMAIN derived.obligations :
         LET o == derived.obligations[i] IN
         \/ o.source = "EXPLICIT_HUMAN_APPROVAL" /\ BindingHash(o) \in custody.approved
         \/ o.source = "VERIFIED_DOMAIN_AUTHORITY" /\ <<"r1", o.contract.effect>> \in custody.domain
    /\ DOMAIN derived.obligations \cup DOMAIN derived.deficits = {1}

Origins == [id : {"r"}, origin : {"SOURCE_EXPLICIT", "DOMAIN_DERIVED", "ASSUMED"}, domain : {"", "d"}]

\* An objective is adequate only when every clause has a disposition and everything assumed or
\* ambiguous has a human gate (adequacy.py:119-168).
ASSUME NothingIsDropped ==
  \A traced, gated \in SUBSET {"c1", "c2"}, ambiguous \in SUBSET {"c1", "c2"}, r \in Origins :
    EvaluateAdequacy({"c1", "c2"}, {r}, [c \in traced |-> IF c \in ambiguous THEN "AMBIGUOUS"
                                                        ELSE "PRESERVED"], gated, {}) =
      "ADEQUATE_FOR_EXECUTION" =>
      traced = {"c1", "c2"} /\ ambiguous \subseteq gated /\ r.origin # "ASSUMED"
=============================================================================
