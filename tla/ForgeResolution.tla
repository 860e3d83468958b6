-------------------------- MODULE ForgeResolution --------------------------
(***************************************************************************)
(* What the Forge makes of an intent before anything runs.  First the      *)
(* meaning: IntentCoverageEvaluator (core/adequacy.py), the candidate      *)
(* contracts of core/obligations.py, the authority that grounds one, and   *)
(* the obligations that follow.  Then the operations: CapabilityRegistry   *)
(* (core/registry.py), GroundedSatisfactionResolver (core/resolution.py),  *)
(* and the gates that look at the operations again before they run:        *)
(* decomposition.py, closure.py and ExecutionGraphCompiler.compile.        *)
(*                                                                         *)
(* A requirement is a record [id, text, topics]: the text of its clause,   *)
(* and the word lists of the generator that the text meets ("extract",     *)
(* "ast", "dag").  Contracts name their inputs and outputs by key.         *)
(* custody is what the kernel's database holds: the bindings approved, the *)
(* pairs of a requirement and an effect of a VERIFIED domain authority,    *)
(* and the VERIFIED evidence.                                              *)
(*                                                                         *)
(* A registry is a set of capabilities [id, operator, effect, in, out,     *)
(* authority, evidence, real, lifecycle]; effect is "" when the manifest   *)
(* names none, real is whether its kind may satisfy production closure.    *)
(* Every manifest here has a verifier, so its presence decides nothing.    *)
(***************************************************************************)
EXTENDS FiniteSets, Sequences, SequencesExt, Naturals

EvaluateAdequacy(clauses, requirements, dispositions, gated, authorized) ==
  IF clauses \ DOMAIN dispositions # {} THEN "SOURCE_UNCOVERED"
  ELSE IF \E r \in requirements :
            r.origin = "DOMAIN_DERIVED" /\ r.domain \notin authorized \cup {""}
    THEN "DOMAIN_REQUIREMENTS_UNVERIFIED"
  ELSE IF \/ \E r \in requirements : r.origin = "ASSUMED" /\ r.id \notin gated
          \/ \E c \in DOMAIN dispositions : dispositions[c] = "AMBIGUOUS" /\ c \notin gated
    THEN "SOURCE_AMBIGUOUS"
  ELSE "ADEQUATE_FOR_EXECUTION"

-----------------------------------------------------------------------------
Contract(effect, in, out, evidence, authority) ==
  [effect |-> effect, in |-> in, out |-> out, evidence |-> evidence, authority |-> authority]

\* The contracts the generator writes itself, with what they ask of the inputs and the text.
TextContract ==
  Contract("DATA_EXTRACTION", {"source_text"}, {"extracted_evidence", "claims"}, {}, {})
SourceContract ==
  Contract("AST_VERIFICATION", {"source_code"}, {"ast_ok", "violations", "syntax_valid"}, {}, {})
TasksContract ==
  Contract("TOPOLOGICAL_SORT", {"tasks"}, {"sorted_dag", "has_cycles", "node_count"}, {}, {})

Invariants(req, inputs) ==
  IF "extract" \in req.topics /\ inputs \cap {"source_text", "text"} # {} THEN {TextContract}
  ELSE IF "ast" \in req.topics /\ "source_code" \in inputs THEN {SourceContract}
  ELSE IF "dag" \in req.topics /\ "tasks" \in inputs THEN {TasksContract}
  ELSE {}

\* The caller's contracts are pairs of a requirement ("" when it names none) and a contract;
\* a single one stands for a single requirement whatever it names.
Structured(req, requirements, contracts) ==
  LET own == {c \in contracts : c[1] = req.id} IN
  IF own # {} THEN own
  ELSE IF Cardinality(contracts) = 1 /\ Len(requirements) = 1 THEN contracts ELSE {}

Candidate(req, contract, origin) ==
  [req |-> req.id, text |-> req.text, contract |-> contract, origin |-> origin]

GenerateCandidates(req, requirements, contracts, proposals, inputs) ==
  LET own == Structured(req, requirements, contracts) IN
  IF own # {}
    THEN {Candidate(req, (CHOOSE c \in own : TRUE)[2], "INGRESS_STRUCTURED_CONTRACT")}
  ELSE IF Invariants(req, inputs) # {}
    THEN {Candidate(req, c, "SYSTEM_INVARIANT_PREDICATE") : c \in Invariants(req, inputs)}
  ELSE {Candidate(req, Contract(p[2].effect, p[2].in, p[2].out, {}, {}), "MODEL_PROPOSAL") :
          p \in {q \in proposals : q[1] \in {req.id, ""}}}

\* The binding a proof or an approval is of: the requirement with its text and the contract.
BindingHash(candidate) == <<candidate.req, candidate.text, candidate.contract>>

AuthoritySource(candidate, custody) ==
  CASE candidate.origin = "INGRESS_STRUCTURED_CONTRACT" -> "SOURCE_EXPLICIT_CONTRACT"
    [] candidate.origin = "SYSTEM_INVARIANT_PREDICATE" -> "SYSTEM_INVARIANT"
    [] OTHER ->
       IF BindingHash(candidate) \in custody.approved THEN "EXPLICIT_HUMAN_APPROVAL"
       ELSE IF <<candidate.req, candidate.contract.effect>> \in custody.domain
         THEN "VERIFIED_DOMAIN_AUTHORITY"
       ELSE IF candidate.contract.evidence \cap custody.evidence # {}
         THEN "AUTHORITATIVE_EXTERNAL_EVIDENCE"
       ELSE "NONE"

Grounded(candidates, custody) == {c \in candidates : AuthoritySource(c, custody) # "NONE"}

Obligation(candidate, custody) ==
  [req |-> candidate.req, text |-> candidate.text, contract |-> candidate.contract,
   source |-> AuthoritySource(candidate, custody)]

\* derive_obligations: one grounded interpretation is an obligation, none or several a deficit,
\* each under the position of its requirement.
DeriveObligations(requirements, contracts, proposals, inputs, custody) ==
  LET grounded(r) ==
        Grounded(GenerateCandidates(r, requirements, contracts, proposals, inputs), custody)
      one(r) == Cardinality(grounded(r)) = 1
      single == {i \in DOMAIN requirements : one(requirements[i])}
  IN [obligations |-> [i \in single |->
        Obligation(CHOOSE c \in grounded(requirements[i]) : TRUE, custody)],
      deficits |-> [i \in DOMAIN requirements \ single |->
        IF grounded(requirements[i]) = {} THEN "SEMANTIC_BINDING_DEFICIT" ELSE "AMBIGUOUS"]]

-----------------------------------------------------------------------------
Capability(id, operator, effect, in, out, authority, evidence, real, lifecycle) ==
  [id |-> id, operator |-> operator, effect |-> effect, in |-> in, out |-> out,
   authority |-> authority, evidence |-> evidence, real |-> real, lifecycle |-> lifecycle]

Builtin(id, operator, effect, in, out, authority) ==
  Capability(id, operator, effect, in, out, authority, {}, TRUE, "PROMOTED")

SvrisBuiltins ==
  {Builtin("svris_contradiction_detector", "COMPARE", "CONTRADICTION_DETECTION",
           {"claims"}, {"contradictions", "has_conflict"}, {}),
   Builtin("svris_structured_extractor", "EXTRACT", "DATA_EXTRACTION",
           {"source_text"}, {"extracted_evidence", "claims"}, {})}
ShadowBuiltins ==
  {Builtin("shadow_dag_decomposer", "DECOMPOSE", "TOPOLOGICAL_SORT",
           {"tasks"}, {"sorted_dag", "has_cycles", "node_count"}, {}),
   Builtin("shadow_ast_security_gate", "VALIDATE", "AST_VERIFICATION",
           {"source_code"}, {"ast_ok", "violations", "syntax_valid"}, {}),
   Builtin("shadow_sterile_pytest", "TEST", "PYTEST_EXECUTION",
           {"test_file"}, {"exit_code", "passed", "status"}, {"SUBPROCESS_EXECUTE"})}
ForgeBuiltins ==
  {Builtin("forge_sandbox_file_adapter", "ACT", "STATE_MUTATION",
           {"target", "payload"}, {"committed", "path", "bytes_written", "file_hash"},
           {"SANDBOX_FILE_WRITE"}),
   Builtin("forge_authorization_gate", "DECIDE", "AUTHORIZATION_DECISION",
           {"proposal"}, {"decision", "authorized", "operation_hash"}, {}),
   Builtin("forge_math_calculator", "CALCULATE", "CALCULATION",
           {"force", "area"}, {"shear_stress_mpa"}, {})}
Builtins == SvrisBuiltins \cup ShadowBuiltins \cup ForgeBuiltins

AuthorizedStates ==
  {"VERIFIED_FOR_TASK", "PROVISIONALLY_AVAILABLE", "REUSE_VERIFIED", "PROMOTED"}
IsAuthorizedForExecution(cap) == cap.real /\ cap.lifecycle \in AuthorizedStates

\* find_capabilities_matching_contracts: what is left empty asks for nothing, and a capability
\* without an effect matches every effect.
Matching(registry, contract) ==
  {cap \in registry :
     /\ IsAuthorizedForExecution(cap)
     /\ contract.out \subseteq cap.out
     /\ contract.in # {} => cap.in \subseteq contract.in
     /\ contract.effect # "" => cap.effect \in {"", contract.effect}
     /\ contract.authority # {} => cap.authority \subseteq contract.authority}

\* When none matches, the effect or the operator and the outputs are enough.
MatchingEffect(registry, contract) ==
  {cap \in registry :
     /\ IsAuthorizedForExecution(cap)
     /\ contract.effect \in {cap.effect, cap.operator} \ {""}
     /\ contract.out \subseteq cap.out}

Candidates(registry, contract) ==
  IF Matching(registry, contract) # {} THEN Matching(registry, contract)
  ELSE MatchingEffect(registry, contract)

\* select_best_capability: the effect counts before the lifecycle, of which the registry only
\* ever holds two; ties have one fixed winner.
PreferIf(candidates, preferred) == IF preferred # {} THEN preferred ELSE candidates
SelectBest(candidates, effect) ==
  LET exact == PreferIf(candidates, {cap \in candidates : effect # "" /\ cap.effect = effect})
      best == PreferIf(exact, {cap \in exact : cap.lifecycle = "PROMOTED"})
  IN CHOOSE cap \in best : TRUE

Unrepresentable == {"UNKNOWN_REPRESENTATION", "UNREPRESENTABLE_EFFECT"}
DefaultAuthority == {"SANDBOX_FILE_WRITE", "SUBPROCESS_EXECUTE", "LOCAL_IO"}

\* The operation an obligation induces, named after it.
InducedOperation(obligation, cap) ==
  [req |-> obligation.req, text |-> obligation.text, source |-> obligation.source,
   contract |-> obligation.contract, cap |-> cap.id, in |-> cap.in, out |-> cap.out]

\* The deficit of an obligation for the capability selected, "" when there is none.
DeficitWith(obligation, cap, produced, evidence) ==
  IF ~(cap.in \subseteq produced) THEN "INPUT_DEFICIT"
  ELSE IF ~(obligation.contract.evidence \cup cap.evidence \subseteq evidence)
    THEN "EVIDENCE_DEFICIT"
  ELSE IF ~(cap.authority \subseteq DefaultAuthority) THEN "AUTHORITY_DEFICIT" ELSE ""

Deficit(registry, obligation, produced, evidence) ==
  IF obligation.contract.effect \in Unrepresentable THEN "REPRESENTATION_DEFICIT"
  ELSE LET candidates == Candidates(registry, obligation.contract) IN
       IF candidates = {} THEN "CAPABILITY_DEFICIT"
       ELSE DeficitWith(obligation, SelectBest(candidates, obligation.contract.effect),
                        produced, evidence)

Selected(registry, obligation) ==
  SelectBest(Candidates(registry, obligation.contract), obligation.contract.effect)

\* The operations of obligations that all resolve, in their order.
Operations(registry, obligations) ==
  [i \in DOMAIN obligations |->
     InducedOperation(obligations[i], Selected(registry, obligations[i]))]

\* resolve: each obligation with what the inputs and the ones before it produce.  What the
\* code goes on to collect after a first deficit is only reported.
Resolves(registry, obligations, inputs, evidence) ==
  \A i \in DOMAIN obligations :
    LET before == Operations(registry, [j \in 1..(i - 1) |-> obligations[j]]) IN
    Deficit(registry, obligations[i], inputs \cup UNION {before[j].out : j \in DOMAIN before},
            evidence) = ""

-----------------------------------------------------------------------------
(* The gates on the operations.  Verified are the requirements whose        *)
(* operation has a verification contract.                                  *)

\* Inputs come from the environment or an operation before.
Supplied(operations, inputs, i) ==
  operations[i].in \subseteq inputs \cup UNION {operations[j].out : j \in 1..(i - 1)}

DecompositionStatus(requirements, operations, verified, inputs) ==
  IF /\ \A i \in DOMAIN operations : Supplied(operations, inputs, i)
     /\ \A r \in requirements : \E i \in DOMAIN operations : operations[i].req = r
     /\ \A i \in DOMAIN operations : operations[i].req \in verified
  THEN "SATISFIED" ELSE "INSUFFICIENT"

AuthorizedIn(registry, id) == \E cap \in registry : cap.id = id /\ IsAuthorizedForExecution(cap)

EvaluateClosure(registry, operations, evidence) ==
  \A i \in DOMAIN operations :
    /\ AuthorizedIn(registry, operations[i].cap)
    /\ \A cap \in registry : cap.id = operations[i].cap => cap.in \subseteq operations[i].in
    /\ operations[i].contract.evidence \subseteq evidence

Compiles(registry, operations, adequate, decomposition, closed) ==
  /\ adequate = "ADEQUATE_FOR_EXECUTION" /\ closed /\ decomposition = "SATISFIED"
  /\ \A i \in DOMAIN operations : AuthorizedIn(registry, operations[i].cap)
=============================================================================
