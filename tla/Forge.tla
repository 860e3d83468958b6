-------------------------------- MODULE Forge -------------------------------
(***************************************************************************)
(* The two ways through the Forge on one sandbox directory: the action     *)
(* pipeline of ForgeActions, and ForgeEngine.run (Forge/forge.py):         *)
(* requirements, obligations with their proofs, operations, gates, and the *)
(* execution of the graph by core/compiler.py, operation by operation, on  *)
(* one store of keys.  A run that ends in a deficit is followed by         *)
(* CapabilityProvisioner (core/provisioner.py) and by a run on the larger  *)
(* registry.                                                               *)
(*                                                                         *)
(* A request is a record [requirements, contracts, inputs]: the clauses of *)
(* the intent, the caller's contracts and the keys the caller supplies.    *)
(* Values are left out: a key of the store is present or it is not, and an *)
(* entry of the trace says where the result came from: from the inputs     *)
(* ("inputs"), from nothing ("default"), or from an adapter that was given *)
(* the whole store ("store").  run passes no model proposals on, so what   *)
(* the kernel's custody holds makes no difference to it; it writes the     *)
(* proofs there.                                                           *)
(***************************************************************************)
EXTENDS ForgeResolution, ForgeActions

CONSTANTS Requests, Provisionable, SandboxOperations

\* The clauses of an intent are a list (forge.py:161-182), and what the provisioner registers
\* needs no authority and no evidence, and is verified for its task (provisioner.py:158-173).
ASSUME ForgeAssumption ==
  /\ \A request \in Requests :
       /\ Len(request.requirements) \in Nat
       /\ DOMAIN request.requirements = 1..Len(request.requirements)
  /\ \A cap \in Provisionable :
       cap = Capability(cap.id, cap.operator, cap.effect, cap.in, cap.out, {}, {}, TRUE,
                        "VERIFIED_FOR_TASK")

VARIABLES
  graph,     \* the run: [pc, request, obligations, operations, state, trace, status]
  registry,  \* CapabilityRegistry._capabilities
  proofs     \* semantic_proofs: the bindings that have a VERIFIED row

graphVars == <<graph, registry, proofs>>

EmptyCustody == [approved |-> {}, domain |-> {}, evidence |-> {}]

Run(request) ==
  [pc |-> "derive", request |-> request, obligations |-> <<>>, operations |-> <<>>,
   state |-> {"raw_input", "source_text", "text"} \cup request.inputs,
   trace |-> <<>>, status |-> "NONE"]

GraphInit ==
  /\ graph = [Run(CHOOSE request \in Requests : TRUE) EXCEPT !.pc = "idle"]
  /\ registry = Builtins
  /\ proofs = {}

In(pc) == graph.pc = pc
End(status) == graph' = [graph EXCEPT !.pc = "idle", !.status = status]

Submit ==
  /\ In("idle") /\ Call
  /\ \E request \in Requests : graph' = Run(request)
  /\ UNCHANGED <<registry, proofs, sandbox>>

RequirementIds(request) == {request.requirements[i].id : i \in DOMAIN request.requirements}

\* Every clause of the intent is its own requirement, with the trace PRESERVED.
Adequacy(request) ==
  EvaluateAdequacy(RequirementIds(request),
    {[id |-> r, origin |-> "SOURCE_EXPLICIT", domain |-> ""] : r \in RequirementIds(request)},
    [r \in RequirementIds(request) |-> "PRESERVED"], {}, {})

\* The keys of the store are the inputs known before anything has run.
Derive ==
  /\ In("derive")
  /\ LET derived == DeriveObligations(graph.request.requirements, graph.request.contracts, {},
                                      graph.state, EmptyCustody) IN
     /\ proofs' = proofs \cup
          {BindingHash(derived.obligations[i]) : i \in DOMAIN derived.obligations}
     /\ IF DOMAIN derived.deficits = {}
          THEN graph' = [graph EXCEPT !.pc = "resolve", !.obligations = derived.obligations]
          ELSE End("RESOLUTION_DEFICIT")
  /\ UNCHANGED <<registry, sandbox, calls>>

\* The pool of evidence is empty.
ResolveObligations ==
  /\ In("resolve")
  /\ IF Resolves(registry, graph.obligations, graph.state, {})
       THEN graph' = [graph EXCEPT !.pc = "compile",
                                   !.operations = Operations(registry, graph.obligations)]
       ELSE graph' = [graph EXCEPT !.pc = "deficit", !.status = "RESOLUTION_DEFICIT"]
  /\ UNCHANGED <<registry, proofs, sandbox, calls>>

\* Every operation has a verification contract of its own.
Bound(operations) == {operations[i].req : i \in DOMAIN operations}

CompileGraph ==
  /\ In("compile")
  /\ LET decomposition == DecompositionStatus(RequirementIds(graph.request), graph.operations,
                                              Bound(graph.operations), graph.state) IN
     IF Compiles(registry, graph.operations, Adequacy(graph.request), decomposition,
                 EvaluateClosure(registry, graph.operations, {}))
       THEN graph' = [graph EXCEPT !.pc = "execute"]
       ELSE End("REFUSED")
  /\ UNCHANGED <<registry, proofs, sandbox, calls>>

-----------------------------------------------------------------------------
Current == graph.operations[Len(graph.trace) + 1]
Executing == In("execute") /\ Len(graph.trace) < Len(graph.operations)

IsBuiltin(op) == \E cap \in Builtins : cap.id = op.cap
Calculator == "forge_math_calculator"

\* A verifier of a built-in adapter that looks at more than the keys.
Refusable == {"shadow_dag_decomposer", "shadow_sterile_pytest"}

\* The gate's adapter calls a method AuthorizationGate does not have.
NeverReturns == {"forge_authorization_gate"}

\* The adapters that are there from the start return all their keys when they return;
\* a provisioned one returns what its author wrote.
Returns(op) ==
  IF op.cap \in NeverReturns THEN {} ELSE IF IsBuiltin(op) THEN {op.out} ELSE SUBSET op.out

\* The first call takes its arguments out of the store by name.  Without a force, or with an
\* area that is missing or zero, the calculator answers with a stress of 0.
FirstCall(op) ==
  [keys : Returns(op),
   from : IF op.cap = Calculator THEN {"inputs", "default"} ELSE {"inputs"}]

\* After any exception the adapter is called again, with the whole store as its only argument,
\* and what it returns counts.  The calculator takes the store for the force and has no area;
\* the other built-in adapters raise again, or report a failure their verifier refuses.
SecondCall(op) ==
  [keys : Returns(op),
   from : IF op.cap = Calculator THEN {"default"} ELSE IF IsBuiltin(op) THEN {} ELSE {"store"}]

ExecuteOperation ==
  /\ Executing /\ AuthorizedIn(registry, Current.cap)
  /\ \E result \in FirstCall(Current) \cup SecondCall(Current) :
       graph' = [graph EXCEPT
         !.state = @ \cup result.keys,
         !.trace = Append(@, [req |-> Current.req, read |-> graph.state, from |-> result.from])]
  /\ IF Current.cap = "forge_sandbox_file_adapter"
       THEN \E operation \in SandboxOperations : Write("auth_system_verified", operation)
       ELSE UNCHANGED sandbox
  /\ UNCHANGED <<registry, proofs, calls>>

\* Both calls raise, or the capability may not execute.
OperationFails ==
  /\ Executing
  /\ End("FAILED")
  /\ UNCHANGED <<registry, proofs, sandbox, calls>>

VerifierRefuses ==
  /\ Executing /\ Current.cap \in Refusable
  /\ graph' = [graph EXCEPT !.pc = "idle", !.status = "FAILED", !.state = @ \cup Current.out]
  /\ UNCHANGED <<registry, proofs, sandbox, calls>>

\* Mutant: the gates look at the trace and not at the store.
TraceIsComplete(operations, state) == Len(operations) = Len(graph.trace)

\* _validator: every key the operation promised is in the store.
GatesPass(operations, state) == \A i \in DOMAIN operations : operations[i].out \subseteq state

\* A contract of the caller may also expect values, and a provisioned adapter may return a
\* key with nothing under it.
ValuesDiffer ==
  \E i \in DOMAIN graph.operations :
    \/ graph.operations[i].source = "SOURCE_EXPLICIT_CONTRACT"
    \/ ~IsBuiltin(graph.operations[i])

RunGates ==
  /\ In("execute") /\ Len(graph.trace) = Len(graph.operations)
  /\ \/ GatesPass(graph.operations, graph.state) /\ End("SUCCESS")
     \/ (~GatesPass(graph.operations, graph.state) \/ ValuesDiffer) /\ End("FAILED")
  /\ UNCHANGED <<registry, proofs, sandbox, calls>>

-----------------------------------------------------------------------------
\* provision_capability: what fails the syntax gate, does not load, has no test or fails it,
\* or has no function, is not registered.  Every identifier is new.
Provision ==
  /\ In("deficit")
  /\ \/ \E cap \in Provisionable :
          /\ \A other \in registry : other.id # cap.id
          /\ registry' = registry \cup {cap}
     \/ UNCHANGED registry
  /\ graph' = [graph EXCEPT !.pc = "idle"]
  /\ UNCHANGED <<proofs, sandbox, calls>>

PromoteCapability ==
  /\ In("idle")
  /\ \E cap \in registry :
       /\ cap.lifecycle \in {"REUSE_VERIFIED", "VERIFIED_FOR_TASK"}
       /\ registry' = (registry \ {cap}) \cup {[cap EXCEPT !.lifecycle = "PROMOTED"]}
  /\ UNCHANGED <<graph, proofs, sandbox, calls>>

GraphStep ==
  \/ Submit \/ Derive \/ ResolveObligations \/ CompileGraph \/ ExecuteOperation
  \/ OperationFails \/ VerifierRefuses \/ RunGates \/ Provision \/ PromoteCapability

-----------------------------------------------------------------------------
vars == <<actionVars, graphVars, sandbox, calls>>

Init == ActionsInit /\ GraphInit /\ SandboxInit

Next ==
  \/ (\E a \in Actors : ActionStep(a)) /\ UNCHANGED graphVars
  \/ GraphStep /\ UNCHANGED actionVars

Spec == Init /\ [][Next]_vars

-----------------------------------------------------------------------------
\* What operation i may lack: the keys that provisioned capabilities before it promised, for
\* execute_graph looks at an operation's inputs no more than at what it returns (compiler.py:202).
Promised(i) ==
  UNION {graph.operations[j].out : j \in {k \in 1..(i - 1) : ~IsBuiltin(graph.operations[k])}}

\* The capabilities whose result may have nothing to do with the inputs they ask for.
MayGuess(op) == op.cap = Calculator \/ ~IsBuiltin(op)

\* A run that ends in SUCCESS did what every clause of the intent asks: an operation for it
\* ran, with its inputs at hand but for what a provisioned capability before it promised, on a
\* capability that may execute, under a proof of exactly the clause, its text and the
\* contract, and what the contract promises is in the final state; and unless its capability
\* is the calculator or a provisioned one, it was computed from those inputs
\* (forge.py:96-353 through obligations.py, resolution.py and compiler.py).
SuccessIsEarned ==
  graph.status = "SUCCESS" =>
    \A clause \in ToSet(graph.request.requirements) : \E i \in DOMAIN graph.trace :
      LET op == graph.operations[i] IN
      /\ op.req = clause.id /\ <<clause.id, clause.text, op.contract>> \in proofs
      /\ AuthorizedIn(registry, op.cap)
      /\ op.in \subseteq graph.trace[i].read \cup Promised(i)
      /\ op.contract.out \subseteq graph.state
      /\ graph.trace[i].from = "inputs" \/ MayGuess(op)

=============================================================================
