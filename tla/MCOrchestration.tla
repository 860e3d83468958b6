-------------------------- MODULE MCOrchestration --------------------------
(***************************************************************************)
(* Small instances of Orchestration.                                       *)
(***************************************************************************)
EXTENDS Orchestration, TLC

CONSTANTS r1, r2, t1

Request(objective, provider, promote) ==
  [entry |-> "orchestrator", task |-> t1, objective |-> objective, provider |-> provider,
   promote |-> promote, verifier |-> "INDEPENDENT_BEHAVIORAL_ORACLE"]

KernelRequest(objective, verifier) ==
  [entry |-> "kernel", task |-> t1, objective |-> objective, provider |-> "gemini",
   promote |-> TRUE, verifier |-> verifier]

\* One run that makes the capability; against it one of either entry point, of any
\* provider, with and without promotion.
PairedRequests ==
  r1 :> {Request("convert", "deterministic", TRUE)}
  @@ r2 :> {Request("convert", "deterministic", TRUE),
            Request("calculate", "deterministic", FALSE),
            Request("calculate", "antigravity", TRUE),
            Request("unknown", "deterministic", TRUE), Request("convert", "gemini", TRUE),
            KernelRequest("convert", "INDEPENDENT_SEMANTIC_FALSIFICATION"),
            KernelRequest("convert", "BUILDER_TEST"),
            KernelRequest("trivial", "INDEPENDENT_BEHAVIORAL_ORACLE")}
=============================================================================
