----------------------------- MODULE MCKernelRun -----------------------------
(***************************************************************************)
(* Small instances of KernelRun.                                           *)
(***************************************************************************)
EXTENDS KernelRun, TLC

CONSTANTS r1, r2, main, topic

\* A repository with one commit.
OneCommit == {<<Dev, 0>>}

\* The command line attaches no contract; SubprocessVerifier leaves the tested
\* effect and the specification digest empty.
CommandLine == {NoContract}
CommandLineEvidence == {[effect |-> "", spec |-> FALSE, by |-> "ORACLE"]}

Obligation(effect, mandatory) ==
  [effect |-> effect, mandatory |-> mandatory, status |-> "UNRESOLVED"]

\* What an embedding program may attach: no obligation, one, two of different
\* effects, an optional second one, one already contested, alternatives.
EmbeddedContracts ==
  {NoContract} \cup
  [obligations : {<<>>,
                  <<Obligation("MUL", TRUE)>>,
                  <<Obligation("MUL", TRUE), Obligation("DIV", TRUE)>>,
                  <<Obligation("MUL", TRUE), Obligation("DIV", FALSE)>>,
                  <<[Obligation("MUL", TRUE) EXCEPT !.status = "SATISFIED"],
                    [Obligation("DIV", FALSE) EXCEPT !.status = "CONTESTED"]>>},
   rule : {"ALL_MANDATORY"}, anyOf : {{}}]
  \cup
  [obligations : {<<Obligation("MUL", FALSE), Obligation("DIV", FALSE)>>,
                  <<Obligation("MUL", TRUE), Obligation("DIV", FALSE)>>},
   rule : {"ANY_OF"}, anyOf : {{1, 2}, {2}}]

EmbeddedEvidence ==
  [effect : {"", "MUL", "DIV"}, spec : BOOLEAN, by : Verifiers]

Symmetry == Permutations(Runs)
=============================================================================
