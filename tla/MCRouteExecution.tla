-------------------------- MODULE MCRouteExecution --------------------------
(***************************************************************************)
(* Small instances of RouteExecution.                                      *)
(***************************************************************************)
EXTENDS RouteExecution, TLC

CONSTANTS e1, e2, p1, p2, good, better, bad

MediaPlan == <<"scribe", "herald", "slicer">>
OneApproval == {<<p2, "slicer">>}
Symmetry == Permutations(Executors)
=============================================================================
