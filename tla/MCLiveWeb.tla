------------------------------- MODULE MCLiveWeb ------------------------------
(* Constants and symmetry for checking LiveWeb.  Which clients exist decides *)
(* the question a run asks.                                                  *)
EXTENDS LiveWeb, TLC

NoTargets  == {}
TwoTargets == {1, 2}
ThreeTargets == {1, 2, 3}

(* Watchers are interchangeable, and so are enrichers.                       *)
ClientSymmetry == Permutations(Watchers) \cup Permutations(Enrichers)

===============================================================================
