---------------------------- MODULE MCObservation ----------------------------
(* Instances of the observation broker for TLC. *)
EXTENDS ObservationBroker, TLC

CallerSymmetry == Permutations(Callers)
=============================================================================
