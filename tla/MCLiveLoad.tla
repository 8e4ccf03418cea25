------------------------------ MODULE MCLiveLoad ------------------------------
(* Collection loads beside deep reads, in a session that follows its input and in *)
(* one that does not: `mode` says which, and stays.  Two targets, which listings  *)
(* show: OOS chains in the first, a page and a relocation edge in the second.     *)
EXTENDS MCLiveWeb

VARIABLE mode

Immutable == INSTANCE LiveWeb WITH
               following <- FALSE, Pages <- {1}, Edges <- {2}, MaxRevision <- 3

EitherInit ==
  \/ mode = "following" /\ Init
  \/ mode = "immutable" /\ Immutable!Init

EitherNext ==
  /\ UNCHANGED mode
  /\ \/ mode = "following" /\ Next
     \/ mode = "immutable" /\ Immutable!Next

EitherSpec == EitherInit /\ [][EitherNext]_<<vars, mode>>
===============================================================================
