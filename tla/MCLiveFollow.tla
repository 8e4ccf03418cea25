----------------------------- MODULE MCLiveFollow -----------------------------
(* Constants for checking the follower on its own: nobody deep-reads or *)
(* polls.                                                               *)
EXTENDS LiveFollow

NoTargets == {}

===============================================================================
