-------------------------- MODULE ObservationPromise --------------------------
(*******************************************************************************)
(* What the observation broker promises of the evidence it holds: one capture  *)
(* at most, published from a scan sequence that nothing published before, that *)
(* only grows older and is never older than the limit when it is looked at by  *)
(* a reader; it is dropped or replaced, never renewed.                         *)
(*******************************************************************************)
EXTENDS Integers

CONSTANTS AgeCap,      \* bound: ages from here on are one
          Incarnation, \* the producer's incarnations, in order
          MaxScan      \* bound: scan sequence numbers

VARIABLES used,  \* the last scan sequence consumed of every incarnation
          held   \* the evidence held: its incarnation, sequence and age

Nothing == [incarnation |-> 0, sequence |-> 0, age |-> 0]

Init == used = [i \in Incarnation |-> 0] /\ held = Nothing

Consume == /\ \E i \in Incarnation, s \in 1..MaxScan :
                 s > used[i] /\ used' = [used EXCEPT ![i] = s]
           /\ UNCHANGED held

Publish == /\ \E i \in Incarnation, a \in 0..AgeCap :
                 /\ used[i] > 0
                 /\ i >= held.incarnation
                 /\ i = held.incarnation => used[i] > held.sequence
                 /\ held' = [incarnation |-> i, sequence |-> used[i], age |-> a]
           /\ UNCHANGED used

Drop == held' = Nothing /\ UNCHANGED used

Age == /\ held # Nothing
       /\ \E a \in held.age..AgeCap : held' = [held EXCEPT !.age = a]
       /\ UNCHANGED used

Next == Consume \/ Publish \/ Drop \/ Age

Spec == Init /\ [][Next]_<<used, held>>
=============================================================================
