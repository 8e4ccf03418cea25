------------------------------ MODULE LiveSession -----------------------------
(**************************************************************************)
(* What a live inspection session promises its readers, without follower, *)
(* requests or locks.  Generations are numbered without gaps and replace  *)
(* one another; exactly the newest Window of them can still be read; each *)
(* starts out with nothing enriched, whatever the others held, and only   *)
(* gains facts while it can be read.                                      *)
(**************************************************************************)
EXTENDS Naturals

CONSTANTS
  Window,    (* how many generations stay addressable                       *)
  Targets    (* entities a deep read can add facts about                    *)

VARIABLES
  latest,    (* the generation on display                                   *)
  facts,     (* addressable generation -> the targets it has facts about    *)
  outdated   (* whether readers are told that the input has moved on        *)

vars == <<latest, facts, outdated>>

Addressable(top) == {n \in 0 .. top : n + Window > top}

Init ==
  /\ latest = 0
  /\ facts = [n \in Addressable(0) |-> {}]
  /\ outdated = FALSE

Advance ==
  /\ latest' = latest + 1
  /\ facts' = [n \in Addressable(latest + 1) |-> IF n = latest + 1 THEN {} ELSE facts[n]]
  /\ outdated' = FALSE

Learn(n, ts) ==
  /\ n \in Addressable(latest)
  /\ facts' = [facts EXCEPT ![n] = @ \cup ts]
  /\ UNCHANGED <<latest, outdated>>

Relabel ==
  /\ outdated' \in BOOLEAN
  /\ UNCHANGED <<latest, facts>>

Next ==
  \/ Advance
  \/ \E n \in Addressable(latest), ts \in SUBSET Targets : Learn(n, ts)
  \/ Relabel

Spec == Init /\ [][Next]_vars

===============================================================================
