------------------------------ MODULE LiveSource ------------------------------
(***************************************************************************)
(* The live inspection session's store (src/follow.rs, LiveSource): the    *)
(* snapshot generations it keeps addressable, which of them is current,    *)
(* whether the follower has seen a change it has not serviced, and the     *)
(* watch channel that wakes long polls.                                    *)
(*                                                                         *)
(* The store is passive: this module has its variables and the operations  *)
(* the follower (LiveFollow) and the request handlers (LiveWeb) perform on *)
(* it.  Every operation holds the RwLock for its whole body, so each is    *)
(* one step; publishing and notifying are two, because the lock is dropped *)
(* in between.                                                             *)
(*                                                                         *)
(* A view is an immutable graph at one inspection revision.  What it says  *)
(* is abstracted to the enrichment facts its revisions add: one slot per   *)
(* target, holding nothing, a validated fact, or a recorded violation,     *)
(* with the file stamp in force when the target's pages were read, and the *)
(* stamp in force when the scan read the file inventory, which it does     *)
(* last: which file owns which page, and what its class is called.  The    *)
(* map of superseded revisions a generation also keeps is never read back, *)
(* so a generation is its latest view.                                     *)
(***************************************************************************)
EXTENDS Naturals, FiniteSets

CONSTANTS
  retain,       (* FollowConfig.retain, before it is raised to one          *)
  following,    (* whether this session follows its input                   *)
  Targets,      (* entities a deep read can be asked for, numbered in the   *)
                (* order a listing shows them                               *)
  Watchers      (* clients that hold a long poll open                       *)

ASSUME RetainAssumption == retain \in Nat
ASSUME FollowingAssumption == following \in BOOLEAN
ASSUME TargetsAssumption == IsFiniteSet(Targets) /\ Targets \subseteq Nat

VARIABLES
  generations,    (* generation number -> its latest view                   *)
  current,        (* the generation on display                              *)
  change_pending, (* an observed input change not yet serviced              *)
  notify          (* the watch channel: its value, the live receivers, and  *)
                  (* the receivers that have not seen the last send         *)

source_vars == <<generations, current, change_pending, notify>>

-------------------------------------------------------------------------------
(* One reading of the input's manifest: the stamps of the declared volumes, *)
(* as a number that every write moves, and whether an extra volume is       *)
(* declared, which can come and go without touching the others.             *)
Manifest == [stamp : Nat, extended : BOOLEAN]

Validity == {"valid", "torn", "invalidated", "superseded"}

Fact == [verdict : {"none", "valid", "invalid"}, stamp : Nat]

NoFact == [verdict |-> "none", stamp |-> 0]

View == [fingerprint : Manifest,
         scan        : Nat,          \* the generation this snapshot is of
         validity    : Validity \ {"superseded"},
         inventory   : Nat,
         revision    : Nat,
         facts       : [Targets -> Fact]]

(* The view a complete fast scan produces, before any enrichment.           *)
ScannedView(number, fingerprint, validity, inventory) ==
  [fingerprint |-> fingerprint, scan |-> number, validity |-> validity,
   inventory |-> inventory, revision |-> 0, facts |-> [t \in Targets |-> NoFact]]

(* A view whose facts are of different contents of the input.               *)
Mixed(view) == view.validity = "torn" \/ view.inventory # view.fingerprint.stamp

Enriched(view) == {t \in Targets : view.facts[t].verdict # "none"}

-------------------------------------------------------------------------------
Retained == DOMAIN generations

Current == generations[current]

(* A generation's standing, which the generation itself cannot know.        *)
Standing(n) ==
  IF generations[n].validity \in {"invalidated", "torn"}
  THEN generations[n].validity
  ELSE IF n < current \/ change_pending THEN "superseded"
  ELSE generations[n].validity

RetentionWindow == IF retain > 1 THEN retain ELSE 1

(* Mistakes the eviction could make: one generation too many, and the *)
(* newest instead of the oldest.                                      *)
AfterEvictionOneTooMany(numbers) ==
  {n \in numbers : Cardinality({m \in numbers : m > n}) <= RetentionWindow}

AfterEvictionOfTheNewest(numbers) ==
  {n \in numbers : Cardinality({m \in numbers : m < n}) < RetentionWindow}

(* The generations left once the oldest are removed until the window fits.  *)
AfterEviction(numbers) ==
  {n \in numbers : Cardinality({m \in numbers : m > n}) < RetentionWindow}

(* Mistakes Publish could make: leaving the change pending, and carrying *)
(* deep reads over from the generation it replaces.                      *)
PublishLeavingTheChangePending(fingerprint, validity, inventory) ==
  LET number == current + 1
      view   == ScannedView(number, fingerprint, validity, inventory)
  IN /\ generations' = [n \in AfterEviction(Retained \cup {number}) |->
                          IF n = number THEN view ELSE generations[n]]
     /\ current' = number
     /\ UNCHANGED change_pending

PublishCarryingOver(fingerprint, validity, inventory) ==
  LET number == current + 1
      view   == [ScannedView(number, fingerprint, validity, inventory) EXCEPT
                   !.facts = Current.facts]
  IN /\ generations' = [n \in AfterEviction(Retained \cup {number}) |->
                          IF n = number THEN view ELSE generations[n]]
     /\ current' = number
     /\ change_pending' = FALSE

(* Inserts the next generation, makes it current, clears the pending change *)
(* and evicts beyond the window.                                            *)
Publish(fingerprint, validity, inventory) ==
  LET number == current + 1
      view   == ScannedView(number, fingerprint, validity, inventory)
  IN /\ generations' = [n \in AfterEviction(Retained \cup {number}) |->
                          IF n = number THEN view ELSE generations[n]]
     /\ current' = number
     /\ change_pending' = FALSE

(* A mistake: storing the generation without waking the polls.              *)
SendWithoutWaking(number) == notify' = [notify EXCEPT !.value = number]

(* tokio's watch::Sender::send: with no receiver it fails and leaves the    *)
(* channel's value alone; otherwise it stores the value and marks it unseen *)
(* by every receiver.                                                       *)
SendGeneration(number) ==
  notify' = IF notify.receivers = {} THEN notify
            ELSE [notify EXCEPT !.value = number, !.unseen = notify.receivers]

(* Whether an enrichment result is stored as a revision of its generation.  *)
AcceptsRevision(n, view) ==
  n \in Retained /\ view.revision > generations[n].revision

(* A mistake: storing a deep read on the current generation.                *)
PublishRevisionOnCurrent(n, view) ==
  /\ generations' = IF view.revision > Current.revision
                    THEN [generations EXCEPT ![current] = view]
                    ELSE generations
  /\ UNCHANGED <<current, change_pending, notify>>

PublishRevision(n, view) ==
  /\ generations' = IF AcceptsRevision(n, view)
                    THEN [generations EXCEPT ![n] = view]
                    ELSE generations
  /\ UNCHANGED <<current, change_pending, notify>>

NoteChangePending(pending) == change_pending' = pending

(* Subscribing yields a receiver that has seen everything sent so far.      *)
Subscribe(w) == notify' = [notify EXCEPT !.receivers = @ \cup {w}]

MarkSeen(w) == notify' = [notify EXCEPT !.unseen = @ \ {w}]

Unsubscribe(w) ==
  notify' = [notify EXCEPT !.receivers = @ \ {w}, !.unseen = @ \ {w}]

-------------------------------------------------------------------------------
(* Seeds the session with its first generation.                             *)
SourceInit(fingerprint, validity, inventory) ==
  /\ generations = [n \in {0} |-> ScannedView(0, fingerprint, validity, inventory)]
  /\ current = 0
  /\ change_pending = FALSE
  /\ notify = [value |-> 0, receivers |-> {}, unseen |-> {}]

SourceTypeOK ==
  /\ current \in Nat
  /\ Retained \subseteq Nat
  /\ current \in Retained
  /\ generations \in [Retained -> View]
  /\ change_pending \in BOOLEAN
  /\ notify \in [value : Nat, receivers : SUBSET Watchers, unseen : SUBSET Watchers]

===============================================================================
