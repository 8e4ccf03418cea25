----------------------------- MODULE LiveWebProofs ----------------------------
(***************************************************************************)
(* Proofs about LiveWeb for every number of clients, targets and edits and *)
(* every retention: types, the retention window, the pending change and    *)
(* the watch channel.                                                      *)
(***************************************************************************)
EXTENDS LiveWeb, FiniteSetTheorems, TLAPS

-------------------------------------------------------------------------------
(* The eviction loop.                                                       *)

LEMMA WindowIsPositive == RetentionWindow \in Nat \ {0}
BY RetainAssumption DEF RetentionWindow

(* Removing the oldest until the window fits leaves, of a full window and *)
(* the next generation, the newest ones.                                  *)
LEMMA EvictionKeepsTheNewest ==
  ASSUME NEW c \in Nat
  PROVE  AfterEviction({n \in 0 .. c : n + RetentionWindow > c} \cup {c + 1})
           = {n \in 0 .. (c + 1) : n + RetentionWindow > c + 1}
<1> DEFINE S == {n \in 0 .. c : n + RetentionWindow > c} \cup {c + 1}
<1> USE WindowIsPositive
<1>1. ASSUME NEW n \in S
      PROVE  Cardinality({m \in S : m > n}) = c + 1 - n
  <2>1. {m \in S : m > n} = (n + 1) .. (c + 1)
    OBVIOUS
  <2>2. n \in Nat /\ n <= c + 1
    OBVIOUS
  <2>3. Cardinality((n + 1) .. (c + 1))
          = IF n + 1 > c + 1 THEN 0 ELSE (c + 1) - (n + 1) + 1
    BY <2>2, FS_Interval
  <2>4. Cardinality((n + 1) .. (c + 1)) = c + 1 - n
    BY <2>2, <2>3
  <2>5. QED
    BY <2>1, <2>4, Zenon
<1>2. ASSUME NEW n \in S
      PROVE  Cardinality({m \in S : m > n}) < RetentionWindow
               <=> n \in {k \in 0 .. (c + 1) : k + RetentionWindow > c + 1}
  <2>1. n \in 0 .. (c + 1)
    OBVIOUS
  <2>2. QED
    BY <1>1, <2>1
<1>3. {k \in 0 .. (c + 1) : k + RetentionWindow > c + 1} \subseteq S
  OBVIOUS
<1>4. QED
  BY <1>2, <1>3 DEF AfterEviction

-------------------------------------------------------------------------------
(* The operations on views keep the shape of a view.                        *)

LEMMA ScannedViewIsAView ==
  ASSUME NEW number \in Nat, NEW fingerprint \in Manifest,
         NEW validity \in Validity \ {"superseded"}, NEW inventory \in Nat
  PROVE  ScannedView(number, fingerprint, validity, inventory) \in View
BY DEF ScannedView, View, NoFact, Fact

LEMMA ExtendIsAView ==
  ASSUME NEW view \in View, NEW t, NEW fact \in Fact
  PROVE  Extend(view, t, fact) \in View
<1> DEFINE facts == [view.facts EXCEPT ![t] = fact]
           next  == [view EXCEPT !.revision = @ + 1]
<1>1. facts \in [Targets -> Fact]
  BY DEF View
<1>2. next \in View
  BY DEF View
<1>3. [next EXCEPT !.facts = facts] \in View
  BY <1>1, <1>2 DEF View
<1>4. Extend(view, t, fact) = [next EXCEPT !.facts = facts]
  BY DEF Extend, View
<1>5. QED
  BY <1>3, <1>4, Zenon

LEMMA InvalidatedRevisionIsAView ==
  ASSUME NEW view \in View
  PROVE  InvalidatedRevision(view) \in View
<1> DEFINE next == [view EXCEPT !.revision = @ + 1]
<1>1. next \in View
  BY DEF View
<1>2. [next EXCEPT !.validity = "invalidated"] \in View
  BY <1>1 DEF View, Validity
<1>3. [view EXCEPT !.revision = @ + 1, !.validity = "invalidated"]
        = [next EXCEPT !.validity = "invalidated"]
  BY DEF View
<1>4. QED
  BY <1>2, <1>3, Zenon DEF InvalidatedRevision

LEMMA TotalIsANumber ==
  ASSUME NEW view
  PROVE  Total(view) \in Nat
<1>1. Relationships(view) \subseteq Targets
  BY DEF Relationships, Enriched
<1>2. IsFiniteSet(Relationships(view))
  BY <1>1, TargetsAssumption, FS_Subset
<1>3. QED
  BY <1>2, FS_CardinalityType DEF Total

-------------------------------------------------------------------------------
(* Types and the retention window.                                          *)

StoreInv == SourceTypeOK /\ RetentionIsTheNewest

LEMMA InitStore == Init => StoreInv
<1> SUFFICES ASSUME Init PROVE StoreInv
  OBVIOUS
<1>1. PICK validity \in {"valid", IF following THEN "torn" ELSE "invalidated"},
           inventory \in {0, IF following THEN 1 ELSE 0} :
        SourceInit([stamp |-> 0, extended |-> FALSE], validity, inventory)
  BY DEF Init, FollowInit
<1>2. ScannedView(0, [stamp |-> 0, extended |-> FALSE], validity, inventory) \in View
  <2>1. [stamp |-> 0, extended |-> FALSE] \in Manifest
    BY DEF Manifest
  <2>2. validity \in Validity \ {"superseded"}
    BY DEF Validity
  <2>3. QED
    BY <2>1, <2>2, ScannedViewIsAView
<1>3. SourceTypeOK
  <2>1. Retained = {0} /\ \A n \in Retained : generations[n] \in View
    BY <1>1, <1>2, Zenon DEF SourceInit, Retained
  <2>2. generations = [n \in Retained |-> generations[n]]
    BY <1>1, <2>1, Zenon DEF SourceInit
  <2>3. generations \in [Retained -> View]
    BY <2>1, <2>2, Zenon
  <2>4. notify \in [value : Nat, receivers : SUBSET Watchers, unseen : SUBSET Watchers]
    BY <1>1 DEF SourceInit
  <2>5. QED
    BY <1>1, <2>1, <2>3, <2>4 DEF SourceInit, SourceTypeOK
<1>4. RetentionIsTheNewest
  BY <1>1, WindowIsPositive DEF SourceInit, RetentionIsTheNewest, Retained
<1>5. QED
  BY <1>3, <1>4 DEF StoreInv

(* Publishing replaces the window by the next one, and each generation kept *)
(* by itself.                                                               *)
LEMMA PublishStore ==
  ASSUME StoreInv,
         NEW fingerprint \in Manifest, NEW validity \in Validity \ {"superseded"},
         NEW inventory \in Nat,
         Publish(fingerprint, validity, inventory)
  PROVE  /\ Retained' = {n \in 0 .. (current + 1) : n + RetentionWindow > current + 1}
         /\ current' = current + 1
         /\ current' \in Retained'
         /\ \A n \in Retained' \ {current + 1} :
              n \in Retained /\ generations'[n] = generations[n]
         /\ generations'[current + 1] = ScannedView(current + 1, fingerprint, validity, inventory)
         /\ generations' \in [Retained' -> View]
<1> DEFINE view == ScannedView(current + 1, fingerprint, validity, inventory)
           Next1 == {n \in 0 .. (current + 1) : n + RetentionWindow > current + 1}
<1>1. current \in Nat
  BY DEF StoreInv, SourceTypeOK
<1>2. AfterEviction(Retained \cup {current + 1}) = Next1
  BY <1>1, EvictionKeepsTheNewest DEF StoreInv, RetentionIsTheNewest
<1>3. generations' = [n \in Next1 |-> IF n = current + 1 THEN view ELSE generations[n]]
  BY <1>2 DEF Publish
<1>4. current' = current + 1
  BY DEF Publish
<1>5. Retained' = Next1
  BY <1>3 DEF Retained
<1>6. current + 1 \in Next1
  BY <1>1, WindowIsPositive
<1>7. \A n \in Next1 \ {current + 1} : n \in Retained
  BY <1>1, WindowIsPositive DEF StoreInv, RetentionIsTheNewest
<1>8. view \in View
  BY <1>1, ScannedViewIsAView
<1>9. \A n \in Retained : generations[n] \in View
  BY DEF StoreInv, SourceTypeOK
<1>10. generations' \in [Next1 -> View]
  BY <1>3, <1>7, <1>8, <1>9
<1>11. QED
  BY <1>3, <1>4, <1>5, <1>6, <1>7, <1>10

LEMMA PublishKeepsStore ==
  ASSUME StoreInv,
         NEW fingerprint \in Manifest, NEW validity \in Validity \ {"superseded"},
         NEW inventory \in Nat,
         Publish(fingerprint, validity, inventory),
         UNCHANGED notify
  PROVE  StoreInv'
<1>1. current' \in Nat
  BY PublishStore DEF StoreInv, SourceTypeOK
<1>2. change_pending' \in BOOLEAN
  BY DEF Publish
<1>3. SourceTypeOK'
  BY <1>1, <1>2, PublishStore DEF StoreInv, SourceTypeOK
<1>4. RetentionIsTheNewest'
  BY PublishStore, WindowIsPositive DEF RetentionIsTheNewest, RetentionWindow
<1>5. QED
  BY <1>3, <1>4 DEF StoreInv

LEMMA RevisionKeepsStore ==
  ASSUME StoreInv, NEW n, NEW view \in View, PublishRevision(n, view)
  PROVE  StoreInv'
<1>1. generations' \in [Retained -> View]
  BY DEF StoreInv, SourceTypeOK, PublishRevision, AcceptsRevision
<1>2. Retained' = Retained
  BY <1>1 DEF Retained
<1>3. QED
  BY <1>1, <1>2 DEF StoreInv, SourceTypeOK, RetentionIsTheNewest, PublishRevision, RetentionWindow


LEMMA StoreBesideStore ==
  ASSUME StoreInv, UNCHANGED <<generations, current>>,
         change_pending' \in BOOLEAN,
         notify' \in [value : Nat, receivers : SUBSET Watchers, unseen : SUBSET Watchers]
  PROVE  StoreInv'
BY DEF StoreInv, SourceTypeOK, RetentionIsTheNewest, Retained, RetentionWindow

FollowInv == FollowTypeOK /\ StoreInv

LEMMA FollowKeepsTypes ==
  ASSUME FollowInv, FollowNext
  PROVE  FollowInv'
<1> USE DEF FollowInv, FollowTypeOK
<1>1. /\ current \in Retained
      /\ generations \in [Retained -> View]
      /\ change_pending \in BOOLEAN
      /\ notify \in [value : Nat, receivers : SUBSET Watchers, unseen : SUBSET Watchers]
  BY DEF StoreInv, SourceTypeOK
<1>2. CASE WriteVolume
  <2>1. disk' \in Manifest
    BY <1>2 DEF WriteVolume, Manifest
  <2>2. StoreInv'
    BY <1>1, <1>2, StoreBesideStore DEF WriteVolume, source_vars
  <2>3. QED
    BY <1>2, <2>1, <2>2 DEF WriteVolume, StoreInv
<1>3. CASE ChangeVolumeSet
  <2>1. disk' \in Manifest
    BY <1>3 DEF ChangeVolumeSet, Manifest
  <2>2. StoreInv'
    BY <1>1, <1>3, StoreBesideStore DEF ChangeVolumeSet, source_vars
  <2>3. QED
    BY <1>3, <2>1, <2>2 DEF ChangeVolumeSet, StoreInv
<1>4. CASE PollRead
  <2>1. follower' \in Follower
    BY <1>4 DEF PollRead, Follower
  <2>2. StoreInv'
    BY <1>1, <1>4, StoreBesideStore DEF PollRead, source_vars
  <2>3. QED
    BY <1>4, <2>1, <2>2 DEF PollRead, disk_vars, StoreInv
<1>5. CASE PollUnchanged
  <2>1. follower' \in Follower
    BY <1>5 DEF PollUnchanged, Released, Follower, Manifest, Validity
  <2>2. change_pending' \in BOOLEAN
    BY <1>1, <1>5 DEF PollUnchanged, NoteChangePending
  <2>3. StoreInv'
    BY <1>1, <1>5, <2>2, StoreBesideStore DEF PollUnchanged
  <2>4. QED
    BY <1>5, <2>1, <2>3 DEF PollUnchanged, disk_vars, StoreInv
<1>6. CASE PollDefer
  <2>1. follower' \in Follower
    BY <1>6 DEF PollDefer, Released, Follower, Manifest, Validity
  <2>2. change_pending' \in BOOLEAN
    BY <1>1, <1>6 DEF PollDefer, NoteChange, NoteChangePending
  <2>3. StoreInv'
    BY <1>1, <1>6, <2>2, StoreBesideStore DEF PollDefer
  <2>4. QED
    BY <1>6, <2>1, <2>3 DEF PollDefer, disk_vars, StoreInv
<1>7. CASE PollRescan
  <2>1. follower' \in Follower
    BY <1>7 DEF PollRescan, Follower
  <2>2. change_pending' \in BOOLEAN
    BY <1>1, <1>7 DEF PollRescan, NoteChange, NoteChangePending
  <2>3. StoreInv'
    BY <1>1, <1>7, <2>2, StoreBesideStore DEF PollRescan
  <2>4. QED
    BY <1>7, <2>1, <2>3 DEF PollRescan, disk_vars, StoreInv
<1>8. CASE ScanVerified
  <2>1. follower' \in Follower
    BY <1>8 DEF ScanVerified, Follower, Validity
  <2>2. StoreInv'
    BY <1>1, <1>8, StoreBesideStore DEF ScanVerified, source_vars
  <2>3. QED
    BY <1>8, <2>1, <2>2 DEF ScanVerified, disk_vars, StoreInv
<1>9. CASE ScanInventoried
  <2>1. follower' \in Follower
    BY <1>9 DEF ScanInventoried, Follower, Manifest
  <2>2. StoreInv'
    BY <1>1, <1>9, StoreBesideStore DEF ScanInventoried, source_vars
  <2>3. QED
    BY <1>9, <2>1, <2>2 DEF ScanInventoried, disk_vars, StoreInv
<1>10. CASE ScanFailed
  <2>1. follower' \in Follower
    BY <1>10 DEF ScanFailed, Released, Follower, Manifest, Validity
  <2>2. StoreInv'
    BY <1>1, <1>10, StoreBesideStore DEF ScanFailed, source_vars
  <2>3. QED
    BY <1>10, <2>1, <2>2 DEF ScanFailed, disk_vars, StoreInv
<1>11. CASE PublishScan
  <2>1. follower' \in Follower
    BY <1>11 DEF PublishScan, Released, Follower, Manifest, Validity
  <2>2. /\ follower.manifest \in Manifest
        /\ follower.validity \in Validity \ {"superseded"}
        /\ follower.inventory \in Nat
    BY DEF Follower
  <2>3. StoreInv'
    BY <1>11, <2>2, PublishKeepsStore DEF PublishScan
  <2>4. QED
    BY <1>11, <2>1, <2>3 DEF PublishScan, disk_vars, StoreInv
<1>12. CASE NotifyWatchers
  <2>1. follower' \in Follower
    BY <1>12 DEF NotifyWatchers, Follower
  <2>2. current \in Nat
    BY DEF StoreInv, SourceTypeOK
  <2>3. notify' \in [value : Nat, receivers : SUBSET Watchers, unseen : SUBSET Watchers]
    BY <1>1, <1>12, <2>2 DEF NotifyWatchers, SendGeneration
  <2>4. StoreInv'
    BY <1>1, <1>12, <2>3, StoreBesideStore DEF NotifyWatchers
  <2>5. QED
    BY <1>12, <2>1, <2>4 DEF NotifyWatchers, disk_vars, StoreInv
<1>13. CASE FollowerDies
  <2>1. follower' \in Follower
    BY <1>13 DEF FollowerDies, Released, Follower, Manifest, Validity
  <2>2. StoreInv'
    BY <1>1, <1>13, StoreBesideStore DEF FollowerDies, source_vars
  <2>3. QED
    BY <1>13, <2>1, <2>2 DEF FollowerDies, disk_vars, StoreInv
<1>14. QED
  BY <1>2, <1>3, <1>4, <1>5, <1>6, <1>7, <1>8, <1>9, <1>10, <1>11, <1>12, <1>13
     DEF FollowNext, InputStep, FollowerStep

(* The clients' steps.                                                      *)
WebInv == TypeOK /\ StoreInv

LEMMA WatchKeepsTypes ==
  ASSUME WebInv, NEW w \in Watchers, WatchStep(w)
  PROVE  WebInv'
<1> USE DEF WebInv, TypeOK, FollowTypeOK
<1>1. /\ current \in Nat
      /\ change_pending \in BOOLEAN
      /\ notify \in [value : Nat, receivers : SUBSET Watchers, unseen : SUBSET Watchers]
      /\ watch[w] \in Poll
  BY DEF SourceTypeOK
<1>2. /\ IdlePoll \in Poll
      /\ \A k \in Nat :
           [IdlePoll EXCEPT !.known = k, !.has_known = TRUE] \in Poll
  BY DEF IdlePoll, Poll
<1>3. UNCHANGED <<generations, current, change_pending, disk, edits, follower,
                  lock, enrich, load>>
  BY DEF WatchStep, WatchOpen, WatchDecide, WatchWoken, WatchTimedOut, WatchAnswer,
         WatchDropped, beside_watch, disk_vars
<1>4. ASSUME watch' \in [Watchers -> Poll],
             notify' \in [value : Nat, receivers : SUBSET Watchers, unseen : SUBSET Watchers]
      PROVE  WebInv'
  <2>1. StoreInv'
    BY <1>1, <1>3, <1>4, StoreBesideStore
  <2>2. QED
    BY <1>3, <1>4, <2>1 DEF StoreInv
<1>5. CASE WatchOpen(w)
  <2>1. [watch[w] EXCEPT !.pc = "open", !.asked = current] \in Poll
    BY <1>1 DEF Poll
  <2>2. watch' \in [Watchers -> Poll]
    BY <1>5, <2>1 DEF WatchOpen
  <2>3. QED
    BY <1>1, <1>4, <1>5, <2>2 DEF WatchOpen, Subscribe
<1>6. CASE WatchDecide(w)
  <2> DEFINE hold == following /\ watch[w].has_known /\ watch[w].known = notify.value
             pc   == IF hold THEN "waiting" ELSE "answering"
             poll == [watch[w] EXCEPT !.pc = pc]
  <2>1. poll \in Poll
    <3>1. pc \in {"idle", "open", "waiting", "answering"}
      OBVIOUS
    <3> HIDE DEF pc
    <3>2. QED
      BY <1>1, <3>1 DEF Poll
  <2>2. watch' \in [Watchers -> Poll]
    <3>1. watch' = [watch EXCEPT ![w] = poll]
      BY <1>6 DEF WatchDecide
    <3> HIDE DEF poll
    <3>2. QED
      BY <2>1, <3>1
  <2>3. QED
    BY <1>1, <1>4, <1>6, <2>2 DEF WatchDecide, MarkSeen
<1>7. CASE WatchWoken(w)
  <2>1. [watch[w] EXCEPT !.pc = "answering"] \in Poll
    BY <1>1 DEF Poll
  <2>2. watch' \in [Watchers -> Poll]
    BY <1>7, <2>1 DEF WatchWoken
  <2>3. QED
    BY <1>1, <1>4, <1>7, <2>2 DEF WatchWoken, MarkSeen
<1>8. CASE WatchTimedOut(w)
  <2>1. [watch[w] EXCEPT !.pc = "answering"] \in Poll
    BY <1>1 DEF Poll
  <2>2. watch' \in [Watchers -> Poll]
    BY <1>8, <2>1 DEF WatchTimedOut
  <2>3. QED
    BY <1>1, <1>4, <1>8, <2>2 DEF WatchTimedOut
<1>9. CASE WatchAnswer(w)
  <2>1. watch' \in [Watchers -> Poll]
    BY <1>1, <1>2, <1>9 DEF WatchAnswer
  <2>2. QED
    BY <1>1, <1>4, <1>9, <2>1 DEF WatchAnswer, Unsubscribe
<1>10. CASE WatchDropped(w)
  <2>1. watch[w].known \in Nat
    BY <1>1 DEF Poll
  <2>2. watch' \in [Watchers -> Poll]
    BY <1>2, <1>10, <2>1 DEF WatchDropped
  <2>3. QED
    BY <1>1, <1>4, <1>10, <2>2 DEF WatchDropped, Unsubscribe
<1>11. QED
  BY <1>5, <1>6, <1>7, <1>8, <1>9, <1>10 DEF WatchStep

(* A deep read changes nothing but its request, the mutex and generations.  *)
LEMMA EnrichingIsLocal ==
  ASSUME NEW e, EnrichStep(e)
  PROVE  UNCHANGED <<current, change_pending, notify, disk, edits, follower, watch, load>>
<1> USE DEF beside_enrich, source_vars, disk_vars
<1>1. CASE \E t \in Targets, slot \in BOOLEAN : EnrichAdmit(e, t, slot)
  BY <1>1 DEF EnrichAdmit
<1>2. CASE \E t \in Edges : EnrichRelocation(e, t)
  BY <1>2 DEF EnrichRelocation
<1>3. CASE \/ EnrichCheck(e) \/ EnrichDecoded(e) \/ EnrichViolation(e) \/ EnrichRefused(e)
           \/ EnrichRecheck(e) \/ EnrichPublish(e) \/ EnrichAnswer(e)
  BY <1>3 DEF EnrichCheck, EnrichDecoded, EnrichViolation, EnrichRefused, EnrichRecheck,
              EnrichPublish, EnrichAnswer, PublishRevision
<1>4. QED
  BY <1>1, <1>2, <1>3 DEF EnrichStep

LEMMA EnrichKeepsTypes ==
  ASSUME WebInv, NEW e \in Enrichers, EnrichStep(e)
  PROVE  WebInv'
<1> USE DEF WebInv, TypeOK, FollowTypeOK
<1>1. /\ current \in Nat
      /\ current \in Retained
      /\ generations \in [Retained -> View]
      /\ Current \in View
      /\ disk.stamp \in Nat
      /\ change_pending \in BOOLEAN
      /\ notify \in [value : Nat, receivers : SUBSET Watchers, unseen : SUBSET Watchers]
      /\ enrich[e] \in Request
      /\ enrich[e].view \in View
  BY DEF SourceTypeOK, Current, Manifest, Request
<1>2. UNCHANGED <<current, change_pending, notify, disk, edits, follower, watch, load>>
  BY EnrichingIsLocal
<1>3. IdleRequest \in Request
  <2>1. ScannedView(0, [stamp |-> 0, extended |-> FALSE], "valid", 0) \in View
    <3>1. [stamp |-> 0, extended |-> FALSE] \in Manifest
      BY DEF Manifest
    <3>2. "valid" \in Validity \ {"superseded"}
      BY DEF Validity
    <3>3. QED
      BY <3>1, <3>2, ScannedViewIsAView
  <2> DEFINE view == ScannedView(0, [stamp |-> 0, extended |-> FALSE], "valid", 0)
  <2> HIDE DEF view
  <2>2. [pc |-> "idle", target |-> 0, slot |-> FALSE, base |-> 0, read_at |-> 0, outcome |-> "none",
         view |-> view] \in Request
    BY <2>1 DEF view, Request
  <2>3. QED
    BY <2>2 DEF view, IdleRequest
<1>4. ASSUME generations' = generations,
             enrich' \in [Enrichers -> Request],
             lock' \in Enrichers \cup {Nobody}
      PROVE  WebInv'
  <2>1. StoreInv'
    BY <1>1, <1>2, <1>4, StoreBesideStore
  <2>2. QED
    BY <1>2, <1>4, <2>1 DEF StoreInv
<1>5. CASE \E t \in Targets, slot \in BOOLEAN : EnrichAdmit(e, t, slot)
  <2>1. PICK t \in Targets, slot \in BOOLEAN : EnrichAdmit(e, t, slot)
    BY <1>5
  <2> DEFINE pc == FirstStep(Current, t)
             req == [[[[[enrich[e] EXCEPT !.pc = pc] EXCEPT !.target = t]
                        EXCEPT !.slot = slot] EXCEPT !.base = current] EXCEPT !.view = Current]
  <2>2. enrich' = [enrich EXCEPT ![e] = req]
    BY <2>1, <1>1 DEF EnrichAdmit, Request
  <2>3. req \in Request
    <3>1. pc \in {"publish", "check"} /\ t \in Nat
      BY TargetsAssumption DEF FirstStep
    <3> HIDE DEF pc
    <3>2. QED
      BY <1>1, <3>1 DEF Request
  <2>4. enrich' \in [Enrichers -> Request]
    BY <2>2, <2>3, Zenon
  <2>5. QED
    BY <1>4, <2>1, <2>4 DEF EnrichAdmit, beside_enrich, source_vars
<1>6. CASE EnrichCheck(e)
  <2>1. InvalidatedRevision(enrich[e].view) \in View
    BY <1>1, InvalidatedRevisionIsAView
  <2>2. CASE StabilityStops(enrich[e].view)
    <3> DEFINE next == [enrich[e] EXCEPT !.pc = "publish"]
               req  == [next EXCEPT !.view = InvalidatedRevision(enrich[e].view)]
    <3>1. next \in Request
      BY <1>1 DEF Request
    <3>2. req \in Request
      BY <2>1, <3>1 DEF Request
    <3>3. enrich' = [enrich EXCEPT ![e] = req]
      BY <1>1, <1>6, <2>2 DEF EnrichCheck, Request
    <3>4. enrich' \in [Enrichers -> Request]
      BY <3>2, <3>3, Zenon
    <3>5. QED
      BY <1>4, <1>6, <3>4 DEF EnrichCheck, beside_enrich, source_vars
  <2>3. CASE ~StabilityStops(enrich[e].view)
    <3>1. [enrich[e] EXCEPT !.pc = "read"] \in Request
      BY <1>1 DEF Request
    <3>2. enrich' \in [Enrichers -> Request]
      BY <1>6, <2>3, <3>1 DEF EnrichCheck
    <3>3. QED
      BY <1>4, <1>6, <3>2 DEF EnrichCheck, beside_enrich, source_vars
  <2>4. QED
    BY <2>2, <2>3
<1>7. CASE EnrichDecoded(e)
  <2>1. [enrich[e] EXCEPT !.pc = "recheck", !.read_at = disk.stamp] \in Request
    BY <1>1 DEF Request
  <2>2. enrich' \in [Enrichers -> Request]
    BY <1>7, <2>1 DEF EnrichDecoded
  <2>3. QED
    BY <1>4, <1>7, <2>2 DEF EnrichDecoded, beside_enrich, source_vars
<1>8. CASE EnrichViolation(e)
  <2> DEFINE fact == [verdict |-> "invalid", stamp |-> disk.stamp]
             view == Extend(enrich[e].view, enrich[e].target, fact)
             req  == [[enrich[e] EXCEPT !.pc = "publish"] EXCEPT !.view = view]
  <2>1. view \in View
    <3>1. fact \in Fact
      BY <1>1 DEF Fact
    <3>2. QED
      BY <1>1, <3>1, ExtendIsAView
  <2>2. enrich' = [enrich EXCEPT ![e] = req]
    BY <1>1, <1>8 DEF EnrichViolation, Request
  <2>3. req \in Request
    <3> HIDE DEF view
    <3>1. QED
      BY <1>1, <2>1 DEF Request
  <2>4. enrich' \in [Enrichers -> Request]
    BY <2>2, <2>3, Zenon
  <2>5. QED
    BY <1>4, <1>8, <2>4 DEF EnrichViolation, beside_enrich, source_vars
<1>9. CASE EnrichRefused(e)
  <2>1. enrich' \in [Enrichers -> Request]
    BY <1>3, <1>9 DEF EnrichRefused
  <2>2. QED
    BY <1>4, <1>9, <2>1 DEF EnrichRefused, beside_enrich, source_vars
<1>10. CASE EnrichRecheck(e)
  <2> DEFINE fact == [verdict |-> "valid", stamp |-> enrich[e].read_at]
             view == IF StabilityStops(enrich[e].view)
                     THEN InvalidatedRevision(enrich[e].view)
                     ELSE Decoded(enrich[e])
             req  == [[enrich[e] EXCEPT !.pc = "publish"] EXCEPT !.view = view]
  <2>1. view \in View
    <3>1. fact \in Fact
      BY <1>1 DEF Fact, Request
    <3>2. QED
      BY <1>1, <3>1, ExtendIsAView, InvalidatedRevisionIsAView DEF Decoded
  <2>2. enrich' = [enrich EXCEPT ![e] = req]
    BY <1>1, <1>10 DEF EnrichRecheck, Request
  <2>3. req \in Request
    <3> HIDE DEF view
    <3>1. QED
      BY <1>1, <2>1 DEF Request
  <2>4. enrich' \in [Enrichers -> Request]
    BY <2>2, <2>3, Zenon
  <2>5. QED
    BY <1>4, <1>10, <2>4 DEF EnrichRecheck, beside_enrich, source_vars
<1>11. CASE EnrichPublish(e)
  <2> DEFINE accepted == AcceptsRevision(enrich[e].base, enrich[e].view)
             outcome  == IF accepted THEN "retained" ELSE "discarded"
             req      == [[enrich[e] EXCEPT !.pc = "answer"] EXCEPT !.outcome = outcome]
  <2>1. StoreInv'
    BY <1>1, <1>11, RevisionKeepsStore DEF EnrichPublish
  <2>2. enrich' = [enrich EXCEPT ![e] = req]
    BY <1>1, <1>11 DEF EnrichPublish, Request
  <2>3. req \in Request
    <3>1. outcome \in {"retained", "discarded"}
      OBVIOUS
    <3> HIDE DEF outcome
    <3>2. QED
      BY <1>1, <3>1 DEF Request
  <2>4. enrich' \in [Enrichers -> Request]
    BY <2>2, <2>3, Zenon
  <2>5. QED
    BY <1>2, <1>11, <2>1, <2>4 DEF EnrichPublish, StoreInv
<1>12. CASE EnrichAnswer(e)
  <2>1. enrich' \in [Enrichers -> Request]
    BY <1>3, <1>12 DEF EnrichAnswer
  <2>2. QED
    BY <1>4, <1>12, <2>1 DEF EnrichAnswer, beside_enrich, source_vars
<1>13. CASE \E t \in Edges : EnrichRelocation(e, t)
  <2>1. PICK t \in Edges : EnrichRelocation(e, t)
    BY <1>13
  <2> DEFINE pc == FirstStep(enrich[e].view, t)
             req == [[enrich[e] EXCEPT !.pc = pc] EXCEPT !.target = t]
  <2>2. enrich' = [enrich EXCEPT ![e] = req]
    BY <1>1, <2>1 DEF EnrichRelocation, Request
  <2>3. req \in Request
    <3>1. pc \in {"publish", "check"} /\ t \in Nat
      BY KindsAssumption, TargetsAssumption DEF FirstStep
    <3> HIDE DEF pc
    <3>2. QED
      BY <1>1, <3>1 DEF Request
  <2>4. enrich' \in [Enrichers -> Request]
    BY <2>2, <2>3, Zenon
  <2>5. QED
    BY <1>4, <2>1, <2>4 DEF EnrichRelocation, beside_enrich, source_vars
<1>14. QED
  BY <1>5, <1>6, <1>7, <1>8, <1>9, <1>10, <1>11, <1>12, <1>13 DEF EnrichStep

LEMMA LoadKeepsTypes ==
  ASSUME WebInv, NEW l \in Loaders, LoadStep(l)
  PROVE  WebInv'
<1> USE DEF WebInv, TypeOK, FollowTypeOK
<1>1. /\ current \in Nat
      /\ Retained \subseteq Nat
      /\ current \in Retained
      /\ generations \in [Retained -> View]
      /\ change_pending \in BOOLEAN
      /\ notify \in [value : Nat, receivers : SUBSET Watchers, unseen : SUBSET Watchers]
      /\ load[l] \in Load
  BY DEF SourceTypeOK
<1>2. UNCHANGED <<generations, current, change_pending, notify, disk, edits, follower,
                  watch, lock, enrich>>
  BY DEF LoadStep, LoadStart, LoadContinue, LoadEvicted, beside_load, source_vars, disk_vars
<1>3. ASSUME load' \in [Loaders -> Load]
      PROVE  WebInv'
  <2>1. StoreInv'
    BY <1>1, <1>2, StoreBesideStore
  <2>2. QED
    BY <1>2, <1>3, <2>1 DEF StoreInv
<1>4. ASSUME NEW p \in {"idle", "loading", "done", "evicted", "refused"}
      PROVE  [load[l] EXCEPT !.pc = p] \in Load
  BY <1>1 DEF Load
<1>5. ASSUME NEW n \in Retained, NEW offset \in Nat, NEW shown \in [Targets -> Nat],
             Respond(l, n, offset, shown)
      PROVE  load' \in [Loaders -> Load]
  <2> DEFINE view == generations[n]
             pc   == IF PageEnd(view, offset) < Total(view) THEN "loading" ELSE "done"
             seen == [t \in Targets |->
                        shown[t] + (IF t \in Page(view, offset) THEN 1 ELSE 0)]
             pages == (IF offset = 0 THEN {} ELSE load[l].pages) \cup {<<n, view.revision>>}
             listing == IF offset = 0 THEN Relationships(view) ELSE load[l].listing
             r1 == [load[l] EXCEPT !.pc = pc]
             r2 == [r1 EXCEPT !.generation = n]
             r3 == [r2 EXCEPT !.offset = PageEnd(view, offset)]
             r4 == [r3 EXCEPT !.shown = seen]
             r5 == [r4 EXCEPT !.pages = pages]
             r6 == [r5 EXCEPT !.listing = listing]
  <2>1. CASE offset > Total(view)
    BY <1>1, <1>4, <1>5, <2>1 DEF Respond
  <2>2. CASE ~(offset > Total(view))
    <3>1. pc \in {"loading", "done"}
      OBVIOUS
    <3>2. PageEnd(view, offset) \in Nat
      BY TotalIsANumber, PageLimitAssumption DEF PageEnd
    <3>3. seen \in [Targets -> Nat]
      OBVIOUS
    <3>4. pages \in SUBSET (Nat \X Nat)
      <4>1. n \in Nat /\ view.revision \in Nat
        BY <1>1 DEF View
      <4>2. load[l].pages \in SUBSET (Nat \X Nat)
        BY <1>1 DEF Load
      <4>3. QED
        BY <4>1, <4>2
    <3>5. listing \in SUBSET Targets
      BY <1>1 DEF Load, Relationships, Enriched
    <3>6. load' = [load EXCEPT ![l] = r6]
      <4>1. load' = [load EXCEPT
              ![l].pc = pc, ![l].generation = n, ![l].offset = PageEnd(view, offset),
              ![l].shown = seen, ![l].pages = pages, ![l].listing = listing]
        BY <1>5, <2>2 DEF Respond
      <4> HIDE DEF pc, seen, pages, listing
      <4>2. QED
        BY <1>1, <4>1 DEF Load
    <3> HIDE DEF pc, seen, pages, listing
    <3>7. r1 \in Load
      BY <1>1, <3>1 DEF Load
    <3>8. r2 \in Load
      BY <1>1, <3>7 DEF Load
    <3>9. r3 \in Load
      BY <3>2, <3>8 DEF Load
    <3>10. r4 \in Load
      BY <3>3, <3>9 DEF Load
    <3>11. r5 \in Load
      BY <3>4, <3>10 DEF Load
    <3>12. r6 \in Load
      BY <3>5, <3>11 DEF Load
    <3>13. QED
      BY <3>6, <3>12, Zenon
  <2>3. QED
    BY <2>1, <2>2
<1>6. CASE LoadStart(l)
  <2>1. [t \in Targets |-> 0] \in [Targets -> Nat]
    OBVIOUS
  <2>2. QED
    BY <1>1, <1>3, <1>5, <1>6, <2>1 DEF LoadStart
<1>7. CASE LoadContinue(l)
  <2>1. load[l].offset \in Nat /\ load[l].shown \in [Targets -> Nat]
    BY <1>1 DEF Load
  <2>2. QED
    BY <1>3, <1>5, <1>7, <2>1 DEF LoadContinue
<1>8. CASE LoadEvicted(l)
  BY <1>1, <1>3, <1>4, <1>8 DEF LoadEvicted
<1>9. QED
  BY <1>6, <1>7, <1>8 DEF LoadStep

LEMMA InitTypes == Init => WebInv
<1> SUFFICES ASSUME Init PROVE WebInv
  OBVIOUS
<1>1. StoreInv
  BY InitStore
<1>2. disk \in Manifest /\ edits \in Nat /\ follower \in Follower
  <2> DEFINE opened == [stamp |-> 0, extended |-> FALSE]
  <2>1. PICK moved \in 0 .. (IF MaxEdits > 0 THEN 1 ELSE 0) :
          /\ disk = [opened EXCEPT !.stamp = moved]
          /\ edits = moved
          /\ follower = [pc |-> IF following THEN "tick" ELSE "off", pending |-> FALSE,
                         manifest |-> opened, validity |-> "valid", inventory |-> 0]
    BY DEF Init, FollowInit
  <2>2. moved \in Nat
    BY <2>1
  <2>3. opened \in Manifest
    BY DEF Manifest
  <2>4. disk \in Manifest
    BY <2>1, <2>2 DEF Manifest
  <2>5. follower \in Follower
    BY <2>1, <2>3 DEF Follower, Validity
  <2>6. QED
    BY <2>1, <2>2, <2>4, <2>5
<1>3. watch \in [Watchers -> Poll]
  BY DEF Init, IdlePoll, Poll
<1>4. IdleRequest \in Request
  <2> DEFINE view == ScannedView(0, [stamp |-> 0, extended |-> FALSE], "valid", 0)
  <2>1. view \in View
    BY ScannedViewIsAView DEF Manifest, Validity
  <2> HIDE DEF view
  <2>2. [pc |-> "idle", target |-> 0, slot |-> FALSE, base |-> 0, read_at |-> 0, outcome |-> "none",
         view |-> view] \in Request
    BY <2>1 DEF Request
  <2>3. QED
    BY <2>2 DEF view, IdleRequest
<1>5. enrich \in [Enrichers -> Request]
  BY <1>4 DEF Init
<1>6. load \in [Loaders -> Load]
  BY DEF Init, Load
<1>7. QED
  BY <1>1, <1>2, <1>3, <1>5, <1>6
     DEF WebInv, TypeOK, FollowTypeOK, StoreInv, Init

LEMMA NextKeepsTypes == WebInv /\ [Next]_vars => WebInv'
<1> SUFFICES ASSUME WebInv, [Next]_vars PROVE WebInv'
  OBVIOUS
<1>1. CASE FollowNext /\ UNCHANGED web_vars
  <2>1. FollowInv'
    BY <1>1, FollowKeepsTypes DEF FollowInv, WebInv, TypeOK
  <2>2. QED
    BY <1>1, <2>1 DEF FollowInv, WebInv, TypeOK, web_vars
<1>2. CASE UNCHANGED vars
  <2>1. StoreInv'
    BY <1>2, StoreBesideStore DEF vars, WebInv, StoreInv, SourceTypeOK
  <2>2. QED
    BY <1>2, <2>1 DEF vars, WebInv, TypeOK, FollowTypeOK, StoreInv
<1>3. QED
  BY <1>1, <1>2, WatchKeepsTypes, EnrichKeepsTypes, LoadKeepsTypes DEF Next

(* Every variable of the store, the follower and the handlers keeps its *)
(* type; in particular every generation holds a complete view, and the  *)
(* current one is always addressable (LiveSource::current expects it).  *)
THEOREM TypeCorrect == Spec => []TypeOK
<1>1. WebInv => TypeOK
  BY DEF WebInv
<1>2. QED
  BY <1>1, InitTypes, NextKeepsTypes, PTL DEF Spec

(* The eviction loop of publish leaves exactly the newest generations   *)
(* addressable, for every retention, including the zero that is raised. *)
THEOREM RetentionIsCorrect == Spec => []RetentionIsTheNewest
<1>1. WebInv => RetentionIsTheNewest
  BY DEF WebInv, StoreInv
<1>2. QED
  BY <1>1, InitTypes, NextKeepsTypes, PTL DEF Spec

-------------------------------------------------------------------------------
(* What the follower and the long polls agree on: the pending change, and  *)
(* the watch channel between a publication and the poll it wakes.          *)

(* The handlers leave the follower's state and the pending change alone.    *)
LEMMA HandlersLeaveTheFollower ==
  ASSUME (\E w \in Watchers : WatchStep(w)) \/ (\E e \in Enrichers : EnrichStep(e))
           \/ (\E l \in Loaders : LoadStep(l)) \/ UNCHANGED vars
  PROVE  UNCHANGED <<current, change_pending, disk, edits, follower>>
BY EnrichingIsLocal
   DEF WatchStep, WatchOpen, WatchDecide, WatchWoken, WatchTimedOut, WatchAnswer,
       WatchDropped, LoadStep, LoadStart, LoadContinue, LoadEvicted, beside_watch,
       beside_load, source_vars, disk_vars, vars

-------------------------------------------------------------------------------
(* Readers are told of a pending change exactly while the follower, alive, *)
(* holds one (follow, note_change_pending, publish).                       *)
THEOREM PendingIsAlwaysShared == Spec => []PendingIsShared
<1>1. ASSUME Init PROVE PendingIsShared
  <2>1. change_pending = FALSE /\ follower.pending = FALSE
    BY <1>1 DEF Init, FollowInit, SourceInit
  <2>2. QED
    BY <2>1 DEF PendingIsShared
<1>2. ASSUME TypeOK, PendingIsShared, [Next]_vars
      PROVE  PendingIsShared'
  <2>1. /\ follower \in Follower
        /\ follower.pending \in BOOLEAN
        /\ change_pending \in BOOLEAN
    BY <1>2 DEF TypeOK, FollowTypeOK, Follower, SourceTypeOK
  <2>2. CASE InputStep
    BY <1>2, <2>2 DEF InputStep, WriteVolume, ChangeVolumeSet, source_vars, PendingIsShared
  <2>3. CASE PollRead
    BY <1>2, <2>1, <2>3 DEF PollRead, source_vars, PendingIsShared, Follower
  <2>4. CASE PollUnchanged
    BY <1>2, <2>1, <2>4 DEF PollUnchanged, Released, NoteChangePending, PendingIsShared, Follower
  <2>5. CASE PollDefer
    BY <1>2, <2>1, <2>5 DEF PollDefer, Released, NoteChange, NoteChangePending,
                             PendingIsShared, Follower
  <2>6. CASE PollRescan
    BY <1>2, <2>1, <2>6 DEF PollRescan, NoteChange, NoteChangePending, PendingIsShared, Follower
  <2>7. CASE ScanVerified
    BY <1>2, <2>1, <2>7 DEF ScanVerified, source_vars, PendingIsShared, Follower
  <2>8. CASE ScanInventoried
    BY <1>2, <2>1, <2>8 DEF ScanInventoried, source_vars, PendingIsShared, Follower
  <2>9. CASE ScanFailed
    BY <1>2, <2>1, <2>9 DEF ScanFailed, Released, source_vars, PendingIsShared, Follower
  <2>10. CASE PublishScan
    BY <1>2, <2>1, <2>10 DEF PublishScan, Released, Publish, PendingIsShared, Follower
  <2>11. CASE NotifyWatchers
    BY <1>2, <2>1, <2>11 DEF NotifyWatchers, PendingIsShared, Follower
  <2>12. CASE FollowerDies
    BY <1>2, <2>1, <2>12 DEF FollowerDies, Released, PendingIsShared, Follower
  <2>13. CASE UNCHANGED <<change_pending, follower>>
    BY <1>2, <2>13 DEF PendingIsShared
  <2>14. QED
    BY <1>2, <2>2, <2>3, <2>4, <2>5, <2>6, <2>7, <2>8, <2>9, <2>10, <2>11, <2>12, <2>13,
       HandlersLeaveTheFollower DEF Next, FollowNext, FollowerStep
<1>3. QED
  BY <1>1, <1>2, TypeCorrect, PTL DEF Spec

-------------------------------------------------------------------------------
(* The watch channel.  Nothing is unseen except by a live receiver; what is *)
(* unseen is the current generation, unless the next send is under way; and *)
(* an open poll asked about the current generation unless it has something  *)
(* to see.                                                                  *)
ChannelInv ==
  /\ notify.unseen \subseteq notify.receivers
  /\ (notify.unseen # {} /\ follower.pc # "notifying") => notify.value = current

PollInv(w) ==
  /\ w \in notify.receivers => watch[w].pc # "idle"
  /\ watch[w].known <= current
  /\ watch[w].pc \in {"open", "waiting"} =>
       /\ w \in notify.receivers
       /\ watch[w].known <= watch[w].asked
       /\ watch[w].asked <= current
       /\ (w \notin notify.unseen /\ follower.pc # "notifying") => watch[w].asked = current

WatchInv == ChannelInv /\ \A w \in Watchers : PollInv(w)

LEMMA FollowKeepsWatch ==
  ASSUME WebInv, WatchInv, FollowNext, UNCHANGED watch
  PROVE  WatchInv'
<1>1. /\ current \in Nat
      /\ follower \in Follower
      /\ notify \in [value : Nat, receivers : SUBSET Watchers, unseen : SUBSET Watchers]
      /\ watch \in [Watchers -> Poll]
  BY DEF WebInv, TypeOK, FollowTypeOK, SourceTypeOK
<1>2. ASSUME NEW w \in Watchers
      PROVE  watch[w].known \in Nat /\ watch[w].asked \in Nat
  BY <1>1 DEF Poll
<1>3. CASE PublishScan
  <2>1. /\ current' = current + 1
        /\ notify' = notify
        /\ follower'.pc = "notifying"
    BY <1>1, <1>3 DEF PublishScan, Released, Publish, Follower
  <2>2. ChannelInv'
    BY <2>1 DEF WatchInv, ChannelInv
  <2>3. ASSUME NEW w \in Watchers PROVE PollInv(w)'
    BY <1>1, <1>2, <2>1 DEF WatchInv, PollInv
  <2>4. QED
    BY <2>2, <2>3 DEF WatchInv
<1>4. CASE NotifyWatchers
  <2>1. current' = current /\ SendGeneration(current)
    BY <1>4 DEF NotifyWatchers
  <2>2. CASE notify.receivers = {}
    <3>1. notify' = notify /\ notify.unseen = {}
      BY <2>1, <2>2 DEF SendGeneration, WatchInv, ChannelInv
    <3>2. \A w \in Watchers : watch[w].pc \notin {"open", "waiting"}
      BY <2>2 DEF WatchInv, PollInv
    <3>3. QED
      BY <2>1, <3>1, <3>2 DEF WatchInv, ChannelInv, PollInv
  <2>3. CASE notify.receivers # {}
    <3>1. /\ notify'.value = current
          /\ notify'.receivers = notify.receivers
          /\ notify'.unseen = notify.receivers
      BY <1>1, <2>1, <2>3 DEF SendGeneration
    <3>2. ChannelInv'
      BY <2>1, <3>1 DEF ChannelInv
    <3>3. \A w \in Watchers : PollInv(w)'
      BY <2>1, <3>1 DEF WatchInv, PollInv
    <3>4. QED
      BY <3>2, <3>3 DEF WatchInv
  <2>4. QED
    BY <2>2, <2>3
<1>5. CASE \/ InputStep \/ PollRead \/ PollUnchanged \/ PollDefer \/ PollRescan
           \/ ScanVerified \/ ScanInventoried \/ ScanFailed \/ FollowerDies
  <2>1. /\ UNCHANGED <<current, notify>>
        /\ follower.pc = "notifying" => follower' = follower
    BY <1>5 DEF InputStep, WriteVolume, ChangeVolumeSet, PollRead, PollUnchanged, PollDefer,
                PollRescan, ScanVerified, ScanInventoried, ScanFailed, FollowerDies, source_vars
  <2>2. QED
    BY <2>1 DEF WatchInv, ChannelInv, PollInv
<1>6. QED
  BY <1>3, <1>4, <1>5 DEF FollowNext, FollowerStep

LEMMA PollsKeepWatch ==
  ASSUME WebInv, WatchInv, NEW w \in Watchers, WatchStep(w)
  PROVE  WatchInv'
<1>1. /\ current \in Nat
      /\ notify \in [value : Nat, receivers : SUBSET Watchers, unseen : SUBSET Watchers]
      /\ watch \in [Watchers -> Poll]
      /\ watch[w] \in Poll
  BY DEF WebInv, TypeOK, FollowTypeOK, SourceTypeOK
<1>2. UNCHANGED <<current, follower>>
  BY DEF WatchStep, WatchOpen, WatchDecide, WatchWoken, WatchTimedOut, WatchAnswer,
         WatchDropped, beside_watch
<1>3. watch[w].known \in Nat /\ watch[w].asked \in Nat
  BY <1>1 DEF Poll
<1>4. ASSUME \A v \in Watchers \ {w} :
               /\ watch'[v] = watch[v]
               /\ v \in notify'.receivers <=> v \in notify.receivers
               /\ v \in notify'.unseen <=> v \in notify.unseen
      PROVE  \A v \in Watchers \ {w} : PollInv(v)'
  BY <1>2, <1>4 DEF WatchInv, PollInv
<1>5. CASE WatchOpen(w)
  <2>1. /\ notify'.unseen = notify.unseen /\ notify'.value = notify.value
        /\ notify'.receivers = notify.receivers \cup {w}
    BY <1>1, <1>5 DEF WatchOpen, Subscribe
  <2>2. /\ watch'[w].pc = "open" /\ watch'[w].asked = current
        /\ watch'[w].known = watch[w].known
        /\ \A v \in Watchers \ {w} : watch'[v] = watch[v]
    BY <1>1, <1>5 DEF WatchOpen, Poll
  <2>3. PollInv(w)'
    BY <1>1, <1>2, <1>3, <2>1, <2>2 DEF WatchInv, PollInv
  <2>4. ChannelInv'
    BY <1>2, <2>1 DEF WatchInv, ChannelInv
  <2>5. QED
    BY <1>4, <2>1, <2>2, <2>3, <2>4 DEF WatchInv
<1>6. CASE WatchDecide(w)
  <2>1. /\ notify'.unseen = notify.unseen \ {w} /\ notify'.value = notify.value
        /\ notify'.receivers = notify.receivers
    BY <1>1, <1>6 DEF WatchDecide, MarkSeen
  <2>2. /\ watch[w].pc = "open"
        /\ watch'[w].asked = watch[w].asked /\ watch'[w].known = watch[w].known
        /\ \A v \in Watchers \ {w} : watch'[v] = watch[v]
        /\ watch'[w].pc = "waiting" \/ watch'[w].pc = "answering"
        /\ watch'[w].pc = "waiting" => watch[w].known = notify.value
    BY <1>1, <1>6 DEF WatchDecide, Poll
  <2>3. (watch'[w].pc = "waiting" /\ follower.pc # "notifying") => watch[w].asked = current
    <3>1. CASE w \in notify.unseen
      BY <1>1, <1>3, <2>2, <3>1 DEF WatchInv, ChannelInv, PollInv
    <3>2. CASE w \notin notify.unseen
      BY <2>2, <3>2 DEF WatchInv, PollInv
    <3>3. QED
      BY <3>1, <3>2
  <2>4. PollInv(w)'
    BY <1>2, <2>1, <2>2, <2>3 DEF WatchInv, PollInv
  <2>5. ChannelInv'
    BY <1>2, <2>1 DEF WatchInv, ChannelInv
  <2>6. QED
    BY <1>4, <2>1, <2>2, <2>4, <2>5 DEF WatchInv
<1>7. CASE WatchWoken(w) \/ WatchTimedOut(w)
  <2>1. /\ notify'.unseen = notify.unseen \ {w} \/ notify'.unseen = notify.unseen
        /\ notify'.value = notify.value
        /\ notify'.receivers = notify.receivers
        /\ \A v \in Watchers \ {w} : v \in notify'.unseen <=> v \in notify.unseen
    BY <1>1, <1>7 DEF WatchWoken, WatchTimedOut, MarkSeen
  <2>2. /\ watch'[w].pc = "answering" /\ watch'[w].known = watch[w].known
        /\ \A v \in Watchers \ {w} : watch'[v] = watch[v]
    BY <1>1, <1>7 DEF WatchWoken, WatchTimedOut, Poll
  <2>3. PollInv(w)'
    BY <1>2, <2>1, <2>2 DEF WatchInv, PollInv
  <2>4. ChannelInv'
    BY <1>2, <2>1 DEF WatchInv, ChannelInv
  <2>5. QED
    BY <1>4, <2>1, <2>2, <2>3, <2>4 DEF WatchInv
<1>8. CASE WatchAnswer(w) \/ WatchDropped(w)
  <2>1. /\ notify'.unseen = notify.unseen \ {w} /\ notify'.value = notify.value
        /\ notify'.receivers = notify.receivers \ {w}
    BY <1>1, <1>8 DEF WatchAnswer, WatchDropped, Unsubscribe
  <2>2. /\ watch'[w].pc = "idle"
        /\ watch'[w].known = current \/ watch'[w].known = watch[w].known
        /\ \A v \in Watchers \ {w} : watch'[v] = watch[v]
    BY <1>1, <1>8 DEF WatchAnswer, WatchDropped, IdlePoll
  <2>3. PollInv(w)'
    BY <1>1, <1>2, <2>1, <2>2 DEF WatchInv, PollInv
  <2>4. ChannelInv'
    BY <1>2, <2>1 DEF WatchInv, ChannelInv
  <2>5. QED
    BY <1>4, <2>1, <2>2, <2>3, <2>4 DEF WatchInv
<1>9. QED
  BY <1>5, <1>6, <1>7, <1>8 DEF WatchStep

(* No publication is lost between a poll's subscription, its decision to *)
(* wait and its waiting, for any number of polls and publications.       *)
THEOREM NoPublicationIsMissed == Spec => []NoMissedPublication
<1>1. Init => WatchInv
  <2> SUFFICES ASSUME Init PROVE WatchInv
    OBVIOUS
  <2>1. /\ current = 0 /\ notify = [value |-> 0, receivers |-> {}, unseen |-> {}]
        /\ watch = [w \in Watchers |-> IdlePoll]
    BY DEF Init, FollowInit, SourceInit
  <2>2. QED
    BY <2>1 DEF WatchInv, ChannelInv, PollInv, IdlePoll
<1>2. ASSUME WebInv, WatchInv, [Next]_vars
      PROVE  WatchInv'
  <2>1. ASSUME UNCHANGED <<current, notify, follower, watch>>
        PROVE  WatchInv'
    BY <1>2, <2>1 DEF WatchInv, ChannelInv, PollInv
  <2>2. CASE \E e \in Enrichers : EnrichStep(e)
    BY <2>1, <2>2, EnrichingIsLocal
  <2>3. CASE \E l \in Loaders : LoadStep(l)
    BY <2>1, <2>3 DEF LoadStep, LoadStart, LoadContinue, LoadEvicted, beside_load, source_vars
  <2>4. CASE UNCHANGED vars
    BY <2>1, <2>4 DEF vars
  <2>5. CASE FollowNext /\ UNCHANGED web_vars
    BY <1>2, <2>5, FollowKeepsWatch DEF web_vars
  <2>6. QED
    BY <1>2, <2>2, <2>3, <2>4, <2>5, PollsKeepWatch DEF Next
<1>3. WatchInv => NoMissedPublication
  BY DEF WatchInv, PollInv, NoMissedPublication
<1>4. QED
  BY <1>1, <1>2, <1>3, InitTypes, NextKeepsTypes, PTL DEF Spec


-------------------------------------------------------------------------------
(**************************************************************************)
(* Deep reads against the follower: what the enrichment mutex and the     *)
(* acceptance check of publish_revision guarantee while generations are   *)
(* published and evicted, and that a session keeps LiveSession's promise. *)
(**************************************************************************)

-------------------------------------------------------------------------------
(* Views.                                                                   *)

LEMMA ScannedViewIsBare ==
  ASSUME NEW number, NEW fingerprint, NEW validity, NEW inventory
  PROVE  Enriched(ScannedView(number, fingerprint, validity, inventory)) = {}
BY DEF Enriched, ScannedView, NoFact

LEMMA ExtendEnriches ==
  ASSUME NEW view \in View, NEW t \in Targets, NEW fact \in Fact, fact.verdict # "none"
  PROVE  /\ Extend(view, t, fact).revision = view.revision + 1
         /\ Extend(view, t, fact).scan = view.scan
         /\ Extend(view, t, fact).fingerprint = view.fingerprint
         /\ Extend(view, t, fact).validity = view.validity
         /\ Extend(view, t, fact).inventory = view.inventory
         /\ Enriched(Extend(view, t, fact)) = Enriched(view) \cup {t}
<1>1. /\ Extend(view, t, fact).revision = view.revision + 1
      /\ Extend(view, t, fact).scan = view.scan
      /\ Extend(view, t, fact).fingerprint = view.fingerprint
      /\ Extend(view, t, fact).validity = view.validity
      /\ Extend(view, t, fact).inventory = view.inventory
      /\ Extend(view, t, fact).facts = [view.facts EXCEPT ![t] = fact]
  BY DEF Extend, View
<1>2. view.facts \in [Targets -> Fact]
  BY DEF View
<1>3. Enriched(Extend(view, t, fact)) = Enriched(view) \cup {t}
  BY <1>1, <1>2 DEF Enriched
<1>4. QED
  BY <1>1, <1>3

LEMMA InvalidatedRevisionKeepsFacts ==
  ASSUME NEW view \in View, view.validity # "invalidated"
  PROVE  /\ InvalidatedRevision(view).revision = view.revision + 1
         /\ InvalidatedRevision(view).scan = view.scan
         /\ InvalidatedRevision(view).fingerprint = view.fingerprint
         /\ InvalidatedRevision(view).validity = "invalidated"
         /\ InvalidatedRevision(view).inventory = view.inventory
         /\ Enriched(InvalidatedRevision(view)) = Enriched(view)
BY DEF InvalidatedRevision, View, Enriched

-------------------------------------------------------------------------------
(* The inductive invariant.  A request in progress holds the mutex, so no   *)
(* other request changes its base; the follower does not change a           *)
(* generation, it only adds and evicts, and an evicted number never returns *)
(* because the base is not ahead of the current generation.  So while the   *)
(* base is addressable, the request works on its latest view or on one that *)
(* its own steps have taken further, and what it publishes has settled the  *)
(* target it went for last.                                                 *)

Settled(t, view) == t \in Enriched(view) \/ view.validity = "invalidated"

Succeeds(next, view) ==
  /\ next.revision > view.revision
  /\ next.scan = view.scan
  /\ next.fingerprint = view.fingerprint
  /\ next.inventory = view.inventory
  /\ next.validity \in {view.validity, "invalidated"}
  /\ Enriched(view) \subseteq Enriched(next)

Extends(next, view) == next = view \/ Succeeds(next, view)

WorksOn(request, view) ==
  /\ request.pc \in {"check", "read", "recheck", "publish"} => Extends(request.view, view)
  /\ request.pc = "publish" => Settled(request.target, request.view)
  /\ (request.pc = "answer" /\ request.outcome = "discarded")
       => Settled(request.target, view)

RequestInv(e) ==
  enrich[e].pc # "idle" =>
    /\ lock = e
    /\ enrich[e].base <= current
    /\ enrich[e].target \in Targets
    /\ enrich[e].base \in Retained => WorksOn(enrich[e], generations[enrich[e].base])

DeepReadInv ==
  /\ \A e \in Enrichers : RequestInv(e)
  /\ EnrichmentStaysOnItsGeneration

(* The follower adds one generation and evicts others; it changes none.     *)
LEMMA FollowerChangesNoGeneration ==
  ASSUME FollowInv, FollowNext
  PROVE  /\ current <= current'
         /\ \A n \in Retained' :
              \/ n \in Retained /\ generations'[n] = generations[n]
              \/ /\ n = current + 1
                 /\ generations'[n] = ScannedView(n, follower.manifest, follower.validity,
                                                   follower.inventory)
<1>1. current \in Nat
  BY DEF FollowInv, StoreInv, SourceTypeOK
<1>2. CASE PublishScan
  <2>1. /\ follower.manifest \in Manifest
        /\ follower.validity \in Validity \ {"superseded"}
        /\ follower.inventory \in Nat
    BY DEF FollowInv, FollowTypeOK, Follower
  <2>2. Publish(follower.manifest, follower.validity, follower.inventory)
    BY <1>2 DEF PublishScan
  <2>3. QED
    BY <1>1, <2>1, <2>2, PublishStore DEF FollowInv
<1>3. CASE UNCHANGED <<generations, current>>
  BY <1>1, <1>3 DEF Retained
<1>4. FollowNext => PublishScan \/ UNCHANGED <<generations, current>>
  BY DEF FollowNext, InputStep, FollowerStep, WriteVolume, ChangeVolumeSet,
         PollRead, PollUnchanged, PollDefer, PollRescan, ScanVerified, ScanInventoried,
         ScanFailed, NotifyWatchers, FollowerDies, source_vars
<1>5. QED
  BY <1>2, <1>3, <1>4

LEMMA FollowKeepsDeepReads ==
  ASSUME FollowInv, DeepReadInv, FollowNext, UNCHANGED <<lock, enrich>>,
         enrich \in [Enrichers -> Request]
  PROVE  DeepReadInv'
<1>1. current \in Nat /\ current' \in Nat
  BY FollowKeepsTypes DEF FollowInv, StoreInv, SourceTypeOK
<1>2. ASSUME NEW e \in Enrichers
      PROVE  RequestInv(e)'
  <2>1. CASE enrich[e].pc = "idle"
    BY <2>1 DEF RequestInv
  <2>2. CASE enrich[e].pc # "idle"
    <3>1. /\ lock = e
          /\ enrich[e].base <= current
          /\ enrich[e].target \in Targets
          /\ enrich[e].base \in Retained => WorksOn(enrich[e], generations[enrich[e].base])
      BY <2>2 DEF DeepReadInv, RequestInv
    <3>2. enrich[e].base \in Nat
      BY DEF Request
    <3>3. enrich[e].base <= current'
      BY <1>1, <3>1, <3>2, FollowerChangesNoGeneration
    <3>4. enrich[e].base # current + 1
      BY <1>1, <3>1, <3>2
    <3>5. enrich[e].base \in Retained' =>
            /\ enrich[e].base \in Retained
            /\ generations'[enrich[e].base] = generations[enrich[e].base]
      BY <3>4, FollowerChangesNoGeneration
    <3>6. enrich[e].base \in Retained' => WorksOn(enrich[e], generations'[enrich[e].base])
      BY <3>1, <3>5, Zenon
    <3>7. QED
      BY <3>1, <3>3, <3>6 DEF RequestInv, WorksOn, Settled, Extends, Succeeds, Enriched
  <2>3. QED
    BY <2>1, <2>2
<1>3. EnrichmentStaysOnItsGeneration'
  <2>1. ASSUME NEW n \in Retained'
        PROVE  generations'[n].scan = n
    <3>1. CASE n \in Retained /\ generations'[n] = generations[n]
      BY <3>1 DEF DeepReadInv, EnrichmentStaysOnItsGeneration
    <3>2. CASE generations'[n] = ScannedView(n, follower.manifest, follower.validity,
                                             follower.inventory)
      BY <3>2 DEF ScannedView
    <3>3. QED
      BY <2>1, <3>1, <3>2, FollowerChangesNoGeneration
  <2>2. QED
    BY <2>1 DEF EnrichmentStaysOnItsGeneration
<1>4. QED
  BY <1>2, <1>3 DEF DeepReadInv

(* A step of one request finds every other idle.                            *)
LEMMA OthersAreIdle ==
  ASSUME DeepReadInv, NEW e \in Enrichers, EnrichStep(e), NEW f \in Enrichers, f # e,
         enrich \in [Enrichers -> Request]
  PROVE  enrich'[f] = enrich[f] /\ enrich[f].pc = "idle"
<1> DEFINE Admitted == \E t \in Targets, slot \in BOOLEAN : EnrichAdmit(e, t, slot)
<1>1. enrich'[f] = enrich[f]
  BY DEF EnrichStep, EnrichAdmit, EnrichCheck, EnrichDecoded, EnrichViolation,
         EnrichRelocation, EnrichRefused, EnrichRecheck, EnrichPublish, EnrichAnswer
<1>2. Admitted => lock = Nobody
  BY DEF EnrichAdmit
<1>3. ~Admitted => lock = e
  BY DEF EnrichStep, EnrichCheck, EnrichDecoded, EnrichViolation, EnrichRelocation,
         EnrichRefused, EnrichRecheck, EnrichPublish, EnrichAnswer, DeepReadInv, RequestInv
<1>4. lock # f
  BY <1>2, <1>3, NobodyAssumption
<1>5. QED
  BY <1>1, <1>4 DEF DeepReadInv, RequestInv

(* What a request in progress has in hand before it publishes.              *)
LEMMA SuccessorOfAnExtension ==
  ASSUME NEW base \in View, NEW view \in View, NEW next \in View,
         Extends(view, base), Extends(next, view)
  PROVE  Extends(next, base)
BY DEF Extends, Succeeds, View

LEMMA InvalidatingExtends ==
  ASSUME NEW view \in View, NEW t
  PROVE  /\ Extends(InvalidatedRevision(view), view)
         /\ Settled(t, InvalidatedRevision(view))
<1>1. CASE view.validity = "invalidated"
  BY <1>1 DEF InvalidatedRevision, Extends, Settled
<1>2. CASE view.validity # "invalidated"
  BY <1>2, InvalidatedRevisionKeepsFacts DEF Extends, Succeeds, Settled, View
<1>3. QED
  BY <1>1, <1>2

LEMMA ExtendingExtends ==
  ASSUME NEW view \in View, NEW t \in Targets, NEW fact \in Fact, fact.verdict # "none"
  PROVE  /\ Extends(Extend(view, t, fact), view)
         /\ Settled(t, Extend(view, t, fact))
BY ExtendEnriches DEF Extends, Succeeds, Settled, View

LEMMA DecodingExtends ==
  ASSUME NEW request \in Request, request.target \in Targets
  PROVE  /\ Decoded(request) \in View
         /\ Extends(Decoded(request), request.view)
         /\ Settled(request.target, Decoded(request))
<1> DEFINE fact == [verdict |-> "valid", stamp |-> request.read_at]
<1>1. request.view \in View /\ fact \in Fact /\ fact.verdict # "none"
  BY DEF Request, Fact
<1>2. CASE request.target \in Enriched(request.view)
  BY <1>1, <1>2 DEF Decoded, Extends, Settled
<1>3. CASE request.target \notin Enriched(request.view)
  BY <1>1, <1>3, ExtendIsAView, ExtendingExtends DEF Decoded
<1>4. QED
  BY <1>2, <1>3

(* Publishing changes at most the base, and replaces it by its successor.   *)
LEMMA PublishingSucceeds ==
  ASSUME WebInv, DeepReadInv, NEW e \in Enrichers, EnrichPublish(e)
  PROVE  LET n == enrich[e].base IN
         \/ /\ AcceptsRevision(n, enrich[e].view)
            /\ n \in Retained
            /\ Succeeds(enrich[e].view, generations[n])
            /\ generations' = [generations EXCEPT ![n] = enrich[e].view]
         \/ /\ ~AcceptsRevision(n, enrich[e].view)
            /\ generations' = generations
            /\ n \in Retained => Settled(enrich[e].target, generations[n])
<1> DEFINE n == enrich[e].base
<1>1. n \in Retained => WorksOn(enrich[e], generations[n])
  BY DEF DeepReadInv, RequestInv, EnrichPublish
<1>2. n \in Retained => generations[n] \in View
  BY DEF WebInv, StoreInv, SourceTypeOK
<1>3. enrich[e].pc = "publish"
  BY DEF EnrichPublish
<1>4. CASE AcceptsRevision(n, enrich[e].view)
  <2>1. n \in Retained /\ enrich[e].view.revision > generations[n].revision
    BY <1>4 DEF AcceptsRevision
  <2>2. generations[n].revision \in Nat
    BY <1>2, <2>1 DEF View
  <2>3. enrich[e].view # generations[n]
    BY <2>1, <2>2
  <2>4. Succeeds(enrich[e].view, generations[n])
    BY <1>1, <1>3, <2>1, <2>3 DEF WorksOn, Extends
  <2>5. generations' = [generations EXCEPT ![n] = enrich[e].view]
    BY <1>4 DEF EnrichPublish, PublishRevision
  <2>6. QED
    BY <1>4, <2>1, <2>4, <2>5
<1>5. CASE ~AcceptsRevision(n, enrich[e].view)
  <2>1. generations' = generations
    BY <1>5 DEF EnrichPublish, PublishRevision
  <2>2. ASSUME n \in Retained PROVE Settled(enrich[e].target, generations[n])
    <3>1. ~(enrich[e].view.revision > generations[n].revision)
      BY <1>5, <2>2 DEF AcceptsRevision
    <3>2. ~Succeeds(enrich[e].view, generations[n])
      BY <3>1 DEF Succeeds
    <3>3. enrich[e].view = generations[n]
      BY <1>1, <1>3, <2>2, <3>2 DEF WorksOn, Extends
    <3>4. QED
      BY <1>1, <1>3, <2>2, <3>3 DEF WorksOn
  <2>3. QED
    BY <1>5, <2>1, <2>2
<1>6. QED
  BY <1>4, <1>5

LEMMA EnrichKeepsDeepReads ==
  ASSUME WebInv, DeepReadInv, NEW e \in Enrichers, EnrichStep(e)
  PROVE  DeepReadInv'
<1> DEFINE r == enrich[e]
           n == enrich[e].base
<1>1. /\ enrich \in [Enrichers -> Request]
      /\ r \in Request
      /\ r.view \in View
      /\ current \in Nat
      /\ current \in Retained
      /\ generations \in [Retained -> View]
      /\ disk.stamp \in Nat
  BY DEF WebInv, TypeOK, FollowTypeOK, SourceTypeOK, Request, Manifest
<1>2. ASSUME NEW f \in Enrichers, f # e
      PROVE  RequestInv(f)'
  BY <1>1, <1>2, OthersAreIdle DEF RequestInv
<1>3. RequestInv(e)
  BY DEF DeepReadInv
<1>4. ASSUME UNCHANGED <<generations, current>>, RequestInv(e)'
      PROVE  DeepReadInv'
  <2>1. EnrichmentStaysOnItsGeneration'
    BY <1>4 DEF DeepReadInv, EnrichmentStaysOnItsGeneration, Retained
  <2>2. QED
    BY <1>2, <1>4, <2>1 DEF DeepReadInv
<1>5. ASSUME NEW request \in Request, enrich' = [enrich EXCEPT ![e] = request],
             r.pc \in {"check", "read", "recheck", "publish"},
             UNCHANGED <<generations, current, lock>>,
             request.base = n, request.target \in Targets,
             request.pc \in {"check", "read", "recheck", "publish"},
             Extends(request.view, r.view),
             request.pc = "publish" => Settled(request.target, request.view)
      PROVE  DeepReadInv'
  <2>1. enrich'[e] = request
    BY <1>1, <1>5
  <2>2. Retained' = Retained
    BY <1>5 DEF Retained
  <2>3. lock = e /\ n <= current
    BY <1>3, <1>5 DEF RequestInv
  <2>4. ASSUME n \in Retained PROVE WorksOn(request, generations[n])
    <3>1. Extends(r.view, generations[n])
      BY <1>3, <1>5, <2>4 DEF RequestInv, WorksOn
    <3>2. generations[n] \in View /\ request.view \in View
      BY <1>1, <1>5, <2>4 DEF Request
    <3>3. Extends(request.view, generations[n])
      BY <1>1, <1>5, <3>1, <3>2, SuccessorOfAnExtension
    <3>4. QED
      BY <1>5, <3>3 DEF WorksOn
  <2>5. n \in Retained' => WorksOn(request, generations'[n])
    BY <1>5, <2>2, <2>4, Zenon
  <2>6. RequestInv(e)'
    BY <1>5, <2>1, <2>3, <2>5 DEF RequestInv, WorksOn, Settled, Extends, Succeeds, Enriched
  <2>7. QED
    BY <1>4, <1>5, <2>6
<1>6. ASSUME UNCHANGED <<generations, current>>, enrich'[e].pc = "idle"
      PROVE  DeepReadInv'
  BY <1>4, <1>6 DEF RequestInv
<1>7. CASE \E t \in Targets, slot \in BOOLEAN : EnrichAdmit(e, t, slot)
  <2>1. PICK t \in Targets, slot \in BOOLEAN : EnrichAdmit(e, t, slot)
    BY <1>7
  <2>2. /\ enrich'[e].pc = FirstStep(Current, t)
        /\ enrich'[e].target = t
        /\ enrich'[e].base = current
        /\ enrich'[e].view = generations[current]
        /\ lock' = e
        /\ UNCHANGED <<generations, current>>
    BY <1>1, <2>1 DEF EnrichAdmit, Current, beside_enrich, source_vars, Request
  <2>3. WorksOn(enrich'[e], generations[current])
    BY <2>2 DEF WorksOn, Extends, Settled, Current, FirstStep
  <2>4. RequestInv(e)'
    BY <1>1, <2>2, <2>3 DEF RequestInv, WorksOn, Settled, Extends, Succeeds, Enriched
  <2>5. QED
    BY <1>4, <2>2, <2>4
<1>8. r.pc # "idle" => r.target \in Targets
  BY <1>3 DEF RequestInv
<1>9. CASE EnrichCheck(e)
  <2> DEFINE stops == StabilityStops(r.view)
             next == IF stops THEN InvalidatedRevision(r.view) ELSE r.view
             pc == IF stops THEN "publish" ELSE "read"
             request == [[r EXCEPT !.pc = pc] EXCEPT !.view = next]
  <2>1. enrich' = [enrich EXCEPT ![e] = request]
    <3>1. CASE stops
      BY <1>1, <1>9, <3>1 DEF EnrichCheck, Request
    <3>2. CASE ~stops
      BY <1>1, <1>9, <3>2 DEF EnrichCheck, Request
    <3>3. QED
      BY <3>1, <3>2
  <2>2. /\ next \in View /\ Extends(next, r.view) /\ pc \in {"publish", "read"}
        /\ pc = "publish" => Settled(r.target, next)
    BY <1>1, InvalidatingExtends, InvalidatedRevisionIsAView DEF Extends
  <2> HIDE DEF stops, next, pc
  <2>3. /\ request \in Request /\ request.base = n /\ request.target = r.target
        /\ request.pc = pc /\ request.view = next
    BY <1>1, <2>2 DEF Request
  <2>4. r.pc = "check" /\ UNCHANGED <<generations, current, lock>>
    BY <1>9 DEF EnrichCheck, beside_enrich, source_vars
  <2> HIDE DEF request
  <2>5. QED
    BY <1>5, <1>8, <2>1, <2>2, <2>3, <2>4
<1>10. CASE EnrichDecoded(e)
  <2> DEFINE request == [r EXCEPT !.pc = "recheck", !.read_at = disk.stamp]
  <2>1. enrich' = [enrich EXCEPT ![e] = request]
    BY <1>1, <1>10 DEF EnrichDecoded
  <2>2. /\ request \in Request /\ request.base = n /\ request.target = r.target
        /\ request.pc = "recheck" /\ request.view = r.view
    BY <1>1 DEF Request
  <2>3. r.pc = "read" /\ UNCHANGED <<generations, current, lock>>
    BY <1>10 DEF EnrichDecoded, beside_enrich, source_vars
  <2> HIDE DEF request
  <2>4. Extends(request.view, r.view)
    BY <2>2 DEF Extends
  <2>5. QED
    BY <1>5, <1>8, <2>1, <2>2, <2>3, <2>4
<1>11. CASE EnrichViolation(e)
  <2> DEFINE fact == [verdict |-> "invalid", stamp |-> disk.stamp]
             next == Extend(r.view, r.target, fact)
             request == [[r EXCEPT !.pc = "publish"] EXCEPT !.view = next]
  <2>1. enrich' = [enrich EXCEPT ![e] = request]
    BY <1>1, <1>11 DEF EnrichViolation, Request
  <2>2. r.pc = "read" /\ UNCHANGED <<generations, current, lock>>
    BY <1>11 DEF EnrichViolation, beside_enrich, source_vars
  <2>3. fact \in Fact /\ fact.verdict # "none"
    BY <1>1 DEF Fact
  <2>4. next \in View /\ Extends(next, r.view) /\ Settled(r.target, next)
    BY <1>1, <1>8, <2>2, <2>3, ExtendIsAView, ExtendingExtends
  <2> HIDE DEF next
  <2>5. /\ request \in Request /\ request.base = n /\ request.target = r.target
        /\ request.pc = "publish" /\ request.view = next
    BY <1>1, <2>4 DEF Request
  <2> HIDE DEF request
  <2>6. QED
    BY <1>5, <1>8, <2>1, <2>2, <2>4, <2>5
<1>12. CASE EnrichRefused(e)
  BY <1>1, <1>6, <1>12 DEF EnrichRefused, IdleRequest, beside_enrich, source_vars
<1>13. CASE EnrichRecheck(e)
  <2> DEFINE next == IF StabilityStops(r.view) THEN InvalidatedRevision(r.view)
                     ELSE Decoded(r)
             request == [[r EXCEPT !.pc = "publish"] EXCEPT !.view = next]
  <2>1. enrich' = [enrich EXCEPT ![e] = request]
    BY <1>1, <1>13 DEF EnrichRecheck, Request
  <2>2. r.pc = "recheck" /\ UNCHANGED <<generations, current, lock>>
    BY <1>13 DEF EnrichRecheck, beside_enrich, source_vars
  <2>3. next \in View /\ Extends(next, r.view) /\ Settled(r.target, next)
    BY <1>1, <1>8, <2>2, DecodingExtends, InvalidatingExtends, InvalidatedRevisionIsAView
  <2> HIDE DEF next
  <2>4. /\ request \in Request /\ request.base = n /\ request.target = r.target
        /\ request.pc = "publish" /\ request.view = next
    BY <1>1, <2>3 DEF Request
  <2> HIDE DEF request
  <2>5. QED
    BY <1>5, <1>8, <2>1, <2>2, <2>3, <2>4
<1>14. CASE \E t \in Edges : EnrichRelocation(e, t)
  <2>1. PICK t \in Edges : EnrichRelocation(e, t)
    BY <1>14
  <2> DEFINE pc == FirstStep(r.view, t)
             request == [[r EXCEPT !.pc = pc] EXCEPT !.target = t]
  <2>2. enrich' = [enrich EXCEPT ![e] = request]
    BY <1>1, <2>1 DEF EnrichRelocation, Request
  <2>3. r.pc = "publish" /\ UNCHANGED <<generations, current, lock>>
    BY <2>1 DEF EnrichRelocation, beside_enrich, source_vars
  <2>4. t \in Targets /\ t \in Nat
    BY KindsAssumption, TargetsAssumption
  <2>5. /\ pc \in {"check", "publish"}
        /\ pc = "publish" => Settled(t, r.view)
    BY DEF FirstStep, Settled
  <2> HIDE DEF pc
  <2>6. /\ request \in Request /\ request.base = n /\ request.target = t
        /\ request.pc = pc /\ request.view = r.view
    BY <1>1, <2>4, <2>5 DEF Request
  <2> HIDE DEF request
  <2>7. Extends(request.view, r.view)
    BY <2>6 DEF Extends
  <2>8. QED
    BY <1>5, <2>2, <2>3, <2>4, <2>5, <2>6, <2>7
<1>15. CASE EnrichPublish(e)
  <2>1. /\ enrich'[e].base = n /\ enrich'[e].target = r.target /\ enrich'[e].pc = "answer"
        /\ enrich'[e].outcome = "discarded" => ~AcceptsRevision(n, r.view)
        /\ lock' = lock /\ current' = current
    BY <1>1, <1>15 DEF EnrichPublish, PublishRevision, Request
  <2>2. lock = e /\ n <= current /\ r.target \in Targets
    BY <1>3, <1>15 DEF RequestInv, EnrichPublish
  <2>3. CASE AcceptsRevision(n, r.view)
    <3>1. /\ n \in Retained
          /\ Succeeds(r.view, generations[n])
          /\ generations' = [generations EXCEPT ![n] = r.view]
      BY <1>15, <2>3, PublishingSucceeds
    <3>2. WorksOn(enrich'[e], generations'[n])
      BY <2>1, <2>3 DEF WorksOn
    <3>3. RequestInv(e)'
      BY <2>1, <2>2, <3>2 DEF RequestInv, WorksOn, Settled, Extends, Succeeds, Enriched
    <3>4. EnrichmentStaysOnItsGeneration'
      BY <1>1, <3>1 DEF DeepReadInv, EnrichmentStaysOnItsGeneration, Succeeds, Retained
    <3>5. QED
      BY <1>2, <3>3, <3>4 DEF DeepReadInv
  <2>4. CASE ~AcceptsRevision(n, r.view)
    <3>1. generations' = generations /\ (n \in Retained => Settled(r.target, generations[n]))
      BY <1>15, <2>4, PublishingSucceeds
    <3>2. n \in Retained' => WorksOn(enrich'[e], generations'[n])
      BY <2>1, <3>1 DEF WorksOn, Retained
    <3>3. RequestInv(e)'
      BY <2>1, <2>2, <3>2 DEF RequestInv, WorksOn, Settled, Extends, Succeeds, Enriched
    <3>4. QED
      BY <1>4, <2>1, <3>1, <3>3
  <2>5. QED
    BY <2>3, <2>4
<1>16. CASE EnrichAnswer(e)
  BY <1>1, <1>6, <1>16 DEF EnrichAnswer, IdleRequest, beside_enrich, source_vars
<1>17. QED
  BY <1>7, <1>9, <1>10, <1>11, <1>12, <1>13, <1>14, <1>15, <1>16 DEF EnrichStep

LEMMA InitDeepReads == Init => DeepReadInv
<1> SUFFICES ASSUME Init PROVE DeepReadInv
  OBVIOUS
<1>1. \A e \in Enrichers : enrich[e].pc = "idle"
  BY DEF Init, IdleRequest
<1>2. EnrichmentStaysOnItsGeneration
  BY DEF Init, FollowInit, SourceInit, ScannedView, EnrichmentStaysOnItsGeneration, Retained
<1>3. QED
  BY <1>1, <1>2 DEF DeepReadInv, RequestInv

LEMMA NextKeepsDeepReads == WebInv /\ DeepReadInv /\ [Next]_vars => DeepReadInv'
<1> SUFFICES ASSUME WebInv, DeepReadInv, [Next]_vars PROVE DeepReadInv'
  OBVIOUS
<1>1. ASSUME UNCHANGED <<generations, current, lock, enrich>>
      PROVE  DeepReadInv'
  BY <1>1 DEF DeepReadInv, RequestInv, EnrichmentStaysOnItsGeneration, Retained,
              WorksOn, Settled, Extends, Succeeds, Enriched
<1>2. CASE FollowNext /\ UNCHANGED web_vars
  BY <1>2, FollowKeepsDeepReads DEF web_vars, WebInv, TypeOK, FollowInv
<1>3. CASE \E w \in Watchers : WatchStep(w)
  BY <1>1, <1>3 DEF WatchStep, WatchOpen, WatchDecide, WatchWoken, WatchTimedOut,
     WatchAnswer, WatchDropped, beside_watch
<1>4. CASE \E l \in Loaders : LoadStep(l)
  BY <1>1, <1>4 DEF LoadStep, LoadStart, LoadContinue, LoadEvicted, beside_load, source_vars
<1>5. CASE UNCHANGED vars
  BY <1>1, <1>5 DEF vars
<1>6. QED
  BY <1>2, <1>3, <1>4, <1>5, EnrichKeepsDeepReads DEF Next

(* A deep read whose result publish_revision discards has lost nothing that *)
(* is still addressable.                                                    *)
THEOREM DeepReadsAreNotLost == Spec => []NoDeepReadIsLost
<1>1. DeepReadInv => NoDeepReadIsLost
  BY DEF DeepReadInv, RequestInv, WorksOn, Settled, NoDeepReadIsLost
<1>2. QED
  BY <1>1, InitTypes, NextKeepsTypes, InitDeepReads, NextKeepsDeepReads, PTL DEF Spec

(* A result that arrives late never lands on another generation than the *)
(* one it was read for.                                                  *)
THEOREM EnrichmentStays == Spec => []EnrichmentStaysOnItsGeneration
<1>1. DeepReadInv => EnrichmentStaysOnItsGeneration
  BY DEF DeepReadInv
<1>2. QED
  BY <1>1, InitTypes, NextKeepsTypes, InitDeepReads, NextKeepsDeepReads, PTL DEF Spec

-------------------------------------------------------------------------------
(* Mixed readings.  A re-read's manifest is not ahead of the input's, and   *)
(* is behind it once the final check, or the reading of the inventory, came *)
(* upon a difference; deep reads keep the manifest and the inventory and    *)
(* never turn a reading torn.                                               *)
ScanInv ==
  /\ follower.pc \in {"scanning", "inventory", "publishing"} =>
       follower.manifest.stamp <= disk.stamp
  /\ (follower.pc \in {"inventory", "publishing"} /\ follower.validity = "torn")
       => follower.manifest.stamp < disk.stamp
  /\ (follower.pc = "publishing" /\ follower.inventory # follower.manifest.stamp)
       => follower.manifest.stamp < disk.stamp

MixedInv == ScanInv /\ MixedIsBehindTheInput

LEMMA FollowKeepsMixed ==
  ASSUME FollowInv, MixedInv, FollowNext
  PROVE  MixedInv'
<1>1. /\ disk \in Manifest /\ disk.stamp \in Nat
      /\ follower \in Follower /\ follower.manifest.stamp \in Nat
      /\ generations \in [Retained -> View]
      /\ \A n \in Retained : generations[n].fingerprint.stamp \in Nat
  BY DEF FollowInv, FollowTypeOK, StoreInv, SourceTypeOK, Manifest, Follower, View
<1>2. ASSUME UNCHANGED generations, disk.stamp <= disk'.stamp, disk'.stamp \in Nat
      PROVE  MixedIsBehindTheInput'
  BY <1>1, <1>2 DEF MixedInv, MixedIsBehindTheInput, Mixed, Retained
<1>3. CASE InputStep
  <2>1. disk'.stamp \in Nat /\ disk.stamp <= disk'.stamp
    BY <1>1, <1>3 DEF InputStep, WriteVolume, ChangeVolumeSet, Manifest
  <2>2. UNCHANGED <<generations, follower>>
    BY <1>3 DEF InputStep, WriteVolume, ChangeVolumeSet, source_vars
  <2>3. QED
    BY <1>1, <1>2, <2>1, <2>2 DEF MixedInv, ScanInv
<1>4. CASE PollRescan
  <2>1. follower'.manifest = disk /\ follower'.pc = "scanning" /\ disk' = disk
        /\ generations' = generations
    BY <1>1, <1>4 DEF PollRescan, Follower, disk_vars
  <2>2. QED
    BY <1>1, <1>2, <2>1 DEF MixedInv, ScanInv
<1>5. CASE ScanVerified
  <2>1. /\ follower.pc = "scanning" /\ follower'.pc = "inventory"
        /\ follower'.manifest = follower.manifest /\ disk' = disk
        /\ generations' = generations
        /\ follower'.validity = "torn" => disk.stamp # follower.manifest.stamp
    BY <1>1, <1>5 DEF ScanVerified, VerifyUnchanged, Follower, disk_vars, source_vars
  <2>2. QED
    BY <1>1, <1>2, <2>1 DEF MixedInv, ScanInv
<1>6. CASE ScanInventoried
  <2>1. /\ follower.pc = "inventory" /\ follower'.pc = "publishing"
        /\ follower'.manifest = follower.manifest /\ follower'.inventory = disk.stamp
        /\ follower'.validity = follower.validity
        /\ UNCHANGED <<generations, disk>>
    BY <1>1, <1>6 DEF ScanInventoried, Follower, disk_vars, source_vars
  <2>2. QED
    BY <1>1, <1>2, <2>1 DEF MixedInv, ScanInv
<1>7. CASE PublishScan
  <2>1. /\ follower.pc = "publishing" /\ follower'.pc = "notifying" /\ disk' = disk
    BY <1>1, <1>7 DEF PublishScan, Released, Follower, disk_vars
  <2>2. ASSUME NEW n \in Retained', Mixed(generations'[n])
        PROVE  generations'[n].fingerprint.stamp < disk'.stamp
    <3>1. CASE n \in Retained /\ generations'[n] = generations[n]
      BY <2>1, <2>2, <3>1 DEF MixedInv, MixedIsBehindTheInput
    <3>2. CASE generations'[n] = ScannedView(n, follower.manifest, follower.validity,
                                             follower.inventory)
      <4>1. /\ generations'[n].validity = follower.validity
            /\ generations'[n].fingerprint = follower.manifest
            /\ generations'[n].inventory = follower.inventory
        BY <3>2 DEF ScannedView
      <4>2. QED
        BY <2>1, <2>2, <4>1 DEF MixedInv, ScanInv, Mixed
    <3>3. QED
      BY <2>2, <3>1, <3>2, FollowerChangesNoGeneration
  <2>3. QED
    BY <2>1, <2>2 DEF MixedInv, ScanInv, MixedIsBehindTheInput
<1>8. CASE PollRead \/ PollUnchanged \/ PollDefer \/ ScanFailed \/ NotifyWatchers \/ FollowerDies
  <2>1. /\ follower'.pc \in {"tick", "polled", "dead"} /\ UNCHANGED <<generations, disk>>
    BY <1>1, <1>8 DEF PollRead, PollUnchanged, PollDefer, ScanFailed, NotifyWatchers, FollowerDies,
                      Released, Follower, disk_vars, source_vars
  <2>2. QED
    BY <1>1, <1>2, <2>1 DEF MixedInv, ScanInv
<1>9. QED
  BY <1>3, <1>4, <1>5, <1>6, <1>7, <1>8 DEF FollowNext, FollowerStep

LEMMA NextKeepsMixed == WebInv /\ DeepReadInv /\ MixedInv /\ [Next]_vars => MixedInv'
<1> SUFFICES ASSUME WebInv, DeepReadInv, MixedInv, [Next]_vars PROVE MixedInv'
  OBVIOUS
<1>1. ASSUME UNCHANGED <<generations, disk, follower>>
      PROVE  MixedInv'
  BY <1>1 DEF MixedInv, ScanInv, MixedIsBehindTheInput, Retained
<1>2. CASE FollowNext /\ UNCHANGED web_vars
  BY <1>2, FollowKeepsMixed DEF WebInv, TypeOK, FollowInv
<1>3. CASE \E e \in Enrichers : EnrichStep(e)
  <2>1. PICK e \in Enrichers : EnrichStep(e)
    BY <1>3
  <2>2. UNCHANGED <<disk, follower>>
    BY <2>1, EnrichingIsLocal
  <2>3. CASE UNCHANGED generations
    BY <1>1, <2>2, <2>3
  <2>4. CASE EnrichPublish(e) /\ ~UNCHANGED generations
    <3>1. /\ enrich[e].base \in Retained
          /\ Succeeds(enrich[e].view, generations[enrich[e].base])
          /\ generations' = [generations EXCEPT ![enrich[e].base] = enrich[e].view]
      BY <2>4, PublishingSucceeds
    <3>2. generations \in [Retained -> View]
      BY DEF WebInv, StoreInv, SourceTypeOK
    <3>3. ASSUME NEW n \in Retained', Mixed(generations'[n])
          PROVE  /\ n \in Retained /\ Mixed(generations[n])
                 /\ generations'[n].fingerprint = generations[n].fingerprint
      BY <3>1, <3>2, <3>3 DEF Succeeds, Retained, Mixed
    <3>4. MixedIsBehindTheInput'
      BY <2>2, <3>3 DEF MixedInv, MixedIsBehindTheInput
    <3>5. QED
      BY <2>2, <3>4 DEF MixedInv, ScanInv
  <2>5. EnrichPublish(e) \/ UNCHANGED generations
    BY <2>1 DEF EnrichStep, EnrichAdmit, EnrichCheck, EnrichDecoded, EnrichViolation,
       EnrichRelocation, EnrichRefused, EnrichRecheck, EnrichAnswer, beside_enrich, source_vars
  <2>6. QED
    BY <2>3, <2>4, <2>5
<1>4. CASE \E w \in Watchers : WatchStep(w)
  BY <1>1, <1>4 DEF WatchStep, WatchOpen, WatchDecide, WatchWoken, WatchTimedOut,
     WatchAnswer, WatchDropped, beside_watch, disk_vars
<1>5. CASE \E l \in Loaders : LoadStep(l)
  BY <1>1, <1>5 DEF LoadStep, LoadStart, LoadContinue, LoadEvicted, beside_load,
     source_vars, disk_vars
<1>6. CASE UNCHANGED vars
  BY <1>1, <1>6 DEF vars
<1>7. QED
  BY <1>2, <1>3, <1>4, <1>5, <1>6 DEF Next

(* A reading that mixes states is never of the input as it is: the stamps *)
(* it was read under have been left behind for good, so following keeps   *)
(* looking further (classify_mid_scan_source_change, bootstrap).          *)
THEOREM MixedIsLeftBehind == Spec => []MixedIsBehindTheInput
<1>1. ASSUME Init PROVE MixedInv
  <2> DEFINE opened == [stamp |-> 0, extended |-> FALSE]
  <2>1. PICK moved \in 0 .. (IF MaxEdits > 0 THEN 1 ELSE 0),
             validity \in {"valid", IF following THEN "torn" ELSE "invalidated"},
             inventory \in {0, IF following THEN 1 ELSE 0} :
          /\ validity # "valid" => moved = 1
          /\ inventory <= moved
          /\ generations = [n \in {0} |-> ScannedView(0, opened, validity, inventory)]
          /\ disk = [opened EXCEPT !.stamp = moved]
          /\ follower.pc \in {"tick", "off"}
    BY <1>1 DEF Init, FollowInit, SourceInit
  <2>2. disk.stamp = moved /\ (validity # "valid" \/ inventory # 0 => moved = 1)
    BY <2>1
  <2>3. ASSUME NEW n \in Retained
        PROVE  /\ generations[n].fingerprint.stamp = 0 /\ generations[n].validity = validity
               /\ generations[n].inventory = inventory
    BY <2>1 DEF Retained, ScannedView
  <2>4. MixedIsBehindTheInput
    BY <2>2, <2>3 DEF MixedIsBehindTheInput, Mixed
  <2>5. QED
    BY <2>1, <2>4 DEF MixedInv, ScanInv
<1>2. MixedInv => MixedIsBehindTheInput
  BY DEF MixedInv
<1>3. QED
  BY <1>1, <1>2, InitTypes, NextKeepsTypes, InitDeepReads, NextKeepsDeepReads,
     NextKeepsMixed, PTL DEF Spec

-------------------------------------------------------------------------------
(* The refinement.  A publication is an Advance, an accepted deep read is a *)
(* Learn or shows readers nothing new, a change noticed or withdrawn is a   *)
(* Relabel, and everything else is invisible.                               *)
Shown == [n \in Retained |-> Enriched(generations[n])]

LEMMA PublishIsAnAdvance ==
  ASSUME FollowInv, PublishScan
  PROVE  Readers!Advance
<1>1. /\ current \in Nat
      /\ follower.manifest \in Manifest
      /\ follower.validity \in Validity \ {"superseded"}
      /\ follower.inventory \in Nat
      /\ Publish(follower.manifest, follower.validity, follower.inventory)
  BY DEF FollowInv, FollowTypeOK, StoreInv, SourceTypeOK, Follower, PublishScan
<1> DEFINE view == ScannedView(current + 1, follower.manifest, follower.validity,
                               follower.inventory)
<1>2. /\ Retained' = {n \in 0 .. (current + 1) : n + RetentionWindow > current + 1}
      /\ current' = current + 1
      /\ \A n \in Retained' \ {current + 1} :
           n \in Retained /\ generations'[n] = generations[n]
      /\ generations'[current + 1] = view
  BY <1>1, PublishStore DEF FollowInv
<1>3. ASSUME NEW n \in Retained'
      PROVE  Enriched(generations'[n]) = IF n = current + 1 THEN {} ELSE Shown[n]
  <2>1. CASE n = current + 1
    BY <1>2, <2>1, ScannedViewIsBare
  <2>2. CASE n # current + 1
    BY <1>2, <2>2 DEF Shown
  <2>3. QED
    BY <2>1, <2>2
<1>4. Readers!Addressable(current + 1) = Retained'
  BY <1>2 DEF Readers!Addressable
<1>5. Shown' = [n \in Retained' |-> Enriched(generations'[n])]
  BY DEF Shown, Enriched
<1>6. Shown' = [n \in Readers!Addressable(current + 1) |->
                 IF n = current + 1 THEN {} ELSE Shown[n]]
  BY <1>3, <1>4, <1>5
<1>7. change_pending' = FALSE
  BY <1>1 DEF Publish
<1>8. QED
  BY <1>2, <1>6, <1>7 DEF Readers!Advance, Shown

LEMMA PublishingIsALearn ==
  ASSUME WebInv, DeepReadInv, NEW e \in Enrichers, EnrichPublish(e)
  PROVE  Readers!Next \/ UNCHANGED Readers!vars
<1> DEFINE n == enrich[e].base
           ts == Enriched(enrich[e].view)
<1>1. UNCHANGED <<current, change_pending>>
  BY DEF EnrichPublish, PublishRevision
<1>2. CASE generations' = generations
  BY <1>1, <1>2 DEF Readers!vars, Retained, Enriched
<1>3. CASE generations' # generations
  <2>1. /\ n \in Retained
        /\ Succeeds(enrich[e].view, generations[n])
        /\ generations' = [generations EXCEPT ![n] = enrich[e].view]
    BY <1>3, PublishingSucceeds
  <2>2. Retained' = Retained
    BY <2>1 DEF Retained
  <2>3. ts \in SUBSET Targets
    BY DEF Enriched
  <2>4. generations \in [Retained -> View]
    BY DEF WebInv, StoreInv, SourceTypeOK
  <2>5. Enriched(generations'[n]) = Shown[n] \cup ts
    BY <2>1, <2>4 DEF Succeeds, Shown
  <2>6. ASSUME NEW m \in Retained, m # n
        PROVE  Enriched(generations'[m]) = Shown[m]
    BY <2>1, <2>4, <2>6 DEF Shown
  <2>7. Shown' = [m \in Retained |-> Enriched(generations'[m])]
    BY <2>2 DEF Shown, Enriched
  <2>8. Shown' = [Shown EXCEPT ![n] = @ \cup ts]
    <3> HIDE DEF ts
    <3>1. QED
      BY <2>1, <2>5, <2>6, <2>7 DEF Shown
  <2>9. n \in Readers!Addressable(current)
    BY <2>1 DEF WebInv, StoreInv, RetentionIsTheNewest, Readers!Addressable
  <2>10. Readers!Learn(n, ts)
    BY <1>1, <2>8, <2>9 DEF Readers!Learn, Shown
  <2>11. QED
    BY <2>3, <2>9, <2>10 DEF Readers!Next
<1>4. QED
  BY <1>2, <1>3

(* A live session is a LiveSession, whatever the number of clients and *)
(* targets, the retention, and the moments at which the input changes. *)
THEOREM SessionKeepsThePromise == Spec => KeepsThePromise
<1>1. ASSUME Init PROVE Readers!Init
  <2>1. /\ current = 0 /\ change_pending = FALSE
        /\ \E fingerprint, validity, inventory :
             generations = [n \in {0} |-> ScannedView(0, fingerprint, validity, inventory)]
    BY <1>1 DEF Init, FollowInit, SourceInit
  <2>2. Retained = {0} /\ Enriched(generations[0]) = {}
    BY <2>1, ScannedViewIsBare DEF Retained
  <2>3. Readers!Addressable(0) = {0}
    BY WindowIsPositive DEF Readers!Addressable
  <2>4. Shown = [n \in Readers!Addressable(0) |-> {}]
    BY <2>2, <2>3 DEF Shown
  <2>5. QED
    BY <2>1, <2>4 DEF Readers!Init, Shown
<1>2. ASSUME WebInv, DeepReadInv, [Next]_vars
      PROVE  [Readers!Next]_(Readers!vars)
  <2>1. ASSUME UNCHANGED <<generations, current>>, change_pending' \in BOOLEAN
        PROVE  Readers!Next
    <3>1. Shown' = Shown
      BY <2>1 DEF Shown, Retained, Enriched
    <3>2. QED
      BY <2>1, <3>1 DEF Readers!Next, Readers!Relabel, Shown
  <2>2. change_pending' \in BOOLEAN
    BY <1>2, NextKeepsTypes DEF WebInv, StoreInv, SourceTypeOK
  <2>3. CASE FollowNext /\ UNCHANGED web_vars
    <3>1. CASE PublishScan
      BY <1>2, <3>1, PublishIsAnAdvance DEF Readers!Next, WebInv, TypeOK, FollowInv
    <3>2. PublishScan \/ UNCHANGED <<generations, current>>
      BY <2>3 DEF FollowNext, InputStep, FollowerStep, WriteVolume, ChangeVolumeSet,
         PollRead, PollUnchanged, PollDefer, PollRescan, ScanVerified, ScanInventoried,
         ScanFailed, NotifyWatchers, FollowerDies, source_vars
    <3>3. QED
      BY <2>1, <2>2, <3>1, <3>2
  <2>4. CASE \E w \in Watchers : WatchStep(w)
    BY <2>1, <2>2, <2>4 DEF WatchStep, WatchOpen, WatchDecide, WatchWoken, WatchTimedOut,
       WatchAnswer, WatchDropped, beside_watch
  <2>5. CASE \E e \in Enrichers : EnrichStep(e)
    <3>1. PICK e \in Enrichers : EnrichStep(e)
      BY <2>5
    <3>2. EnrichPublish(e) \/ UNCHANGED <<generations, current>>
      BY <3>1 DEF EnrichStep, EnrichAdmit, EnrichCheck, EnrichDecoded, EnrichViolation,
         EnrichRelocation, EnrichRefused, EnrichRecheck, EnrichAnswer, beside_enrich, source_vars
    <3>3. QED
      BY <1>2, <2>1, <2>2, <3>2, PublishingIsALearn
  <2>6. CASE \E l \in Loaders : LoadStep(l)
    BY <2>1, <2>2, <2>6 DEF LoadStep, LoadStart, LoadContinue, LoadEvicted, beside_load,
       source_vars
  <2>7. CASE UNCHANGED vars
    BY <2>1, <2>2, <2>7 DEF vars
  <2>8. QED
    BY <1>2, <2>3, <2>4, <2>5, <2>6, <2>7 DEF Next
<1>3. QED
  BY <1>1, <1>2, InitTypes, NextKeepsTypes, InitDeepReads, NextKeepsDeepReads, PTL
     DEF Spec, KeepsThePromise, Readers!Spec


-------------------------------------------------------------------------------
(***************************************************************************)
(* What is read across several steps of a live session: the loads that     *)
(* span several requests, the facts of a session that does not follow its  *)
(* input, and what a generation is labelled with.                          *)
(***************************************************************************)

-------------------------------------------------------------------------------
(* What any step makes of the store: generations are added, evicted, or taken *)
(* further by a deep read of their own.                                       *)
LEMMA GenerationsOnlyExtend ==
  ASSUME WebInv, DeepReadInv, [Next]_vars
  PROVE  /\ current <= current'
         /\ \A n \in Retained' :
              \/ n \in Retained /\ Extends(generations'[n], generations[n])
              \/ /\ n = current + 1
                 /\ generations'[n] = ScannedView(n, follower.manifest, follower.validity,
                                                   follower.inventory)
<1>1. current \in Nat /\ generations \in [Retained -> View]
  BY DEF WebInv, StoreInv, SourceTypeOK
<1>2. CASE UNCHANGED <<generations, current>>
  BY <1>1, <1>2 DEF Retained, Extends
<1>3. CASE FollowNext
  BY <1>3, FollowerChangesNoGeneration DEF WebInv, TypeOK, FollowInv, Extends
<1>4. ASSUME NEW e \in Enrichers, EnrichPublish(e)
      PROVE  /\ current' = current
             /\ \A n \in Retained' :
                  n \in Retained /\ Extends(generations'[n], generations[n])
  <2>1. current' = current
    BY <1>4 DEF EnrichPublish, PublishRevision
  <2>2. CASE generations' = generations
    BY <2>1, <2>2 DEF Retained, Extends
  <2>3. CASE generations' # generations
    BY <1>1, <1>4, <2>1, <2>3, PublishingSucceeds DEF Retained, Extends
  <2>4. QED
    BY <2>2, <2>3
<1>5. CASE \E e \in Enrichers : EnrichStep(e)
  <2>1. PICK e \in Enrichers : EnrichStep(e)
    BY <1>5
  <2>2. EnrichPublish(e) \/ UNCHANGED <<generations, current>>
    BY <2>1 DEF EnrichStep, EnrichAdmit, EnrichCheck, EnrichDecoded, EnrichViolation,
       EnrichRelocation, EnrichRefused, EnrichRecheck, EnrichAnswer, beside_enrich, source_vars
  <2>3. QED
    BY <1>1, <1>2, <1>4, <2>2
<1>6. (\E w \in Watchers : WatchStep(w)) \/ (\E l \in Loaders : LoadStep(l)) \/ UNCHANGED vars
        => UNCHANGED <<generations, current>>
  BY DEF WatchStep, WatchOpen, WatchDecide, WatchWoken, WatchTimedOut, WatchAnswer,
     WatchDropped, beside_watch, LoadStep, LoadStart, LoadContinue, LoadEvicted,
     beside_load, source_vars, vars
<1>7. QED
  BY <1>2, <1>3, <1>5, <1>6 DEF Next

-------------------------------------------------------------------------------
(* Listings.  An item's rank among the items listed.                        *)
RankIn(listing, t) == Cardinality({u \in listing : u < t})

LEMMA RankIsBelowTheTotal ==
  ASSUME NEW listing \in SUBSET Targets, NEW t \in listing
  PROVE  /\ RankIn(listing, t) \in Nat /\ Cardinality(listing) \in Nat
         /\ RankIn(listing, t) < Cardinality(listing)
<1> DEFINE below == {u \in listing : u < t}
<1>1. IsFiniteSet(listing) /\ listing \subseteq Nat
  BY TargetsAssumption, FS_Subset
<1>2. below \in SUBSET listing /\ t \notin below
  BY <1>1
<1>3. IsFiniteSet(below) /\ Cardinality(below) <= Cardinality(listing)
        /\ Cardinality(listing) # Cardinality(below)
  BY <1>1, <1>2, FS_Subset
<1>4. Cardinality(below) \in Nat /\ Cardinality(listing) \in Nat
  BY <1>1, <1>3, FS_CardinalityType
<1>5. QED
  BY <1>3, <1>4 DEF RankIn

LEMMA LongerListing ==
  ASSUME NEW view, NEW next, Enriched(view) \subseteq Enriched(next)
  PROVE  Total(view) <= Total(next)
<1>1. Relationships(view) \in SUBSET Relationships(next)
  BY DEF Relationships
<1>2. IsFiniteSet(Relationships(next))
  BY TargetsAssumption, FS_Subset DEF Relationships, Enriched
<1>3. QED
  BY <1>1, <1>2, FS_Subset DEF Total

-------------------------------------------------------------------------------
(* Loads.  A load in progress has read its pages from the generation its    *)
(* cursor names.  While that is retained the cursor is within its listing,  *)
(* and none of the pages is of a later revision than the one it would read  *)
(* next.  If the pages are all of one revision, what has been shown is what *)
(* is listed before the cursor, and is still so listed unless the           *)
(* generation has been extended since.                                      *)
OfOneRevision(q) == \A p, r \in q.pages : p = r

ShownUpTo(q, end) ==
  q.shown = [t \in Targets |-> IF t \in q.listing /\ RankIn(q.listing, t) < end THEN 1 ELSE 0]

WithinListing(q, view) ==
  /\ q.offset <= Total(view)
  /\ \A p \in q.pages : p[2] <= view.revision
  /\ (OfOneRevision(q) /\ \E p \in q.pages : p[2] = view.revision)
       => q.listing = Relationships(view)

LoadInv(l) ==
  /\ \A p \in load[l].pages : p[1] = load[l].generation
  /\ load[l].generation <= current
  /\ load[l].pc # "refused"
  /\ load[l].pc = "loading" =>
       /\ load[l].offset > 0
       /\ load[l].pages # {}
       /\ OfOneRevision(load[l]) => ShownUpTo(load[l], load[l].offset)
       /\ load[l].generation \in Retained => WithinListing(load[l], generations[load[l].generation])
  /\ (load[l].pc = "done" /\ OfOneRevision(load[l]))
       => load[l].shown = [t \in Targets |-> IF t \in load[l].listing THEN 1 ELSE 0]

LoadsInv == \A l \in Loaders : LoadInv(l)

LEMMA ExtensionKeepsListing ==
  ASSUME NEW q \in Load, NEW view \in View, NEW next \in View,
         WithinListing(q, view), Extends(next, view)
  PROVE  WithinListing(q, next)
<1>1. CASE next = view
  BY <1>1
<1>2. CASE Succeeds(next, view)
  <2>1. Total(view) <= Total(next) /\ Total(view) \in Nat /\ Total(next) \in Nat
    BY <1>2, LongerListing, TotalIsANumber DEF Succeeds
  <2>2. q.offset \in Nat /\ \A p \in q.pages : p[2] \in Nat
    BY DEF Load
  <2>3. view.revision \in Nat /\ next.revision \in Nat /\ next.revision > view.revision
    BY <1>2 DEF View, Succeeds
  <2>4. \A p \in q.pages : p[2] <= next.revision /\ p[2] # next.revision
    BY <2>2, <2>3 DEF WithinListing
  <2>5. QED
    BY <2>1, <2>2, <2>4 DEF WithinListing
<1>3. QED
  BY <1>1, <1>2 DEF Extends

LEMMA StoreKeepsLoad ==
  ASSUME WebInv, WebInv', DeepReadInv, [Next]_vars, NEW l \in Loaders, LoadInv(l),
         load'[l] = load[l]
  PROVE  LoadInv(l)'
<1> DEFINE q == load[l]
           g == load[l].generation
<1>1. /\ q \in Load /\ g \in Nat
      /\ current \in Nat /\ current' \in Nat
      /\ generations \in [Retained -> View] /\ generations' \in [Retained' -> View]
  BY DEF WebInv, TypeOK, StoreInv, SourceTypeOK, Load
<1>2. current <= current'
  BY GenerationsOnlyExtend
<1>3. g <= current /\ g <= current' /\ g # current + 1
  BY <1>1, <1>2 DEF LoadInv
<1>4. ASSUME g \in Retained', q.pc = "loading"
      PROVE  WithinListing(q, generations'[g])
  <2>1. g \in Retained /\ Extends(generations'[g], generations[g])
    BY <1>3, <1>4, GenerationsOnlyExtend
  <2>2. WithinListing(q, generations[g])
    BY <1>4, <2>1 DEF LoadInv
  <2>3. generations[g] \in View /\ generations'[g] \in View
    BY <1>1, <1>4, <2>1
  <2>4. QED
    BY <1>1, <2>1, <2>2, <2>3, ExtensionKeepsListing
<1>5. /\ \A p \in load'[l].pages : p[1] = load'[l].generation
      /\ load'[l].generation <= current'
      /\ load'[l].pc # "refused"
      /\ load'[l].pc = "loading" =>
           /\ load'[l].offset > 0
           /\ load'[l].pages # {}
           /\ OfOneRevision(load'[l]) => ShownUpTo(load'[l], load'[l].offset)
           /\ load'[l].generation \in Retained'
                => WithinListing(load'[l], generations'[load'[l].generation])
      /\ (load'[l].pc = "done" /\ OfOneRevision(load'[l]))
           => load'[l].shown = [t \in Targets |-> IF t \in load'[l].listing THEN 1 ELSE 0]
  <2> HIDE DEF q, g
  <2>1. q = load[l] /\ g = load[l].generation
    BY DEF q, g
  <2>2. load'[l] = load[l]
    OBVIOUS
  <2>3. QED
    BY <1>3, <1>4, <2>1, <2>2, Zenon DEF LoadInv
<1>6. QED
  BY <1>5 DEF LoadInv, OfOneRevision, ShownUpTo, WithinListing, Total, Relationships, Enriched, RankIn

(* What a page of a load leaves behind.                                     *)
LEMMA RespondedLoad ==
  ASSUME WebInv, NEW l \in Loaders, NEW n, NEW offset, NEW shown, Respond(l, n, offset, shown),
         ~(offset > Total(generations[n]))
  PROVE  /\ load'[l].pc = IF PageEnd(generations[n], offset) < Total(generations[n])
                          THEN "loading" ELSE "done"
         /\ load'[l].generation = n
         /\ load'[l].offset = PageEnd(generations[n], offset)
         /\ load'[l].shown = [t \in Targets |-> shown[t] + (IF t \in Page(generations[n], offset)
                                                           THEN 1 ELSE 0)]
         /\ load'[l].pages = (IF offset = 0 THEN {} ELSE load[l].pages)
                                \cup {<<n, generations[n].revision>>}
         /\ load'[l].listing = IF offset = 0 THEN Relationships(generations[n])
                                             ELSE load[l].listing
<1> DEFINE view == generations[n]
           pc   == IF PageEnd(view, offset) < Total(view) THEN "loading" ELSE "done"
           seen == [t \in Targets |-> shown[t] + (IF t \in Page(view, offset) THEN 1 ELSE 0)]
           pages == (IF offset = 0 THEN {} ELSE load[l].pages) \cup {<<n, view.revision>>}
           listing == IF offset = 0 THEN Relationships(view) ELSE load[l].listing
<1>1. load \in [Loaders -> Load] /\ load[l] \in Load
  BY DEF WebInv, TypeOK
<1>2. load' = [load EXCEPT
        ![l].pc = pc, ![l].generation = n, ![l].offset = PageEnd(view, offset),
        ![l].shown = seen, ![l].pages = pages, ![l].listing = listing]
  BY DEF Respond
<1> HIDE DEF pc, seen, pages, listing
<1>3. /\ load'[l].pc = pc
      /\ load'[l].generation = n
      /\ load'[l].offset = PageEnd(view, offset)
      /\ load'[l].shown = seen
      /\ load'[l].pages = pages
      /\ load'[l].listing = listing
  BY <1>1, <1>2 DEF Load
<1>4. QED
  BY <1>3 DEF pc, seen, pages, listing

(* A request of one load leaves the others alone.                           *)
LEMMA RespondingIsLocal ==
  ASSUME WebInv, NEW l \in Loaders, NEW k \in Loaders, k # l, NEW n, NEW offset, NEW shown,
         Respond(k, n, offset, shown)
  PROVE  load'[l] = load[l]
<1> DEFINE view == generations[n]
           pc   == IF PageEnd(view, offset) < Total(view) THEN "loading" ELSE "done"
           seen == [t \in Targets |-> shown[t] + (IF t \in Page(view, offset) THEN 1 ELSE 0)]
           pages == (IF offset = 0 THEN {} ELSE load[k].pages) \cup {<<n, view.revision>>}
           listing == IF offset = 0 THEN Relationships(view) ELSE load[k].listing
<1>1. load \in [Loaders -> Load]
  BY DEF WebInv, TypeOK
<1>2. CASE offset > Total(view)
  BY <1>1, <1>2 DEF Respond
<1>3. CASE ~(offset > Total(view))
  <2>1. load' = [load EXCEPT
          ![k].pc = pc, ![k].generation = n, ![k].offset = PageEnd(view, offset),
          ![k].shown = seen, ![k].pages = pages, ![k].listing = listing]
    BY <1>3 DEF Respond
  <2> HIDE DEF pc, seen, pages, listing
  <2>2. QED
    BY <1>1, <2>1
<1>4. QED
  BY <1>2, <1>3

(* The items of a page are those whose rank lies between the cursors.       *)
LEMMA PageMovesTheCursor ==
  ASSUME NEW view, NEW offset \in Nat, offset <= Total(view),
         NEW shown,
         shown = [t \in Targets |-> IF t \in Relationships(view)
                                      /\ RankIn(Relationships(view), t) < offset THEN 1 ELSE 0]
  PROVE  /\ PageEnd(view, offset) \in Nat
         /\ PageEnd(view, offset) <= Total(view)
         /\ PageEnd(view, offset) < Total(view) => PageEnd(view, offset) > 0
         /\ [t \in Targets |-> shown[t] + (IF t \in Page(view, offset) THEN 1 ELSE 0)]
              = [t \in Targets |-> IF t \in Relationships(view)
                   /\ RankIn(Relationships(view), t) < PageEnd(view, offset) THEN 1 ELSE 0]
<1>1. Total(view) \in Nat /\ Relationships(view) \in SUBSET Targets
  BY TotalIsANumber DEF Relationships, Enriched
<1>2. /\ PageEnd(view, offset) \in Nat
      /\ PageEnd(view, offset) <= Total(view)
      /\ offset <= PageEnd(view, offset)
      /\ PageEnd(view, offset) < Total(view) => PageEnd(view, offset) > 0
  BY <1>1, PageLimitAssumption DEF PageEnd
<1>3. ASSUME NEW t \in Targets
      PROVE  shown[t] + (IF t \in Page(view, offset) THEN 1 ELSE 0)
               = IF t \in Relationships(view)
                   /\ RankIn(Relationships(view), t) < PageEnd(view, offset) THEN 1 ELSE 0
  <2>1. t \in Page(view, offset) <=>
          /\ t \in Relationships(view)
          /\ RankIn(Relationships(view), t) >= offset
          /\ RankIn(Relationships(view), t) < PageEnd(view, offset)
    BY DEF Page, Rank, RankIn
  <2>2. t \in Relationships(view) => RankIn(Relationships(view), t) \in Nat
    BY <1>1, RankIsBelowTheTotal
  <2>3. QED
    BY <1>2, <2>1, <2>2
<1>4. QED
  BY <1>2, <1>3

LEMMA AllOfListingIsShown ==
  ASSUME NEW listing \in SUBSET Targets, NEW end \in Nat, ~(end < Cardinality(listing)),
         NEW shown,
         shown = [t \in Targets |-> IF t \in listing /\ RankIn(listing, t) < end THEN 1 ELSE 0]
  PROVE  shown = [t \in Targets |-> IF t \in listing THEN 1 ELSE 0]
<1>1. \A t \in listing : RankIn(listing, t) < end
  BY RankIsBelowTheTotal
<1>2. QED
  BY <1>1

LEMMA StartKeepsLoad ==
  ASSUME WebInv, NEW l \in Loaders, LoadStart(l)
  PROVE  LoadInv(l)'
<1> DEFINE view == generations[current]
           none == [t \in Targets |-> 0]
           r    == load'[l]
<1>1. /\ current \in Nat /\ current \in Retained
      /\ view \in View /\ view.revision \in Nat /\ Total(view) \in Nat
      /\ Relationships(view) \in SUBSET Targets
  BY TotalIsANumber DEF WebInv, StoreInv, SourceTypeOK, View, Relationships, Enriched
<1>2. Respond(l, current, 0, none) /\ UNCHANGED <<generations, current>>
  BY DEF LoadStart, beside_load, source_vars
<1>3. none = [t \in Targets |-> IF t \in Relationships(view)
                                  /\ RankIn(Relationships(view), t) < 0 THEN 1 ELSE 0]
  <2>1. \A t \in Relationships(view) : ~(RankIn(Relationships(view), t) < 0)
    <3> HIDE DEF view
    <3>1. \A t \in Relationships(view) : RankIn(Relationships(view), t) \in Nat
      BY <1>1, RankIsBelowTheTotal
    <3>2. QED
      BY <3>1
  <2> HIDE DEF view
  <2>2. QED
    BY <2>1
<1>4. /\ PageEnd(view, 0) \in Nat
      /\ PageEnd(view, 0) <= Total(view)
      /\ PageEnd(view, 0) < Total(view) => PageEnd(view, 0) > 0
      /\ [t \in Targets |-> none[t] + (IF t \in Page(view, 0) THEN 1 ELSE 0)]
              = [t \in Targets |-> IF t \in Relationships(view)
                   /\ RankIn(Relationships(view), t) < PageEnd(view, 0) THEN 1 ELSE 0]
  <2> HIDE DEF none
  <2>1. 0 \in Nat /\ 0 <= Total(view)
    BY <1>1
  <2>2. QED
    BY <1>3, <2>1, PageMovesTheCursor
<1>5. /\ r.pc = IF PageEnd(view, 0) < Total(view) THEN "loading" ELSE "done"
      /\ r.generation = current
      /\ r.offset = PageEnd(view, 0)
      /\ r.shown = [t \in Targets |-> IF t \in Relationships(view)
                   /\ RankIn(Relationships(view), t) < PageEnd(view, 0) THEN 1 ELSE 0]
      /\ r.pages = {<<current, view.revision>>}
      /\ r.listing = Relationships(view)
  BY <1>1, <1>2, <1>4, RespondedLoad
<1>6. CASE r.pc = "loading"
  <2>1. ShownUpTo(r, r.offset)
    BY <1>5 DEF ShownUpTo
  <2>2. WithinListing(r, view)
    BY <1>1, <1>4, <1>5 DEF WithinListing
  <2>3. PageEnd(view, 0) > 0
    BY <1>4, <1>5, <1>6
  <2>4. /\ \A p \in r.pages : p[1] = r.generation
        /\ r.generation <= current
        /\ r.offset > 0 /\ r.pages # {}
    BY <1>1, <1>5, <2>3
  <2> HIDE DEF r
  <2>5. /\ r.pc # "refused" /\ r.pc # "done"
        /\ r.generation \in Retained => WithinListing(r, generations[r.generation])
    BY <1>5, <1>6, <2>2
  <2>6. current' = current /\ generations' = generations /\ Retained' = Retained /\ r = load'[l]
    BY <1>2 DEF Retained, r
  <2>7. /\ \A p \in load'[l].pages : p[1] = load'[l].generation
        /\ load'[l].generation <= current'
        /\ load'[l].pc # "refused" /\ load'[l].pc # "done"
        /\ load'[l].offset > 0
        /\ load'[l].pages # {}
        /\ ShownUpTo(load'[l], load'[l].offset)
        /\ load'[l].generation \in Retained'
             => WithinListing(load'[l], generations'[load'[l].generation])
    BY <2>1, <2>4, <2>5, <2>6, Zenon
  <2>8. QED
    BY <2>7
       DEF LoadInv, OfOneRevision, ShownUpTo, WithinListing, Total, Relationships, Enriched, RankIn
<1>7. CASE r.pc = "done"
  <2>1. r.shown = [t \in Targets |-> IF t \in r.listing THEN 1 ELSE 0]
    BY <1>1, <1>4, <1>5, <1>7, AllOfListingIsShown DEF Total
  <2>2. QED
    BY <1>1, <1>2, <1>5, <1>7, <2>1 DEF LoadInv
<1>8. QED
  BY <1>5, <1>6, <1>7

LEMMA ContinueKeepsLoad ==
  ASSUME WebInv, NEW l \in Loaders, LoadInv(l), LoadContinue(l)
  PROVE  LoadInv(l)'
<1> DEFINE q    == load[l]
           g    == load[l].generation
           view == generations[load[l].generation]
           r    == load'[l]
<1>1. /\ g \in Retained /\ q \in Load /\ q.offset \in Nat
      /\ view \in View /\ view.revision \in Nat /\ Total(view) \in Nat
      /\ current \in Nat /\ g \in Nat
      /\ Relationships(view) \in SUBSET Targets
  BY TotalIsANumber DEF LoadContinue, WebInv, TypeOK, StoreInv, SourceTypeOK, View, Load,
                        Relationships, Enriched
<1>2. /\ Respond(l, g, q.offset, q.shown)
      /\ current' = current /\ generations' = generations /\ Retained' = Retained
  BY DEF LoadContinue, beside_load, source_vars, Retained
<1>3. /\ q.pc = "loading" /\ q.offset > 0 /\ q.pages # {}
      /\ OfOneRevision(q) => ShownUpTo(q, q.offset)
      /\ WithinListing(q, view)
      /\ \A p \in q.pages : p[1] = g
      /\ g <= current
  BY <1>1 DEF LoadContinue, LoadInv
<1>4. q.offset <= Total(view)
  BY <1>3 DEF WithinListing
<1>5. /\ PageEnd(view, q.offset) \in Nat
      /\ PageEnd(view, q.offset) <= Total(view)
      /\ PageEnd(view, q.offset) > 0
  BY <1>1, <1>3, <1>4, PageLimitAssumption DEF PageEnd
<1>6. /\ r.pc = IF PageEnd(view, q.offset) < Total(view) THEN "loading" ELSE "done"
      /\ r.generation = g
      /\ r.offset = PageEnd(view, q.offset)
      /\ r.shown = [t \in Targets |-> q.shown[t] + (IF t \in Page(view, q.offset)
                                                   THEN 1 ELSE 0)]
      /\ r.pages = q.pages \cup {<<g, view.revision>>}
      /\ r.listing = q.listing
  <2>1. ~(q.offset > Total(view)) /\ q.offset # 0
    BY <1>1, <1>3, <1>4
  <2>2. QED
    BY <1>2, <2>1, RespondedLoad
<1>7. ASSUME OfOneRevision(r)
      PROVE  /\ OfOneRevision(q)
             /\ q.listing = Relationships(view)
             /\ ShownUpTo(r, r.offset)
  <2>1. OfOneRevision(q) /\ q.pages = {<<g, view.revision>>}
    <3>1. \A p \in r.pages : p = <<g, view.revision>>
      BY <1>6, <1>7 DEF OfOneRevision
    <3>2. q.pages \subseteq r.pages
      BY <1>6
    <3> HIDE DEF q, r, g, view
    <3>3. q.pages # {}
      BY <1>3
    <3>4. QED
      BY <3>1, <3>2, <3>3 DEF OfOneRevision
  <2>2. q.listing = Relationships(view)
    BY <1>3, <2>1 DEF WithinListing
  <2>3. q.shown = [t \in Targets |-> IF t \in Relationships(view)
                     /\ RankIn(Relationships(view), t) < q.offset THEN 1 ELSE 0]
    BY <1>3, <2>1, <2>2 DEF ShownUpTo
  <2>4. [t \in Targets |-> q.shown[t] + (IF t \in Page(view, q.offset) THEN 1 ELSE 0)]
          = [t \in Targets |-> IF t \in Relationships(view)
               /\ RankIn(Relationships(view), t) < PageEnd(view, q.offset) THEN 1 ELSE 0]
    <3> HIDE DEF q, view
    <3>1. QED
      BY <1>1, <1>4, <2>3, PageMovesTheCursor
  <2>5. ShownUpTo(r, r.offset)
    BY <1>6, <2>2, <2>4 DEF ShownUpTo
  <2>6. QED
    BY <2>1, <2>2, <2>5
<1>8. WithinListing(r, view)
  <2>1. \A p \in r.pages : p[2] <= view.revision
    BY <1>1, <1>3, <1>6 DEF WithinListing
  <2>2. QED
    BY <1>5, <1>6, <1>7, <2>1 DEF WithinListing
<1>9. r.pc = "done" /\ OfOneRevision(r)
        => r.shown = [t \in Targets |-> IF t \in r.listing THEN 1 ELSE 0]
  <2> SUFFICES ASSUME r.pc = "done", OfOneRevision(r)
               PROVE  r.shown = [t \in Targets |-> IF t \in r.listing THEN 1 ELSE 0]
    OBVIOUS
  <2>1. ~(r.offset < Cardinality(r.listing)) /\ r.listing \in SUBSET Targets /\ r.offset \in Nat
    BY <1>1, <1>5, <1>6, <1>7 DEF Total
  <2>2. r.shown = [t \in Targets |-> IF t \in r.listing /\ RankIn(r.listing, t) < r.offset
                                     THEN 1 ELSE 0]
    BY <1>7 DEF ShownUpTo
  <2> HIDE DEF r
  <2>3. QED
    BY <2>1, <2>2, AllOfListingIsShown
<1>10. /\ \A p \in load'[l].pages : p[1] = load'[l].generation
       /\ load'[l].generation <= current'
       /\ load'[l].pc # "refused"
       /\ load'[l].offset > 0
       /\ load'[l].pages # {}
       /\ OfOneRevision(load'[l]) => ShownUpTo(load'[l], load'[l].offset)
       /\ load'[l].generation \in Retained'
            => WithinListing(load'[l], generations'[load'[l].generation])
       /\ (load'[l].pc = "done" /\ OfOneRevision(load'[l]))
            => load'[l].shown = [t \in Targets |-> IF t \in load'[l].listing THEN 1 ELSE 0]
  <2>1. \A p \in r.pages : p[1] = r.generation
    BY <1>3, <1>6
  <2>2. /\ r.generation <= current' /\ r.pc # "refused" /\ r.offset > 0 /\ r.pages # {}
    BY <1>2, <1>3, <1>5, <1>6
  <2>3. generations'[r.generation] = view
    BY <1>2, <1>6
  <2>4. QED
    BY <1>7, <1>8, <1>9, <2>1, <2>2, <2>3
<1>11. QED
  BY <1>10
     DEF LoadInv, OfOneRevision, ShownUpTo, WithinListing, Total, Relationships, Enriched, RankIn

LEMMA InitLoads == Init => LoadsInv
<1> SUFFICES ASSUME Init, NEW l \in Loaders PROVE LoadInv(l)
  BY DEF LoadsInv
<1>1. load[l].pc = "idle" /\ load[l].generation = 0 /\ load[l].pages = {} /\ current = 0
  BY DEF Init, FollowInit, SourceInit
<1>2. QED
  BY <1>1 DEF LoadInv

LEMMA NextKeepsLoads == WebInv /\ WebInv' /\ DeepReadInv /\ LoadsInv /\ [Next]_vars => LoadsInv'
<1> SUFFICES ASSUME WebInv, WebInv', DeepReadInv, LoadsInv, [Next]_vars, NEW l \in Loaders
             PROVE  LoadInv(l)'
  BY DEF LoadsInv
<1>1. LoadInv(l)
  BY DEF LoadsInv
<1>2. load \in [Loaders -> Load]
  BY DEF WebInv, TypeOK
<1>3. CASE load'[l] = load[l]
  BY <1>1, <1>3, StoreKeepsLoad
<1>4. CASE LoadStart(l)
  BY <1>4, StartKeepsLoad
<1>5. CASE LoadContinue(l)
  BY <1>1, <1>5, ContinueKeepsLoad
<1>6. CASE LoadEvicted(l)
  <2>1. /\ load'[l].pc = "evicted" /\ load'[l].pages = load[l].pages
        /\ load'[l].generation = load[l].generation /\ current' = current
    BY <1>2, <1>6 DEF LoadEvicted, Load, beside_load, source_vars
  <2>2. QED
    BY <1>1, <2>1 DEF LoadInv
<1>7. LoadStart(l) \/ LoadContinue(l) \/ LoadEvicted(l) \/ load'[l] = load[l]
  <2>watching. ASSUME NEW w \in Watchers, WatchStep(w)
               PROVE  load' = load
    BY <2>watching DEF WatchStep, WatchOpen, WatchDecide, WatchWoken, WatchTimedOut, WatchAnswer,
       WatchDropped, beside_watch
  <2>enriching. ASSUME NEW e \in Enrichers, EnrichStep(e)
                PROVE  load' = load
    BY <2>enriching, EnrichingIsLocal
  <2>another. ASSUME NEW k \in Loaders \ {l}, LoadStep(k)
              PROVE  load'[l] = load[l]
    <3>1. LoadStart(k) \/ LoadContinue(k) => load'[l] = load[l]
      BY RespondingIsLocal DEF LoadStart, LoadContinue
    <3>2. LoadEvicted(k) => load'[l] = load[l]
      BY <1>2 DEF LoadEvicted
    <3>3. QED
      BY <2>another, <3>1, <3>2 DEF LoadStep
  <2>own. LoadStep(l) => LoadStart(l) \/ LoadContinue(l) \/ LoadEvicted(l)
    BY DEF LoadStep
  <2>elsewhere. (FollowNext /\ UNCHANGED web_vars) \/ UNCHANGED vars => load' = load
    BY DEF web_vars, vars
  <2> QED
    BY <2>watching, <2>enriching, <2>another, <2>own, <2>elsewhere DEF Next
<1>8. QED
  BY <1>3, <1>4, <1>5, <1>6, <1>7

(* A load that spans requests is of one generation whatever is published   *)
(* between them; the session never refuses a cursor it issued while what   *)
(* it names is retained; and unless a deep read extended the listing under *)
(* it, it has shown every item once (collection_start,                     *)
(* collection_response).                                                   *)
THEOREM LoadsReadOneReading == Spec => []LoadsAreOfOneReading
<1>1. LoadsInv => LoadsAreOfOneReading
  <2> SUFFICES ASSUME LoadsInv PROVE LoadsAreOfOneReading
    OBVIOUS
  <2>1. \A l \in Loaders : LoadInv(l)
    BY DEF LoadsInv
  <2>2. LoadReadsOneGeneration
    BY <2>1 DEF LoadInv, LoadReadsOneGeneration
  <2>3. CursorStaysInRange
    BY <2>1 DEF LoadInv, CursorStaysInRange
  <2>4. UndisturbedLoadIsWhole
    BY <2>1 DEF LoadInv, UndisturbedLoadIsWhole, OfOneRevision
  <2>5. QED
    BY <2>2, <2>3, <2>4 DEF LoadsAreOfOneReading
<1>2. QED
  BY <1>1, InitTypes, NextKeepsTypes, InitDeepReads, NextKeepsDeepReads, InitLoads,
     NextKeepsLoads, PTL DEF Spec

-------------------------------------------------------------------------------
(* A session that does not follow its input.  It has no follower, so every  *)
(* view is of the input as it was opened, and stamps only grow: one that is *)
(* still the manifest's when a deep read ends was so when its pages were    *)
(* read.                                                                    *)
OfSnapshot(view) ==
  \A t \in Targets : view.facts[t].verdict = "valid" =>
                       view.facts[t].stamp = view.fingerprint.stamp

ReadSince(request) ==
  /\ OfSnapshot(request.view)
  /\ request.view.fingerprint.stamp <= disk.stamp
  /\ request.pc = "recheck" => /\ request.view.fingerprint.stamp <= request.read_at
                               /\ request.read_at <= disk.stamp

SnapshotInv ==
  ~following =>
    /\ follower.pc = "off"
    /\ \A n \in Retained : /\ OfSnapshot(generations[n])
                            /\ generations[n].fingerprint.stamp <= disk.stamp
    /\ \A e \in Enrichers : ReadSince(enrich[e])

LEMMA ExtendKeepsSnapshot ==
  ASSUME NEW view \in View, OfSnapshot(view), NEW t \in Targets, NEW fact \in Fact,
         fact.verdict = "valid" => fact.stamp = view.fingerprint.stamp
  PROVE  OfSnapshot(Extend(view, t, fact))
<1>1. /\ Extend(view, t, fact).facts = [view.facts EXCEPT ![t] = fact]
      /\ Extend(view, t, fact).fingerprint = view.fingerprint
      /\ view.facts \in [Targets -> Fact]
  BY DEF Extend, View
<1>2. QED
  BY <1>1 DEF OfSnapshot

LEMMA InvalidatingKeepsSnapshot ==
  ASSUME NEW view \in View
  PROVE  /\ InvalidatedRevision(view).facts = view.facts
         /\ InvalidatedRevision(view).fingerprint = view.fingerprint
BY DEF InvalidatedRevision, View

LEMMA EnrichKeepsSnapshot ==
  ASSUME WebInv, DeepReadInv, SnapshotInv, ~following, NEW e \in Enrichers, EnrichStep(e)
  PROVE  /\ ReadSince(enrich[e])'
         /\ \A n \in Retained' : /\ OfSnapshot(generations'[n])
                                 /\ generations'[n].fingerprint.stamp <= disk'.stamp
<1> DEFINE r == enrich[e]
<1>1. /\ enrich \in [Enrichers -> Request] /\ r \in Request
      /\ r.view \in View /\ r.read_at \in Nat /\ disk.stamp \in Nat
      /\ r.view.fingerprint.stamp \in Nat
      /\ current \in Retained /\ generations \in [Retained -> View]
  BY DEF WebInv, TypeOK, FollowTypeOK, SourceTypeOK, Request, Manifest, View
<1>2. disk' = disk
  BY EnrichingIsLocal
<1>3. /\ \A n \in Retained : /\ OfSnapshot(generations[n])
                             /\ generations[n].fingerprint.stamp <= disk.stamp
      /\ ReadSince(r)
  BY DEF SnapshotInv
<1>4. ASSUME UNCHANGED generations
      PROVE  \A n \in Retained' : /\ OfSnapshot(generations'[n])
                                 /\ generations'[n].fingerprint.stamp <= disk'.stamp
  BY <1>2, <1>3, <1>4 DEF Retained
<1>5. ASSUME NEW request, enrich'[e] = request, UNCHANGED generations,
             OfSnapshot(request.view),
             request.view.fingerprint.stamp <= disk.stamp, request.pc # "recheck"
      PROVE  /\ ReadSince(enrich[e])'
             /\ \A n \in Retained' : /\ OfSnapshot(generations'[n])
                                     /\ generations'[n].fingerprint.stamp <= disk'.stamp
  BY <1>2, <1>4, <1>5 DEF ReadSince, OfSnapshot
<1>6. r.pc # "idle" => r.target \in Targets
  BY DEF DeepReadInv, RequestInv
<1>7. OfSnapshot(IdleRequest.view) /\ IdleRequest.pc # "recheck"
        /\ IdleRequest.view.fingerprint.stamp <= disk.stamp
  BY <1>1 DEF IdleRequest, ScannedView, OfSnapshot, NoFact
<1>8. CASE \E t \in Targets, slot \in BOOLEAN : EnrichAdmit(e, t, slot)
  <2>1. PICK t \in Targets, slot \in BOOLEAN : EnrichAdmit(e, t, slot)
    BY <1>8
  <2>2. /\ enrich'[e].pc = FirstStep(Current, t)
        /\ enrich'[e].view = generations[current]
        /\ UNCHANGED generations
    BY <1>1, <2>1 DEF EnrichAdmit, Current, beside_enrich, source_vars, Request
  <2>3. FirstStep(Current, t) # "recheck"
    BY DEF FirstStep
  <2>4. QED
    BY <1>1, <1>3, <1>5, <2>2, <2>3
<1>9. CASE EnrichCheck(e)
  <2>1. CASE StabilityStops(r.view)
    <3>1. /\ enrich'[e].pc = "publish" /\ enrich'[e].view = InvalidatedRevision(r.view)
          /\ UNCHANGED generations
      BY <1>1, <1>9, <2>1 DEF EnrichCheck, beside_enrich, source_vars, Request
    <3>2. OfSnapshot(enrich'[e].view) /\ enrich'[e].view.fingerprint.stamp <= disk.stamp
      BY <1>1, <1>3, <3>1, InvalidatingKeepsSnapshot DEF ReadSince, OfSnapshot
    <3>3. QED
      BY <1>5, <3>1, <3>2
  <2>2. CASE ~StabilityStops(r.view)
    <3>1. enrich'[e].pc = "read" /\ enrich'[e].view = r.view /\ UNCHANGED generations
      BY <1>1, <1>9, <2>2 DEF EnrichCheck, beside_enrich, source_vars, Request
    <3>2. QED
      BY <1>3, <1>5, <3>1 DEF ReadSince
  <2>3. QED
    BY <2>1, <2>2
<1>10. CASE EnrichDecoded(e)
  <2>1. /\ enrich'[e].pc = "recheck" /\ enrich'[e].view = r.view
        /\ enrich'[e].read_at = disk.stamp /\ UNCHANGED generations
    BY <1>1, <1>10 DEF EnrichDecoded, beside_enrich, source_vars, Request
  <2>2. QED
    BY <1>1, <1>2, <1>3, <1>4, <2>1 DEF ReadSince, OfSnapshot
<1>11. CASE EnrichViolation(e)
  <2> DEFINE fact == [verdict |-> "invalid", stamp |-> disk.stamp]
  <2>1. /\ enrich'[e].pc = "publish" /\ enrich'[e].view = Extend(r.view, r.target, fact)
        /\ UNCHANGED generations /\ r.target \in Targets
    BY <1>1, <1>6, <1>11 DEF EnrichViolation, beside_enrich, source_vars, Request
  <2>2. fact \in Fact /\ fact.verdict # "valid" /\ fact.verdict # "none"
    BY <1>1 DEF Fact
  <2>3. OfSnapshot(Extend(r.view, r.target, fact))
    BY <1>1, <1>3, <2>1, <2>2, ExtendKeepsSnapshot DEF ReadSince
  <2>4. Extend(r.view, r.target, fact).fingerprint = r.view.fingerprint
    BY <1>1, <2>1, <2>2, ExtendEnriches
  <2>5. QED
    BY <1>3, <1>5, <2>1, <2>3, <2>4 DEF ReadSince
<1>12. CASE EnrichRefused(e) \/ EnrichAnswer(e)
  <2>1. enrich'[e] = IdleRequest /\ UNCHANGED generations
    BY <1>1, <1>12 DEF EnrichRefused, EnrichAnswer, beside_enrich, source_vars
  <2>2. QED
    BY <1>5, <1>7, <2>1
<1>13. CASE EnrichRecheck(e)
  <2>1. /\ enrich'[e].pc = "publish" /\ UNCHANGED generations /\ r.pc = "recheck"
        /\ enrich'[e].view = IF StabilityStops(r.view) THEN InvalidatedRevision(r.view)
                             ELSE Decoded(r)
    BY <1>1, <1>13 DEF EnrichRecheck, beside_enrich, source_vars, Request
  <2>2. CASE StabilityStops(r.view)
    BY <1>1, <1>3, <1>5, <2>1, <2>2, InvalidatingKeepsSnapshot DEF ReadSince, OfSnapshot
  <2>3. CASE ~StabilityStops(r.view)
    <3> DEFINE fact == [verdict |-> "valid", stamp |-> r.read_at]
    <3>1. r.read_at = r.view.fingerprint.stamp
      BY <1>1, <1>3, <2>1, <2>3 DEF ReadSince, StabilityStops, VerifyUnchanged
    <3>2. fact \in Fact /\ fact.verdict # "none" /\ r.target \in Targets
      BY <1>1, <1>6, <2>1 DEF Fact
    <3>3. OfSnapshot(Extend(r.view, r.target, fact))
      BY <1>1, <1>3, <3>1, <3>2, ExtendKeepsSnapshot DEF ReadSince
    <3>4. Extend(r.view, r.target, fact).fingerprint = r.view.fingerprint
      BY <1>1, <3>2, ExtendEnriches
    <3>5. enrich'[e].view = Decoded(r)
      BY <2>1, <2>3
    <3>6. OfSnapshot(enrich'[e].view) /\ enrich'[e].view.fingerprint.stamp <= disk.stamp
      BY <1>3, <3>3, <3>4, <3>5 DEF Decoded, ReadSince
    <3>7. QED
      BY <1>5, <2>1, <3>6
  <2>4. QED
    BY <2>2, <2>3
<1>14. CASE \E t \in Edges : EnrichRelocation(e, t)
  <2>1. PICK t \in Edges : EnrichRelocation(e, t)
    BY <1>14
  <2>2. /\ enrich'[e].pc = FirstStep(r.view, t) /\ enrich'[e].view = r.view
        /\ UNCHANGED generations
    BY <1>1, <2>1 DEF EnrichRelocation, beside_enrich, source_vars, Request
  <2>3. FirstStep(r.view, t) # "recheck"
    BY DEF FirstStep
  <2>4. QED
    BY <1>3, <1>5, <2>2, <2>3 DEF ReadSince
<1>15. CASE EnrichPublish(e)
  <2>1. enrich'[e].pc = "answer" /\ enrich'[e].view = r.view
    BY <1>1, <1>15 DEF EnrichPublish, Request
  <2>2. \/ generations' = generations
        \/ r.base \in Retained /\ generations' = [generations EXCEPT ![r.base] = r.view]
    BY <1>15, PublishingSucceeds
  <2>3. ReadSince(enrich[e])'
    BY <1>2, <1>3, <2>1 DEF ReadSince, OfSnapshot
  <2>4. \A n \in Retained' : /\ OfSnapshot(generations'[n])
                            /\ generations'[n].fingerprint.stamp <= disk'.stamp
    BY <1>1, <1>2, <1>3, <2>2 DEF ReadSince, Retained
  <2>5. QED
    BY <2>3, <2>4
<1>16. QED
  BY <1>8, <1>9, <1>10, <1>11, <1>12, <1>13, <1>14, <1>15 DEF EnrichStep

LEMMA InitSnapshot == Init => SnapshotInv
<1> SUFFICES ASSUME Init, ~following PROVE SnapshotInv
  BY DEF SnapshotInv
<1> DEFINE opened == [stamp |-> 0, extended |-> FALSE]
<1>1. PICK moved, validity, inventory :
        /\ moved \in 0 .. (IF MaxEdits > 0 THEN 1 ELSE 0)
        /\ generations = [n \in {0} |-> ScannedView(0, opened, validity, inventory)]
        /\ disk = [opened EXCEPT !.stamp = moved]
        /\ follower.pc = "off"
  BY DEF Init, FollowInit, SourceInit
<1>2. disk.stamp \in Nat
  BY <1>1
<1>3. \A n \in Retained : /\ OfSnapshot(generations[n])
                          /\ generations[n].fingerprint.stamp <= disk.stamp
  BY <1>1, <1>2 DEF Retained, ScannedView, OfSnapshot, NoFact
<1>4. \A e \in Enrichers : ReadSince(enrich[e])
  BY <1>2 DEF Init, IdleRequest, ScannedView, ReadSince, OfSnapshot, NoFact
<1>5. QED
  BY <1>1, <1>3, <1>4 DEF SnapshotInv

LEMMA NextKeepsSnapshot == WebInv /\ DeepReadInv /\ SnapshotInv /\ [Next]_vars => SnapshotInv'
<1> SUFFICES ASSUME WebInv, DeepReadInv, SnapshotInv, [Next]_vars, ~following
             PROVE  SnapshotInv'
  BY DEF SnapshotInv
<1>1. /\ enrich \in [Enrichers -> Request] /\ disk \in Manifest /\ disk.stamp \in Nat
      /\ generations \in [Retained -> View]
      /\ \A n \in Retained : generations[n].fingerprint.stamp \in Nat
      /\ \A e \in Enrichers : /\ enrich[e].view.fingerprint.stamp \in Nat
                              /\ enrich[e].read_at \in Nat
  BY DEF WebInv, TypeOK, FollowTypeOK, SourceTypeOK, Request, Manifest, View
<1>2. /\ follower.pc = "off"
      /\ \A n \in Retained : /\ OfSnapshot(generations[n])
                             /\ generations[n].fingerprint.stamp <= disk.stamp
      /\ \A e \in Enrichers : ReadSince(enrich[e])
  BY DEF SnapshotInv
<1>3. ASSUME UNCHANGED <<generations, follower, enrich>>, disk'.stamp \in Nat,
             disk.stamp <= disk'.stamp
      PROVE  SnapshotInv'
  <2>1. \A n \in Retained' : /\ OfSnapshot(generations'[n])
                            /\ generations'[n].fingerprint.stamp <= disk'.stamp
    BY <1>1, <1>2, <1>3 DEF Retained
  <2>2. \A e \in Enrichers : ReadSince(enrich[e])'
    BY <1>1, <1>2, <1>3 DEF ReadSince, OfSnapshot
  <2>3. QED
    BY <1>2, <1>3, <2>1, <2>2 DEF SnapshotInv, OfSnapshot
<1>4. CASE FollowNext /\ UNCHANGED web_vars
  <2>1. InputStep
    BY <1>2, <1>4 DEF FollowNext, FollowerStep, PollRead, PollUnchanged, PollDefer, PollRescan,
       ScanVerified, ScanInventoried, ScanFailed, PublishScan, NotifyWatchers, FollowerDies
  <2>2. disk'.stamp \in Nat /\ disk.stamp <= disk'.stamp
    BY <1>1, <2>1 DEF InputStep, WriteVolume, ChangeVolumeSet, Manifest
  <2>3. QED
    BY <1>3, <1>4, <2>1, <2>2 DEF InputStep, WriteVolume, ChangeVolumeSet, source_vars, web_vars
<1>5. CASE \E e \in Enrichers : EnrichStep(e)
  <2>1. PICK e \in Enrichers : EnrichStep(e)
    BY <1>5
  <2>2. UNCHANGED <<disk, follower>>
    BY <2>1, EnrichingIsLocal
  <2>3. ASSUME NEW f \in Enrichers PROVE ReadSince(enrich[f])'
    <3>1. CASE f = e
      BY <2>1, <3>1, EnrichKeepsSnapshot
    <3>2. CASE f # e
      BY <1>1, <1>2, <2>1, <2>2, <3>2, OthersAreIdle DEF ReadSince, OfSnapshot
    <3>3. QED
      BY <3>1, <3>2
  <2>4. \A n \in Retained' : /\ OfSnapshot(generations'[n])
                            /\ generations'[n].fingerprint.stamp <= disk'.stamp
    BY <2>1, EnrichKeepsSnapshot
  <2>5. QED
    BY <1>2, <2>2, <2>3, <2>4 DEF SnapshotInv, OfSnapshot
<1>6. CASE (\E w \in Watchers : WatchStep(w)) \/ (\E l \in Loaders : LoadStep(l)) \/ UNCHANGED vars
  <2>1. UNCHANGED <<generations, follower, enrich, disk>>
    BY <1>6 DEF WatchStep, WatchOpen, WatchDecide, WatchWoken, WatchTimedOut, WatchAnswer,
       WatchDropped, beside_watch, LoadStep, LoadStart, LoadContinue, LoadEvicted,
       beside_load, source_vars, disk_vars, vars
  <2>2. QED
    BY <1>1, <1>3, <2>1
<1>7. QED
  BY <1>4, <1>5, <1>6 DEF Next

(* A session that follows its input has a follower, if not a live one. *)
HasFollower == following => follower.pc # "off"

LEMMA InitFollower == Init => HasFollower
  BY DEF Init, FollowInit, HasFollower

LEMMA NextKeepsFollower == WebInv /\ HasFollower /\ [Next]_vars => HasFollower'
<1> SUFFICES ASSUME WebInv, HasFollower, [Next]_vars PROVE HasFollower'
  OBVIOUS
<1>1. follower \in Follower
  BY DEF WebInv, TypeOK, FollowTypeOK
<1>2. CASE FollowerStep
  BY <1>1, <1>2 DEF HasFollower, Follower, Released, FollowerStep, PollRead, PollUnchanged, PollDefer,
     PollRescan, ScanVerified, ScanInventoried, ScanFailed, PublishScan, NotifyWatchers, FollowerDies
<1>3. CASE InputStep
  BY <1>3 DEF InputStep, WriteVolume, ChangeVolumeSet, HasFollower
<1>4. CASE \E e \in Enrichers : EnrichStep(e)
  BY <1>4, EnrichingIsLocal DEF HasFollower
<1>5. CASE (\E w \in Watchers : WatchStep(w)) \/ (\E l \in Loaders : LoadStep(l)) \/ UNCHANGED vars
  <2>1. UNCHANGED follower
    BY <1>5 DEF WatchStep, WatchOpen, WatchDecide, WatchWoken, WatchTimedOut, WatchAnswer,
       WatchDropped, beside_watch, LoadStep, LoadStart, LoadContinue, LoadEvicted,
       beside_load, vars
  <2>2. QED
    BY <2>1 DEF HasFollower
<1>6. QED
  BY <1>2, <1>3, <1>4, <1>5 DEF Next, FollowNext

(* What a session that does not follow its input has decoded as valid was  *)
(* read while every file was as the scan found it, whenever the input      *)
(* changes and however many deep reads ask (source_stability_stop before   *)
(* and after each).                                                        *)
THEOREM SnapshotIsOneReading == Spec => []ImmutableFactsAreOfTheSnapshot
<1>1. SnapshotInv /\ HasFollower => ImmutableFactsAreOfTheSnapshot
  BY DEF SnapshotInv, HasFollower, ImmutableFactsAreOfTheSnapshot, OfSnapshot
<1>2. QED
  BY <1>1, InitTypes, NextKeepsTypes, InitDeepReads, NextKeepsDeepReads, InitSnapshot,
     NextKeepsSnapshot, InitFollower, NextKeepsFollower, PTL DEF Spec

-------------------------------------------------------------------------------
(* Standing.  A deep read never invalidates a reading the session is        *)
(* following; a session that does not follow has one generation and no      *)
(* pending change, so nothing in it is superseded.                          *)
StandingInv ==
  /\ following => \A e \in Enrichers : enrich[e].view.validity # "invalidated"
  /\ following => \A n \in Retained : generations[n].validity # "invalidated"
  /\ ~following => follower.pc = "off" /\ current = 0 /\ change_pending = FALSE
  /\ follower.validity # "invalidated"

LEMMA InitStanding == Init => StandingInv
<1> SUFFICES ASSUME Init PROVE StandingInv
  OBVIOUS
<1> DEFINE opened == [stamp |-> 0, extended |-> FALSE]
<1>1. PICK validity, inventory :
        /\ validity \in {"valid", IF following THEN "torn" ELSE "invalidated"}
        /\ generations = [n \in {0} |-> ScannedView(0, opened, validity, inventory)]
        /\ current = 0 /\ change_pending = FALSE
        /\ follower = [pc |-> IF following THEN "tick" ELSE "off", pending |-> FALSE,
                       manifest |-> opened, validity |-> "valid", inventory |-> 0]
  BY DEF Init, FollowInit, SourceInit
<1>2. \A e \in Enrichers : enrich[e].view.validity = "valid"
  BY DEF Init, IdleRequest, ScannedView
<1>3. following => \A n \in Retained : generations[n].validity # "invalidated"
  BY <1>1 DEF Retained, ScannedView
<1>4. QED
  BY <1>1, <1>2, <1>3 DEF StandingInv

LEMMA EnrichKeepsValidity ==
  ASSUME WebInv, DeepReadInv, StandingInv, following, NEW e \in Enrichers, EnrichStep(e)
  PROVE  /\ enrich'[e].view.validity # "invalidated"
         /\ \A n \in Retained' : generations'[n].validity # "invalidated"
<1> DEFINE r == enrich[e]
<1>1. /\ enrich \in [Enrichers -> Request] /\ r \in Request /\ r.view \in View
      /\ current \in Retained /\ generations \in [Retained -> View] /\ disk.stamp \in Nat
  BY DEF WebInv, TypeOK, FollowTypeOK, SourceTypeOK, Request, Manifest
<1>2. /\ r.view.validity # "invalidated"
      /\ \A n \in Retained : generations[n].validity # "invalidated"
  BY DEF StandingInv
<1>3. ASSUME UNCHANGED generations
      PROVE  \A n \in Retained' : generations'[n].validity # "invalidated"
  BY <1>2, <1>3 DEF Retained
<1>4. ~StabilityStops(r.view)
  BY DEF StabilityStops
<1>5. \A t, fact : Extend(r.view, t, fact).validity = r.view.validity
  BY <1>1 DEF Extend, View
<1>6. CASE \E t \in Targets, slot \in BOOLEAN : EnrichAdmit(e, t, slot)
  <2>1. enrich'[e].view = generations[current] /\ UNCHANGED generations
    BY <1>1, <1>6 DEF EnrichAdmit, Current, beside_enrich, source_vars, Request
  <2>2. QED
    BY <1>1, <1>2, <1>3, <2>1
<1>7. CASE \/ EnrichCheck(e) \/ EnrichDecoded(e) \/ \E t \in Edges : EnrichRelocation(e, t)
  <2>1. enrich'[e].view = r.view /\ UNCHANGED generations
    BY <1>1, <1>4, <1>7, ZenonT(60)
    DEF EnrichCheck, EnrichDecoded, EnrichRelocation, beside_enrich,
        source_vars, Request
  <2>2. QED
    BY <1>2, <1>3, <2>1
<1>8. CASE EnrichViolation(e)
  <2>1. /\ enrich'[e].view = Extend(r.view, r.target, [verdict |-> "invalid", stamp |-> disk.stamp])
        /\ UNCHANGED generations
    BY <1>1, <1>8 DEF EnrichViolation, beside_enrich, source_vars, Request
  <2>2. QED
    BY <1>2, <1>3, <1>5, <2>1
<1>9. CASE EnrichRecheck(e)
  <2>1. enrich'[e].view = Decoded(r) /\ UNCHANGED generations
    BY <1>1, <1>4, <1>9 DEF EnrichRecheck, beside_enrich, source_vars, Request
  <2>2. Decoded(r).validity = r.view.validity
    BY <1>5 DEF Decoded
  <2>3. QED
    BY <1>2, <1>3, <2>1, <2>2
<1>10. CASE EnrichRefused(e) \/ EnrichAnswer(e)
  <2>1. enrich'[e] = IdleRequest /\ UNCHANGED generations
    BY <1>1, <1>10 DEF EnrichRefused, EnrichAnswer, beside_enrich, source_vars
  <2>2. QED
    BY <1>3, <2>1 DEF IdleRequest, ScannedView
<1>11. CASE EnrichPublish(e)
  <2>1. enrich'[e].view = r.view
    BY <1>1, <1>11 DEF EnrichPublish, Request
  <2>2. \/ generations' = generations
        \/ r.base \in Retained /\ generations' = [generations EXCEPT ![r.base] = r.view]
    BY <1>11, PublishingSucceeds
  <2>3. QED
    BY <1>1, <1>2, <2>1, <2>2 DEF Retained
<1>12. QED
  BY <1>6, <1>7, <1>8, <1>9, <1>10, <1>11 DEF EnrichStep

LEMMA NextKeepsStanding == WebInv /\ DeepReadInv /\ StandingInv /\ [Next]_vars => StandingInv'
<1> SUFFICES ASSUME WebInv, DeepReadInv, StandingInv, [Next]_vars PROVE StandingInv'
  OBVIOUS
<1>1. enrich \in [Enrichers -> Request] /\ follower \in Follower
  BY DEF WebInv, TypeOK, FollowTypeOK
<1>2. CASE UNCHANGED <<generations, current, change_pending, follower, enrich>>
  BY <1>2 DEF StandingInv, Retained
<1>3. CASE FollowerStep /\ UNCHANGED web_vars
  <2>1. follower.pc # "off" /\ following
    BY <1>3 DEF StandingInv, FollowerStep, PollRead, PollUnchanged, PollDefer, PollRescan,
       ScanVerified, ScanInventoried, ScanFailed, PublishScan, NotifyWatchers, FollowerDies
  <2>2. follower'.validity # "invalidated"
    BY <1>1, <1>3 DEF StandingInv, Follower, Released, FollowerStep, PollRead, PollUnchanged,
       PollDefer, PollRescan, ScanVerified, ScanInventoried, ScanFailed, PublishScan,
       NotifyWatchers, FollowerDies
  <2>3. \A n \in Retained' : generations'[n].validity # "invalidated"
    <3>1. ASSUME NEW n \in Retained'
          PROVE  generations'[n].validity # "invalidated"
      <4>1. CASE n \in Retained /\ generations'[n] = generations[n]
        BY <2>1, <4>1 DEF StandingInv
      <4>2. CASE generations'[n] = ScannedView(n, follower.manifest, follower.validity,
                                               follower.inventory)
        BY <4>2 DEF ScannedView, StandingInv
      <4>3. QED
        BY <1>3, <3>1, <4>1, <4>2, FollowerChangesNoGeneration
           DEF FollowNext, WebInv, TypeOK, FollowInv
    <3>2. QED
      BY <3>1
  <2>4. QED
    BY <1>3, <2>1, <2>2, <2>3 DEF StandingInv, web_vars
<1>4. CASE \E e \in Enrichers : EnrichStep(e)
  <2>1. PICK e \in Enrichers : EnrichStep(e)
    BY <1>4
  <2>2. UNCHANGED <<current, change_pending, follower>>
    BY <2>1, EnrichingIsLocal
  <2>3. following => \A f \in Enrichers : enrich'[f].view.validity # "invalidated"
    BY <1>1, <2>1, EnrichKeepsValidity, OthersAreIdle DEF StandingInv
  <2>4. following => \A n \in Retained' : generations'[n].validity # "invalidated"
    BY <2>1, EnrichKeepsValidity
  <2>5. QED
    BY <2>2, <2>3, <2>4 DEF StandingInv
<1>5. QED
  <2>1. (\E w \in Watchers : WatchStep(w)) \/ (\E l \in Loaders : LoadStep(l)) \/ UNCHANGED vars
          => UNCHANGED <<generations, current, change_pending, follower, enrich>>
    BY DEF WatchStep, WatchOpen, WatchDecide, WatchWoken, WatchTimedOut, WatchAnswer,
       WatchDropped, beside_watch, LoadStep, LoadStart, LoadContinue, LoadEvicted,
       beside_load, source_vars, disk_vars, vars
  <2>2. InputStep /\ UNCHANGED web_vars
          => UNCHANGED <<generations, current, change_pending, follower, enrich>>
    BY DEF InputStep, WriteVolume, ChangeVolumeSet, source_vars, web_vars
  <2>3. QED
    BY <1>2, <1>3, <1>4, <2>1, <2>2 DEF Next, FollowNext

(* A step under which a generation stops being called superseded.           *)
Reinstated(n) == Standing(n) = "superseded" /\ Standing(n)' # "superseded"

LEMMA OnlyAPollReinstates ==
  ASSUME WebInv, DeepReadInv, StandingInv, [Next]_vars, NEW n \in Retained \cap Retained',
         Reinstated(n)
  PROVE  n = current' /\ follower.manifest = generations[n].fingerprint
<1>1. /\ current \in Nat /\ n \in Nat /\ n <= current
      /\ generations[n] \in View /\ change_pending \in BOOLEAN
  BY DEF WebInv, StoreInv, SourceTypeOK, RetentionIsTheNewest
<1>2. /\ generations[n].validity \notin {"invalidated", "torn"}
      /\ n < current \/ change_pending
  BY <1>1 DEF Reinstated, Standing, View, Validity
<1>3. following
  BY <1>1, <1>2 DEF StandingInv
<1>4. generations'[n].validity = generations[n].validity
  <2>1. Extends(generations'[n], generations[n])
    BY <1>1, GenerationsOnlyExtend
  <2>2. generations'[n].validity # "invalidated"
    BY <1>3, NextKeepsStanding DEF StandingInv
  <2>3. QED
    BY <2>1, <2>2 DEF Extends, Succeeds
<1>5. ~(n < current') /\ ~change_pending'
  BY <1>2, <1>4 DEF Reinstated, Standing
<1>6. /\ current' \in Nat /\ n <= current' /\ current <= current'
  BY <1>1, GenerationsOnlyExtend, NextKeepsTypes
     DEF WebInv, StoreInv, SourceTypeOK, RetentionIsTheNewest
<1>7. n = current /\ n = current'
  BY <1>1, <1>5, <1>6
<1>8. change_pending
  BY <1>1, <1>2, <1>7
<1>9. PollUnchanged
  <2>1. ~UNCHANGED change_pending
    BY <1>5, <1>8
  <2>2. ~PublishScan
    BY <1>1, <1>7 DEF PublishScan, Publish
  <2>3. FollowNext
    <3>1. CASE \E e \in Enrichers : EnrichStep(e)
      BY <2>1, <3>1, EnrichingIsLocal
    <3>2. (\E w \in Watchers : WatchStep(w)) \/ (\E l \in Loaders : LoadStep(l)) \/ UNCHANGED vars
            => UNCHANGED change_pending
      BY DEF WatchStep, WatchOpen, WatchDecide, WatchWoken, WatchTimedOut, WatchAnswer,
         WatchDropped, beside_watch, LoadStep, LoadStart, LoadContinue, LoadEvicted,
         beside_load, source_vars, vars
    <3>3. QED
      BY <2>1, <3>1, <3>2 DEF Next
  <2>4. FollowNext => \/ PollUnchanged \/ PublishScan \/ UNCHANGED change_pending
                      \/ change_pending' = TRUE
    BY DEF FollowNext, InputStep, WriteVolume, ChangeVolumeSet, FollowerStep, PollRead,
       PollDefer, PollRescan, NoteChange, NoteChangePending, ScanVerified, ScanInventoried,
       ScanFailed, NotifyWatchers, FollowerDies, source_vars
  <2>5. QED
    BY <1>5, <2>1, <2>2, <2>3, <2>4
<1>10. QED
  BY <1>7, <1>9 DEF PollUnchanged, Current

(* What readers are told of a generation: once it is superseded it stays so, *)
(* except for the current one, and that only by the poll that has just found *)
(* its manifest back in place (standing, note_change_pending).               *)
THEOREM SupersededStays == Spec => SupersededStandingHasACause
<1>1. ASSUME WebInv, DeepReadInv, StandingInv, [Next]_vars
      PROVE  [\A n \in Retained \cap Retained' :
                (Standing(n) = "superseded" /\ Standing(n)' # "superseded") =>
                  (n = current' /\ follower.manifest = generations[n].fingerprint)]_follow_vars
  BY <1>1, OnlyAPollReinstates DEF Reinstated
<1>2. QED
  BY <1>1, InitTypes, NextKeepsTypes, InitDeepReads, NextKeepsDeepReads, InitStanding,
     NextKeepsStanding, PTL DEF Spec, SupersededStandingHasACause

===============================================================================
