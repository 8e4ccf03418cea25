-------------------------------- MODULE LiveWeb -------------------------------
(**************************************************************************)
(* The HTTP handlers that read and extend a live session (src/web.rs):    *)
(* the long poll (watch), deep reads (enrich) and collection loads that   *)
(* span several requests (collection_start, collection_response), running *)
(* beside the follower of LiveFollow.                                     *)
(*                                                                        *)
(* A handler is a process with a program counter; a step ends where it    *)
(* waits, where it lets go of the store's lock, or where it touches the   *)
(* input.  Request admission pools, parsing and rendering are left out.   *)
(**************************************************************************)
EXTENDS LiveFollow

CONSTANTS
  Pages,        (* the targets that are pages: one a deep read has decoded  *)
                (* is decoded anew when it is asked for again               *)
  Edges,        (* the targets that are relocation edges, reached through a *)
                (* slot of a page; the rest are OOS chains.  Both are kept  *)
                (* once walked                                              *)
  Enrichers,    (* clients that ask for deep reads                          *)
  Loaders,      (* clients that load a collection page by page              *)
  PageLimit,    (* items per page of a collection                           *)
  MaxRevision,  (* bounds how far deep reads extend a generation            *)
  Nobody        (* the holder of a free enrichment lock                     *)

ASSUME KindsAssumption ==
  Pages \subseteq Targets /\ Edges \subseteq Targets /\ Pages \cap Edges = {}
ASSUME PageLimitAssumption == PageLimit \in Nat \ {0}
ASSUME MaxRevisionAssumption == MaxRevision \in Nat
ASSUME NobodyAssumption == Nobody \notin Enrichers

VARIABLES
  watch,        (* each watcher's poll: pc, the generation it knows (with   *)
                (* has_known FALSE before its first answer) and the current *)
                (* generation when it asked                                 *)
  lock,         (* WebState.enrichment: who holds the mutex                 *)
  enrich,       (* each enricher's request in progress                      *)
  load          (* each loader's position and what it was shown             *)

web_vars == <<watch, lock, enrich, load>>
vars == <<generations, current, change_pending, notify, disk, edits, follower,
          watch, lock, enrich, load>>

beside_watch  == <<generations, current, change_pending, disk_vars, follower,
                   lock, enrich, load>>
beside_enrich == <<source_vars, disk_vars, follower, watch, load>>
beside_load   == <<source_vars, disk_vars, follower, watch, lock, enrich>>

-------------------------------------------------------------------------------
Poll == [pc : {"idle", "open", "waiting", "answering"}, known : Nat,
         has_known : BOOLEAN, asked : Nat]

Request == [pc : {"idle", "check", "read", "recheck", "publish", "answer"},
            target : Nat, slot : BOOLEAN, base : Nat, view : View, read_at : Nat,
            outcome : {"none", "retained", "discarded"}]

Load == [pc : {"idle", "loading", "done", "evicted", "refused"}, generation : Nat,
         offset : Nat, shown : [Targets -> Nat], pages : SUBSET (Nat \X Nat),
         listing : SUBSET Targets]

-------------------------------------------------------------------------------
(* The long poll.                                                           *)

IdlePoll == [pc |-> "idle", known |-> 0, has_known |-> FALSE, asked |-> 0]

WatchOpen(w) ==
  /\ watch[w].pc = "idle"
  /\ watch' = [watch EXCEPT ![w].pc = "open", ![w].asked = current]
  /\ Subscribe(w)
  /\ UNCHANGED beside_watch

(* The poll is held open only if the channel still shows the generation *)
(* the caller has; reading the channel marks its value seen.            *)
WatchDecide(w) ==
  /\ watch[w].pc = "open"
  /\ LET hold == following /\ watch[w].has_known /\ watch[w].known = notify.value
     IN watch' = [watch EXCEPT ![w].pc = IF hold THEN "waiting" ELSE "answering"]
  /\ MarkSeen(w)
  /\ UNCHANGED beside_watch

WatchWoken(w) ==
  /\ watch[w].pc = "waiting"
  /\ w \in notify.unseen
  /\ watch' = [watch EXCEPT ![w].pc = "answering"]
  /\ MarkSeen(w)
  /\ UNCHANGED beside_watch

(* A mistake: a poll that waits on when its window closes.                  *)
WatchWaitsOn(w) ==
  /\ watch[w].pc = "waiting"
  /\ w \notin notify.unseen
  /\ UNCHANGED vars

WatchTimedOut(w) ==
  /\ watch[w].pc = "waiting"
  /\ w \notin notify.unseen
  /\ watch' = [watch EXCEPT ![w].pc = "answering"]
  /\ UNCHANGED <<notify, beside_watch>>

(* The answer is the current reading, whatever ended the wait.              *)
WatchAnswer(w) ==
  /\ watch[w].pc = "answering"
  /\ watch' = [watch EXCEPT ![w] = [IdlePoll EXCEPT !.known = current, !.has_known = TRUE]]
  /\ Unsubscribe(w)
  /\ UNCHANGED beside_watch

(* The client goes away while its poll is held open.                        *)
WatchDropped(w) ==
  /\ watch[w].pc = "waiting"
  /\ watch' = [watch EXCEPT ![w] =
                 [IdlePoll EXCEPT !.known = watch[w].known, !.has_known = TRUE]]
  /\ Unsubscribe(w)
  /\ UNCHANGED beside_watch

-------------------------------------------------------------------------------
(* Deep reads.  One at a time holds the enrichment mutex, and works on the *)
(* view that was current when it was admitted; the follower does not take  *)
(* that mutex, so generations may be published and evicted meanwhile.      *)

IdleRequest ==
  [pc |-> "idle", target |-> 0, slot |-> FALSE, base |-> 0, read_at |-> 0,
   outcome |-> "none", view |-> ScannedView(0, [stamp |-> 0, extended |-> FALSE], "valid", 0)]

Extend(view, t, fact) == [view EXCEPT !.revision = @ + 1, !.facts[t] = fact]

InvalidatedRevision(view) ==
  IF view.validity = "invalidated" THEN view
  ELSE [view EXCEPT !.revision = @ + 1, !.validity = "invalidated"]

(* source_stability_stop: a changed input ends an immutable session; a live *)
(* one reads on.                                                            *)
StabilityStops(view) == ~VerifyUnchanged(view.fingerprint) /\ ~following

(* A chain or edge already walked in the view is taken from there; anything *)
(* else begins with a look at the stamps.                                   *)
FirstStep(view, t) ==
  IF t \in Enriched(view) \ Pages THEN "publish" ELSE "check"

(* A mistake: admitting a deep read beside another.                         *)
EnrichAdmitUnlocked(e, t, slot) ==
  /\ enrich[e].pc = "idle"
  /\ Standing(current) # "invalidated"
  /\ Current.revision < MaxRevision
  /\ t \notin Edges /\ (slot => t \in Pages)
  /\ lock' = e
  /\ enrich' = [enrich EXCEPT
                  ![e].pc = FirstStep(Current, t), ![e].target = t, ![e].slot = slot,
                  ![e].base = current, ![e].view = Current]
  /\ UNCHANGED beside_enrich

(* A page, a slot of a page, or an OOS chain is asked for.                  *)
EnrichAdmit(e, t, slot) ==
  /\ enrich[e].pc = "idle"
  /\ lock = Nobody
  /\ Standing(current) # "invalidated"
  /\ Current.revision < MaxRevision
  /\ t \notin Edges /\ (slot => t \in Pages)
  /\ lock' = e
  /\ enrich' = [enrich EXCEPT
                  ![e].pc = FirstStep(Current, t), ![e].target = t, ![e].slot = slot,
                  ![e].base = current, ![e].view = Current]
  /\ UNCHANGED beside_enrich

EnrichCheck(e) ==
  /\ enrich[e].pc = "check"
  /\ enrich' = IF StabilityStops(enrich[e].view)
               THEN [enrich EXCEPT ![e].pc = "publish",
                                   ![e].view = InvalidatedRevision(@)]
               ELSE [enrich EXCEPT ![e].pc = "read"]
  /\ UNCHANGED <<lock, beside_enrich>>

(* The target's pages are read and decode.                                  *)
EnrichDecoded(e) ==
  /\ enrich[e].pc = "read"
  /\ enrich' = [enrich EXCEPT ![e].pc = "recheck", ![e].read_at = disk.stamp]
  /\ UNCHANGED <<lock, beside_enrich>>

(* The target's pages violate their format: the violation is published as  *)
(* it is, without a second look at the stamps, in place of what an earlier *)
(* read of the page found.                                                 *)
EnrichViolation(e) ==
  /\ enrich[e].pc = "read"
  /\ enrich' = [enrich EXCEPT
                  ![e].pc = "publish",
                  ![e].view = Extend(@, enrich[e].target,
                                     [verdict |-> "invalid", stamp |-> disk.stamp])]
  /\ UNCHANGED <<lock, beside_enrich>>

(* What was decoded, unless an earlier read of the page is on record.       *)
Decoded(request) ==
  IF request.target \in Enriched(request.view) THEN request.view
  ELSE Extend(request.view, request.target, [verdict |-> "valid", stamp |-> request.read_at])

(* A mistake: publishing what was decoded without a second look.            *)
EnrichUnchecked(e) ==
  /\ enrich[e].pc = "recheck"
  /\ enrich' = [enrich EXCEPT ![e].pc = "publish", ![e].view = Decoded(enrich[e])]
  /\ UNCHANGED <<lock, beside_enrich>>

(* The stamps are checked again; a changed one discards what was decoded *)
(* and ends an immutable session.                                        *)
EnrichRecheck(e) ==
  /\ enrich[e].pc = "recheck"
  /\ enrich' = [enrich EXCEPT
                  ![e].pc = "publish",
                  ![e].view = IF StabilityStops(@) THEN InvalidatedRevision(@)
                              ELSE Decoded(enrich[e])]
  /\ UNCHANGED <<lock, beside_enrich>>

(* A slot is found only in a page that has been decoded.                    *)
PageIsDecoded(request) ==
  request.target \in Pages => request.view.facts[request.target].verdict = "valid"

(* The slot asked for turns out to be relocated: its edge is walked next.   *)
EnrichRelocation(e, t) ==
  /\ enrich[e].pc = "publish"
  /\ enrich[e].slot /\ enrich[e].target \in Pages /\ PageIsDecoded(enrich[e])
  /\ t \in Edges
  /\ enrich' = [enrich EXCEPT ![e].pc = FirstStep(enrich[e].view, t), ![e].target = t]
  /\ UNCHANGED <<lock, beside_enrich>>

(* A read error, a resource limit or a missing entity: an error response. *)
(* A slot that is not there is missed only after its page has been read,  *)
(* whose facts, or whose invalidation, are dropped.                       *)
EnrichRefused(e) ==
  /\ \/ enrich[e].pc \in {"check", "read", "recheck"}
     \/ enrich[e].pc = "publish" /\ enrich[e].slot
  /\ enrich' = [enrich EXCEPT ![e] = IdleRequest]
  /\ lock' = Nobody
  /\ UNCHANGED beside_enrich

EnrichPublish(e) ==
  /\ enrich[e].pc = "publish"
  /\ enrich[e].slot => PageIsDecoded(enrich[e])
  /\ PublishRevision(enrich[e].base, enrich[e].view)
  /\ enrich' = [enrich EXCEPT
                  ![e].pc = "answer",
                  ![e].outcome = IF AcceptsRevision(enrich[e].base, enrich[e].view)
                                 THEN "retained" ELSE "discarded"]
  /\ UNCHANGED <<disk_vars, follower, watch, lock, load>>

EnrichAnswer(e) ==
  /\ enrich[e].pc = "answer"
  /\ enrich' = [enrich EXCEPT ![e] = IdleRequest]
  /\ lock' = Nobody
  /\ UNCHANGED beside_enrich

-------------------------------------------------------------------------------
(* Collection loads.  A listing shows a view's chains and edges in order; a *)
(* page of it is the ones at ranks offset .. end - 1.                       *)

Relationships(view) == Enriched(view) \ Pages

Rank(view, t) == Cardinality({u \in Relationships(view) : u < t})

Total(view) == Cardinality(Relationships(view))

PageEnd(view, offset) ==
  IF offset + PageLimit < Total(view) THEN offset + PageLimit ELSE Total(view)

Page(view, offset) ==
  {t \in Relationships(view) : Rank(view, t) >= offset /\ Rank(view, t) < PageEnd(view, offset)}

(* collection_response: an offset past the listing is refused, otherwise *)
(* the page is shown and a cursor issued unless it was the last.         *)
Respond(l, n, offset, shown) ==
  LET view == generations[n]
  IN IF offset > Total(view)
     THEN load' = [load EXCEPT ![l].pc = "refused"]
     ELSE load' = [load EXCEPT
            ![l].pc = IF PageEnd(view, offset) < Total(view) THEN "loading" ELSE "done",
            ![l].generation = n,
            ![l].offset = PageEnd(view, offset),
            ![l].shown = [t \in Targets |-> shown[t] + (IF t \in Page(view, offset) THEN 1 ELSE 0)],
            ![l].pages = (IF offset = 0 THEN {} ELSE @) \cup {<<n, view.revision>>},
            ![l].listing = IF offset = 0 THEN Relationships(view) ELSE @]

(* A request without a cursor starts on the current reading.                *)
LoadStart(l) ==
  /\ Respond(l, current, 0, [t \in Targets |-> 0])
  /\ UNCHANGED beside_load

(* A mistake: continuing on whatever is current.                            *)
LoadContinueOnCurrent(l) ==
  /\ load[l].pc = "loading"
  /\ load[l].generation \in Retained
  /\ Respond(l, current, load[l].offset, load[l].shown)
  /\ UNCHANGED beside_load

(* A cursor continues on the generation it names, at its latest revision.   *)
LoadContinue(l) ==
  /\ load[l].pc = "loading"
  /\ load[l].generation \in Retained
  /\ Respond(l, load[l].generation, load[l].offset, load[l].shown)
  /\ UNCHANGED beside_load

LoadEvicted(l) ==
  /\ load[l].pc = "loading"
  /\ load[l].generation \notin Retained
  /\ load' = [load EXCEPT ![l].pc = "evicted"]
  /\ UNCHANGED beside_load

-------------------------------------------------------------------------------
Init ==
  /\ FollowInit
  /\ watch = [w \in Watchers |-> IdlePoll]
  /\ lock = Nobody
  /\ enrich = [e \in Enrichers |-> IdleRequest]
  /\ load = [l \in Loaders |-> [pc |-> "idle", generation |-> 0, offset |-> 0,
                                shown |-> [t \in Targets |-> 0], pages |-> {}, listing |-> {}]]

WatchStep(w) ==
  \/ WatchOpen(w)
  \/ WatchDecide(w)
  \/ WatchWoken(w)
  \/ WatchTimedOut(w)
  \/ WatchAnswer(w)
  \/ WatchDropped(w)

EnrichStep(e) ==
  \/ \E t \in Targets, slot \in BOOLEAN : EnrichAdmit(e, t, slot)
  \/ EnrichCheck(e)
  \/ EnrichDecoded(e)
  \/ EnrichViolation(e)
  \/ EnrichRefused(e)
  \/ EnrichRecheck(e)
  \/ \E t \in Edges : EnrichRelocation(e, t)
  \/ EnrichPublish(e)
  \/ EnrichAnswer(e)

LoadStep(l) ==
  \/ LoadStart(l)
  \/ LoadContinue(l)
  \/ LoadEvicted(l)

Next ==
  \/ FollowNext /\ UNCHANGED web_vars
  \/ \E w \in Watchers : WatchStep(w)
  \/ \E e \in Enrichers : EnrichStep(e)
  \/ \E l \in Loaders : LoadStep(l)

Spec == Init /\ [][Next]_vars

(* A poll held open always ends; clients ask again.                         *)
WatchFairness ==
  \A w \in Watchers :
    /\ WF_vars(WatchOpen(w))
    /\ WF_vars(WatchDecide(w))
    /\ SF_vars(WatchWoken(w) \/ WatchTimedOut(w))
    /\ WF_vars(WatchAnswer(w))

FairSpec == Spec /\ FollowFairness /\ WatchFairness

-------------------------------------------------------------------------------
TypeOK ==
  /\ FollowTypeOK
  /\ watch \in [Watchers -> Poll]
  /\ lock \in Enrichers \cup {Nobody}
  /\ enrich \in [Enrichers -> Request]
  /\ load \in [Loaders -> Load]

(* No publication falls between a poll's decision to wait and its waiting: *)
(* one still asleep, with nothing unseen and no send under way, asked when *)
(* the generation now current was current already (watch, publish).        *)
NoMissedPublication ==
  \A w \in Watchers :
    (watch[w].pc = "waiting" /\ w \notin notify.unseen /\ follower.pc # "notifying")
      => watch[w].asked = current

(* Deep reads never carry over between generations: a generation shows only *)
(* views of its own scan, although a re-read may be published, and the base *)
(* evicted, while a deep read is under way (enrich, publish_revision).      *)
EnrichmentStaysOnItsGeneration ==
  \A n \in Retained : generations[n].scan = n

(* A deep read whose result is discarded has lost nothing that is still     *)
(* addressable: its generation is gone, has the target already, or has been *)
(* invalidated (the enrichment mutex against publish_revision's check).     *)
NoDeepReadIsLost ==
  \A e \in Enrichers :
    (/\ enrich[e].pc = "answer"
     /\ enrich[e].outcome = "discarded"
     /\ enrich[e].base \in Retained)
      => \/ enrich[e].target \in Enriched(generations[enrich[e].base])
         \/ generations[enrich[e].base].validity = "invalidated"

(* In an immutable session, one that has no follower, everything decoded *)
(* as valid was read from the input the snapshot was taken of, although  *)
(* the input may change at any point of the read (source_stability_stop  *)
(* before and after).                                                    *)
ImmutableFactsAreOfTheSnapshot ==
  follower.pc = "off" =>
    \A n \in Retained, t \in Targets :
      generations[n].facts[t].verdict = "valid" =>
        generations[n].facts[t].stamp = generations[n].fingerprint.stamp

(* Every page of a load is read from one generation, whatever is published *)
(* between its requests; otherwise the load is told it cannot go on        *)
(* (collection_start).                                                     *)
LoadReadsOneGeneration ==
  \A l \in Loaders : \A p, q \in load[l].pages : p[1] = q[1]

(* A cursor this session issued is never answered as an invalid one: *)
(* listings only grow while their generation is retained.            *)
CursorStaysInRange ==
  \A l \in Loaders : load[l].pc # "refused"

(* A load no deep read interfered with shows each item exactly once.        *)
UndisturbedLoadIsWhole ==
  \A l \in Loaders :
    (load[l].pc = "done" /\ \A p, q \in load[l].pages : p = q)
      => load[l].shown = [t \in Targets |-> IF t \in load[l].listing THEN 1 ELSE 0]

(* A load is of one reading: all its pages are of one generation, its cursor is  *)
(* not refused while that is retained, and unless deep reads extend the listing  *)
(* under it each item is shown exactly once (collection_start,                   *)
(* collection_response).                                                         *)
LoadsAreOfOneReading == LoadReadsOneGeneration /\ CursorStaysInRange /\ UndisturbedLoadIsWhole

(* The session as its readers see it.                                       *)
Readers == INSTANCE LiveSession WITH
             Window   <- RetentionWindow,
             latest   <- current,
             facts    <- [n \in Retained |-> Enriched(generations[n])],
             outdated <- change_pending

(* The follower, the enrichment mutex, eviction and the interleaving of *)
(* publications with deep reads keep the promise of LiveSession.        *)
KeepsThePromise == Readers!Spec

(* A client that keeps polling learns of every published generation or of *)
(* a later one.                                                           *)
WatchersCatchUp ==
  \A w \in Watchers :
    (watch[w].has_known /\ watch[w].known # current) ~> (watch[w].known = current)

-------------------------------------------------------------------------------
(* What comments of the code say and the code does not do.                  *)

(* web.rs:703-706, of the long poll: it "[l]ong-polls until the current    *)
(* generation differs from the caller's" and "returns the moment a re-read *)
(* is published".  So no poll sleeps on a generation that is not current.  *)
PollNeverSleepsThroughAnAdvance ==
  \A w \in Watchers :
    (watch[w].pc = "waiting" /\ w \notin notify.unseen /\ follower.pc # "notifying")
      => watch[w].known = current

(* web.rs:978-982: a load is "never stitched together from two different *)
(* readings" nor handed "a silent seam": a finished load shows no item   *)
(* twice and misses none of those listed when it began.                  *)
LoadHasNoSeam ==
  \A l \in Loaders :
    load[l].pc = "done" => \A t \in load[l].listing : load[l].shown[t] = 1

(* CONTEXT.md:28: once the manifest does not match, a snapshot "cannot    *)
(* accept further inspection enrichment": no recorded violation describes *)
(* other content than the snapshot's.                                     *)
ImmutableFindingsAreOfTheSnapshot ==
  ~following => \A n \in Retained, t \in Targets :
                  generations[n].facts[t].verdict = "invalid" =>
                    generations[n].facts[t].stamp = generations[n].fingerprint.stamp

===============================================================================
