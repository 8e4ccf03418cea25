--------------------------- MODULE BrowserObservation ---------------------------
(***********************************************************************************)
(* Page-buffer observations in the browser (web/src/observations.ts): when to      *)
(* ask for one, what may be shown of it, and for how long.                         *)
(*                                                                                 *)
(* The epoch is modelled by what it tells apart: an answer or a delay of an        *)
(* earlier epoch changes nothing when it comes, so a new epoch forgets them.       *)
(* The rest of the viewer is `place`: BrowserFollow's actions are here the changes *)
(* of place they amount to.  The producer behind the broker takes captures, and    *)
(* may restart.  Time passes in units; a clock may jump.                           *)
(***********************************************************************************)
EXTENDS Integers

CONSTANTS
    MaxAge,       \* the age at which evidence expires (30 seconds)
    MaxCaptures,  \* bounds the producer's captures
    MaxDelays     \* bounds the delays that refreshing with nothing to ask for leaves running

ASSUME ObservationAssumption ==
    MaxAge \in Nat \ {0} /\ MaxCaptures \in Nat /\ MaxDelays \in Nat

VARIABLES
    panel,     \* UiState.observation
    place,     \* the rest of UiState that observations depend on
    due,       \* how many delays of the current epoch run
    reading,   \* the observation request of the current epoch
    checking,  \* whether a capability reading of the current epoch is under way
    producer   \* its newest capture, how old that is, and its incarnation

observerVars == <<panel, place, due, reading, checking, producer>>

\* What the route gives to ask for: a sector that is not loaded, or a viewport without pages,
\* gives nothing; the root has no panel.
Grounds == {"root", "nothing", "pages"}

NoBatch == [capture |-> 0, incarnation |-> 0, true |-> 0]
NoRead == [stage |-> "none", after |-> FALSE, sent |-> 0, trip |-> 0, jumped |-> FALSE,
           outcome |-> "none", batch |-> NoBatch, upper |-> 0]
Disabled ==
    [enabled |-> FALSE, loading |-> FALSE, batch |-> NoBatch, age |-> 0, jumped |-> FALSE,
     stopped |-> FALSE, resume |-> FALSE, since |-> 0]

Older(n) == IF n < MaxAge THEN n + 1 ELSE MaxAge
Capped(n) == IF n < MaxAge THEN n ELSE MaxAge

-----------------------------------------------------------------------------
(* A result is the next panel, whether its epoch is new, and whether a delay is *)
(* scheduled in it.                                                             *)

Schedules(p, at) == p.enabled /\ (~p.stopped \/ at.paused) /\ at.visible

\* A plausible mistake: a new epoch lets the delays of the last one run on.
NewEpochKeepingDelays(p, at, schedule, asks) ==
    /\ panel' = p
    /\ due' = IF schedule /\ Schedules(p, at) THEN due + 1 ELSE due
    /\ reading' = asks
    /\ checking' = FALSE

NewEpoch(p, at, schedule, asks) ==
    /\ panel' = p
    /\ due' = IF schedule /\ Schedules(p, at) THEN 1 ELSE 0
    /\ reading' = asks
    /\ checking' = FALSE

Expire(p, at) ==
    NewEpoch([p EXCEPT !.batch = NoBatch, !.age = 0, !.jumped = FALSE, !.loading = FALSE,
                       !.resume = TRUE, !.since = producer.capture], at, TRUE, NoRead)

Stopped(p) == [p EXCEPT !.loading = FALSE, !.batch = NoBatch, !.age = 0, !.jumped = FALSE,
                        !.stopped = TRUE]

\* Any change of place takes the ground from under what was asked for; a resumed or a
\* reappearing viewer wants a capture that is newer than its return.
\* (A plausible mistake first: only resuming does.)
InvalidateOnPause(at, elsewhere) ==
    LET returns == (place.paused /\ ~at.paused) \/ place.visible # at.visible
        p == [panel EXCEPT !.loading = FALSE, !.resume = @ \/ (place.paused /\ ~at.paused),
                !.since = IF returns THEN producer.capture ELSE @,
                !.batch = IF elsewhere THEN NoBatch ELSE @,
                !.age = IF elsewhere THEN 0 ELSE @, !.jumped = @ /\ ~elsewhere] IN
    place' = at /\ NewEpoch(p, at, TRUE, NoRead)

Invalidate(at, elsewhere) ==
    LET returns == (place.paused /\ ~at.paused) \/ place.visible # at.visible
        p == [panel EXCEPT !.loading = FALSE, !.resume = @ \/ returns,
                !.since = IF returns THEN producer.capture ELSE @,
                !.batch = IF elsewhere THEN NoBatch ELSE @,
                !.age = IF elsewhere THEN 0 ELSE @, !.jumped = @ /\ ~elsewhere] IN
    place' = at /\ NewEpoch(p, at, TRUE, NoRead)

-----------------------------------------------------------------------------
(* The user and the viewer. *)

Depart(ground) == Invalidate([place EXCEPT !.ground = ground], TRUE)

\* The same page again, or anything of another generation.
Reload == place.loaded /\ Invalidate(place, FALSE)
FirstLoad(ground) ==
    /\ ~place.loaded /\ ground \in {place.ground, "pages"}
    /\ place.ground = "root" => ground = "root"
    /\ Invalidate([place EXCEPT !.loaded = TRUE, !.ground = ground], FALSE)

\* The sector of the route arrives; of a generation that is loaded, it starts no epoch.
SectorLoaded(newer) ==
    /\ place.loaded /\ place.ground = "nothing"
    /\ newer => ~place.paused
    /\ LET at == [place EXCEPT !.ground = "pages"] IN
       IF newer THEN Invalidate(at, FALSE)
       ELSE place' = at /\ UNCHANGED <<panel, due, reading, checking>>

\* Resuming reads the route again: a page stays, a viewport is forgotten, a sector is kept.
PauseOrResume(ground, elsewhere) ==
    /\ place.loaded
    /\ elsewhere => place.paused
    /\ ground = place.ground \/ (elsewhere /\ place.ground = "pages" /\ ground = "nothing")
    /\ Invalidate([place EXCEPT !.paused = ~@, !.ground = ground], elsewhere)
Visibility == Invalidate([place EXCEPT !.visible = ~@], FALSE)

\* Other pages come into view, or none.
Viewport(ground) ==
    /\ (ground = "root") = (place.ground = "root")
    /\ place' = [place EXCEPT !.ground = ground]
    /\ NewEpoch([panel EXCEPT !.batch = NoBatch, !.age = 0, !.jumped = FALSE, !.loading = FALSE],
                place, TRUE, NoRead)

ToggleObservation ==
    /\ NewEpoch([Disabled EXCEPT !.enabled = ~panel.enabled], place, TRUE, NoRead)
    /\ UNCHANGED place

Request ==
    [NoRead EXCEPT !.stage = "sent", !.after = panel.resume, !.sent = producer.capture]

\* With nothing to ask for, one more delay of the same epoch.
Refresh ==
    /\ panel.enabled /\ place.loaded /\ place.visible /\ ~place.paused /\ ~panel.loading
    /\ \/ /\ place.ground = "pages"
          /\ NewEpoch([panel EXCEPT !.loading = TRUE, !.stopped = FALSE], place, FALSE, Request)
       \/ /\ place.ground = "nothing" /\ due < MaxDelays
          /\ due' = IF Schedules(panel, place) THEN due + 1 ELSE due
          /\ UNCHANGED <<panel, reading, checking>>
    /\ UNCHANGED place

\* observation-due, of the current epoch.
Due ==
    /\ due > 0
    /\ IF ~panel.enabled \/ ~place.visible \/ panel.loading
       THEN due' = due - 1 /\ UNCHANGED <<panel, reading, checking>>
       ELSE IF place.paused
       THEN /\ due' = due - 1
            /\ panel' = [panel EXCEPT !.loading = TRUE]
            /\ checking' = TRUE
            /\ UNCHANGED reading
       ELSE IF panel.stopped \/ ~place.loaded \/ place.ground = "root"
       THEN due' = due - 1 /\ UNCHANGED <<panel, reading, checking>>
       ELSE IF place.ground = "pages"
       THEN NewEpoch([panel EXCEPT !.loading = TRUE], place, FALSE, Request)
       ELSE UNCHANGED <<panel, due, reading, checking>>  \* another delay takes its place
    /\ UNCHANGED place

-----------------------------------------------------------------------------
(* Answers. *)

\* A failure keeps what is shown and asks again after a while, in the same epoch.
Fails(p) == /\ panel' = [p EXCEPT !.loading = FALSE]
            /\ due' = IF Schedules(p, place) THEN due + 1 ELSE due
            /\ reading' = NoRead
            /\ UNCHANGED checking

Stops == NewEpoch(Stopped(panel), place, FALSE, NoRead)

\* The age of an answer: the broker's upper bound and the whole round trip; of a capture
\* already shown, not less than the age it has reached.
\* (A plausible mistake first: the answer is as old as the broker said.)
AgeOfWithoutTrip(r) ==
    LET age == r.upper IN
    IF panel.batch # NoBatch /\ panel.batch.capture = r.batch.capture /\ panel.age > age
    THEN panel.age ELSE age

AgeOf(r) ==
    LET age == Capped(r.upper + r.trip) IN
    IF panel.batch # NoBatch /\ panel.batch.capture = r.batch.capture /\ panel.age > age
    THEN panel.age ELSE age

AgeIsUnknown(r) ==
    r.jumped \/ (panel.batch # NoBatch /\ panel.batch.capture = r.batch.capture /\ panel.jumped)

Adopt(r) ==
    [panel EXCEPT !.loading = FALSE, !.batch = r.batch, !.age = AgeOf(r), !.jumped = FALSE,
                  !.resume = FALSE, !.since = 0]

ObservationLoaded(r) ==
    IF r.outcome = "error" THEN Fails(panel)
    ELSE IF r.outcome \in {"refused", "incompatible"} THEN Stops
    ELSE IF r.outcome = "unavailable" THEN Fails(panel)
    ELSE IF panel.batch # NoBatch /\ panel.batch.incarnation # r.batch.incarnation THEN Stops
    ELSE IF r.outcome = "stale" /\ (panel.batch # NoBatch \/ panel.resume) THEN Fails(panel)
    ELSE IF AgeIsUnknown(r) \/ AgeOf(r) >= MaxAge THEN Expire(panel, place)
    ELSE Fails(Adopt(r))

\* The broker answers a request; one that wants a new capture gets no earlier one as active.
BrokerAnswers(outcome) ==
    /\ reading.stage = "sent"
    /\ outcome \in {"active", "stale"} => producer.capture > 0
    /\ outcome = "active" /\ reading.after => producer.capture > reading.sent
    /\ reading' = [reading EXCEPT !.stage = "answered", !.outcome = outcome,
         !.after = FALSE, !.sent = 0, !.upper = producer.age,
         !.batch = [capture |-> producer.capture, incarnation |-> producer.incarnation,
                    true |-> producer.age]]
    /\ UNCHANGED <<panel, place, due, checking>>

\* observation-loaded: of the current epoch, whose panel has been enabled, in view and not
\* paused all along, or of an earlier one.
Loaded ==
    /\ reading.stage = "answered"
    /\ ObservationLoaded(reading)
    /\ UNCHANGED place

\* A capability reading, taken while paused: it may end what is shown but shows nothing.
Metadata(outcome) ==
    /\ checking
    /\ LET p == [panel EXCEPT !.loading = FALSE]
           restarted == outcome = "available" /\ panel.batch # NoBatch
                          /\ panel.batch.incarnation # producer.incarnation IN
       IF outcome = "refused" \/ restarted
       THEN NewEpoch(Stopped(p), place, TRUE, NoRead)
       ELSE /\ panel' = IF outcome = "expired"
                        THEN [p EXCEPT !.batch = NoBatch, !.age = 0, !.jumped = FALSE] ELSE p
            /\ due' = IF Schedules(p, place) THEN due + 1 ELSE due
            /\ checking' = FALSE
            /\ UNCHANGED reading
    /\ UNCHANGED place

\* observation-ticked: every second, and when evidence is due to expire.
Tick ==
    /\ panel.batch # NoBatch
    /\ panel.jumped \/ panel.age >= MaxAge
    /\ Expire(panel, place)
    /\ UNCHANGED place

-----------------------------------------------------------------------------
(* Time and the producer. *)

Ages(n) == [n EXCEPT !.true = Older(@)]

TimePasses(jump) ==
    /\ panel' = [panel EXCEPT !.age = IF panel.batch = NoBatch THEN @ ELSE Older(@),
                   !.batch = IF @ = NoBatch THEN @ ELSE Ages(@),
                   !.jumped = @ \/ (jump /\ panel.batch # NoBatch)]
    /\ reading' = IF reading = NoRead THEN reading
                  ELSE [reading EXCEPT !.trip = Older(@), !.jumped = @ \/ jump,
                          !.batch = IF @ = NoBatch THEN @ ELSE Ages(@)]
    /\ producer' = [producer EXCEPT !.age = Older(@)]
    /\ UNCHANGED <<place, due, checking>>

Capture(restarted) ==
    /\ producer.capture < MaxCaptures
    /\ producer' = [capture |-> producer.capture + 1, age |-> 0,
                    incarnation |-> IF restarted THEN 1 - producer.incarnation ELSE producer.incarnation]
    /\ UNCHANGED <<panel, place, due, reading, checking>>

ObserverInit ==
    /\ panel = Disabled
    /\ \E ground \in Grounds :
         place = [loaded |-> FALSE, paused |-> FALSE, visible |-> TRUE, ground |-> ground]
    /\ due = 0
    /\ reading = NoRead
    /\ checking = FALSE
    /\ producer = [capture |-> 0, age |-> 0, incarnation |-> 0]

Outcomes == {"active", "stale", "refused", "incompatible", "unavailable", "error"}

ObserverNext ==
    \/ /\ \/ \E ground \in Grounds : Depart(ground) \/ Viewport(ground) \/ FirstLoad(ground)
          \/ Reload \/ Visibility
          \/ \E newer \in BOOLEAN : SectorLoaded(newer)
          \/ \E ground \in Grounds, elsewhere \in BOOLEAN : PauseOrResume(ground, elsewhere)
          \/ ToggleObservation \/ Refresh \/ Due
          \/ \E outcome \in Outcomes : BrokerAnswers(outcome)
          \/ Loaded
          \/ \E outcome \in {"available", "refused", "expired", "error"} : Metadata(outcome)
          \/ Tick
       /\ UNCHANGED producer
    \/ \E jump \in BOOLEAN : TimePasses(jump)
    \/ \E restarted \in BOOLEAN : Capture(restarted)

ObserverSpec == ObserverInit /\ [][ObserverNext]_observerVars

-----------------------------------------------------------------------------
(* Properties *)

\* One observation at a time: what is loading is one request or one capability reading, of
\* whose epoch no delay runs that would set off another, although refreshing with nothing to
\* ask for multiplies the delays.  And an enabled panel in view does not fall silent: it is
\* loading or about to, unless it was stopped or is of the root, and then too while paused
\* (scheduleObservation, observation-due, refresh-observation, invalidateObservation).
OneObservationAtATime ==
    /\ panel.loading = (reading # NoRead \/ checking)
    /\ ~(reading # NoRead /\ checking)
    /\ panel.loading => due = 0
    /\ due > 1 => place.loaded /\ place.visible /\ ~place.paused
    /\ (panel.enabled /\ place.visible /\ place.loaded
          /\ (place.paused \/ (~panel.stopped /\ place.ground # "root"))) =>
         panel.loading \/ due > 0

\* Evidence is never shown younger than it is, nor does the age of one capture run back
\* (observation-loaded, observationAgeAt).
EvidenceIsAgedHonestly ==
    [][panel'.batch # NoBatch /\ ~panel'.jumped =>
         /\ panel'.age >= panel'.batch.true
         /\ panel.batch.capture = panel'.batch.capture => panel'.age >= panel.age]_observerVars

\* What is shown next after a return (resumed, back in view, expired) was captured after it.
ReturnsToNewEvidence ==
    [][panel'.batch.capture \notin {0, panel.batch.capture} =>
         panel'.batch.capture > panel.since]_observerVars
=============================================================================
