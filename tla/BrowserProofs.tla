------------------------------ MODULE BrowserProofs ------------------------------
(*******************************************************************************)
(* The browser, for any number of generations, loads and captures, and any     *)
(* lifetime of evidence: what is shown is of the route and generation the      *)
(* header names, one poll and one observation are under way, and evidence is   *)
(* never shown younger than it is.                                             *)
(*******************************************************************************)
EXTENDS BrowserFollow, BrowserObservation, FiniteSetTheorems, WellFoundedInduction, TLAPS

-----------------------------------------------------------------------------
(* Observations. *)

Batches == [capture : Nat, incarnation : {0, 1}, true : 0 .. MaxAge]
Panels == [enabled : BOOLEAN, loading : BOOLEAN, batch : Batches, age : 0 .. MaxAge,
           jumped : BOOLEAN, stopped : BOOLEAN, resume : BOOLEAN, since : Nat]
Places == [loaded : BOOLEAN, paused : BOOLEAN, visible : BOOLEAN, ground : Grounds]
Readings == [stage : {"none", "sent", "answered"}, after : BOOLEAN, sent : Nat,
             trip : 0 .. MaxAge, jumped : BOOLEAN, outcome : Outcomes \cup {"none"},
             batch : Batches, upper : 0 .. MaxAge]

ObserverType ==
    /\ panel \in Panels
    /\ place \in Places
    /\ due \in Nat
    /\ reading \in Readings
    /\ checking \in BOOLEAN
    /\ producer \in [capture : Nat, age : 0 .. MaxAge, incarnation : {0, 1}]
    /\ reading.stage = "none" => reading = NoRead
    /\ panel.batch = NoBatch \/ panel.batch.capture > 0
    /\ reading.stage = "answered" =>
         /\ reading.outcome \in Outcomes
         /\ reading.outcome \in {"active", "stale"} => reading.batch.capture > 0

\* What asks was set off by an enabled panel in view, and nothing has changed since that
\* would have ended it.
AskedInView ==
    /\ reading # NoRead => /\ panel.enabled /\ ~panel.stopped
                           /\ place.loaded /\ place.visible /\ ~place.paused
    /\ checking => panel.enabled /\ place.visible /\ place.paused

\* The age that is shown, and the one an answer will be shown with, bound the true one.
AgesAreBounds ==
    /\ panel.batch = NoBatch => panel.age = 0 /\ ~panel.jumped
    /\ ~panel.jumped => panel.age >= panel.batch.true
    /\ reading.stage = "answered" => Capped(reading.upper + reading.trip) >= reading.batch.true

\* A viewer that has returned asks for a later capture than it returned to, and an active
\* answer to that is one.
ReturnsAreCarried ==
    /\ panel.since <= producer.capture
    /\ ~panel.resume => panel.since = 0
    /\ reading.stage = "sent" /\ panel.resume => reading.after /\ reading.sent >= panel.since
    /\ reading.stage = "answered" /\ reading.outcome = "active" /\ panel.resume =>
         reading.batch.capture > panel.since

LEMMA NothingIsTyped ==
    /\ NoBatch \in Batches /\ NoBatch.capture = 0 /\ NoBatch.true = 0
    /\ NoRead \in Readings /\ NoRead.stage = "none" /\ NoRead.batch = NoBatch
    /\ Disabled \in Panels /\ Disabled.batch = NoBatch /\ Disabled.age = 0
    /\ Disabled.since = 0 /\ ~Disabled.resume /\ ~Disabled.jumped /\ ~Disabled.loading
    /\ ~Disabled.enabled /\ ~Disabled.stopped
BY ObservationAssumption DEF NoBatch, NoRead, Disabled, Batches, Readings, Panels, Outcomes

LEMMA AgesStayInRange ==
    ASSUME NEW n \in Nat
    PROVE /\ Capped(n) \in 0 .. MaxAge
          /\ n \in 0 .. MaxAge => Older(n) \in 0 .. MaxAge /\ Older(n) >= n
BY ObservationAssumption DEF Capped, Older

LEMMA RequestIsTyped ==
    ASSUME ObserverType
    PROVE /\ Request \in Readings /\ Request # NoRead /\ Request.stage = "sent"
          /\ Request.after = panel.resume /\ Request.sent = producer.capture
BY NothingIsTyped, ObservationAssumption, ZenonT(60)
  DEF ObserverType, Request, NoRead, Readings, Panels

LEMMA StoppedPanel ==
    ASSUME NEW p \in Panels
    PROVE /\ Stopped(p) \in Panels /\ Stopped(p).batch = NoBatch /\ Stopped(p).age = 0
          /\ ~Stopped(p).jumped /\ Stopped(p).stopped /\ ~Stopped(p).loading
          /\ Stopped(p).enabled = p.enabled /\ Stopped(p).resume = p.resume
          /\ Stopped(p).since = p.since
BY NothingIsTyped, ObservationAssumption DEF Stopped, Panels

LEMMA InvalidateLeaves ==
    ASSUME ObserverType, NEW at \in Places, NEW elsewhere \in BOOLEAN, Invalidate(at, elsewhere)
    PROVE /\ panel' \in Panels /\ place' = at /\ reading' = NoRead /\ checking' = FALSE
          /\ panel'.loading = FALSE
          /\ panel'.enabled = panel.enabled /\ panel'.stopped = panel.stopped
          /\ due' = IF Schedules(panel', at) THEN 1 ELSE 0
          /\ IF elsewhere THEN panel'.batch = NoBatch /\ panel'.age = 0 /\ ~panel'.jumped
             ELSE panel'.batch = panel.batch /\ panel'.age = panel.age
                    /\ panel'.jumped = panel.jumped
          /\ \/ panel'.resume /\ panel'.since = producer.capture
             \/ panel'.resume = panel.resume /\ panel'.since = panel.since
BY NothingIsTyped, ObservationAssumption, ZenonT(60)
  DEF Invalidate, NewEpoch, ObserverType, Panels, Places

LEMMA ExpireLeaves ==
    ASSUME ObserverType, Expire(panel, place)
    PROVE /\ panel' \in Panels /\ reading' = NoRead /\ checking' = FALSE
          /\ ~panel'.loading /\ panel'.batch = NoBatch /\ panel'.age = 0 /\ ~panel'.jumped
          /\ panel'.enabled = panel.enabled /\ panel'.stopped = panel.stopped
          /\ panel'.resume /\ panel'.since = producer.capture
          /\ due' = IF Schedules(panel', place) THEN 1 ELSE 0
BY NothingIsTyped, ObservationAssumption DEF Expire, NewEpoch, ObserverType, Panels, Places

LEMMA AdoptLeaves ==
    ASSUME ObserverType
    PROVE /\ Adopt(reading) \in Panels /\ ~Adopt(reading).loading
          /\ Adopt(reading).batch = reading.batch /\ Adopt(reading).age = AgeOf(reading)
          /\ ~Adopt(reading).jumped /\ ~Adopt(reading).resume /\ Adopt(reading).since = 0
          /\ Adopt(reading).enabled = panel.enabled /\ Adopt(reading).stopped = panel.stopped
<1>1. reading.upper + reading.trip \in Nat
  BY ObservationAssumption DEF ObserverType, Readings
<1>2. AgeOf(reading) \in 0 .. MaxAge
  BY <1>1, AgesStayInRange DEF AgeOf, ObserverType, Panels
<1>3. QED
  BY <1>2 DEF Adopt, ObserverType, Panels, Readings

LEMMA FailsLeaves ==
    ASSUME NEW p \in Panels, Fails(p)
    PROVE /\ panel' \in Panels /\ ~panel'.loading /\ reading' = NoRead
          /\ panel'.batch = p.batch /\ panel'.age = p.age /\ panel'.jumped = p.jumped
          /\ panel'.enabled = p.enabled /\ panel'.stopped = p.stopped
          /\ panel'.resume = p.resume /\ panel'.since = p.since
          /\ due' = (IF Schedules(p, place) THEN due + 1 ELSE due)
          /\ checking' = checking
BY DEF Fails, Panels

LEMMA TimeLeaves ==
    ASSUME ObserverType, NEW jump \in BOOLEAN, TimePasses(jump)
    PROVE /\ panel' \in Panels /\ reading' \in Readings
          /\ producer' \in [capture : Nat, age : 0 .. MaxAge, incarnation : {0, 1}]
          /\ producer'.capture = producer.capture
          /\ panel'.batch.capture = panel.batch.capture
          /\ panel.batch = NoBatch => panel'.batch = NoBatch /\ panel'.age = panel.age
                                        /\ panel'.jumped = panel.jumped
          /\ panel.batch # NoBatch => /\ panel'.age = Older(panel.age)
                                      /\ panel'.batch.true = Older(panel.batch.true)
                                      /\ panel.jumped => panel'.jumped
          /\ panel'.loading = panel.loading /\ panel'.enabled = panel.enabled
          /\ panel'.stopped = panel.stopped
          /\ panel'.resume = panel.resume /\ panel'.since = panel.since
          /\ (reading' = NoRead) = (reading = NoRead)
          /\ reading'.stage = reading.stage /\ reading'.outcome = reading.outcome
          /\ reading'.after = reading.after /\ reading'.sent = reading.sent
          /\ reading'.batch.capture = reading.batch.capture
          /\ reading'.upper = reading.upper
          /\ reading # NoRead => reading'.trip = Older(reading.trip)
          /\ reading'.batch.true \in {reading.batch.true, Older(reading.batch.true)}
<1>1. \A b \in Batches : /\ Ages(b) \in Batches /\ Ages(b).capture = b.capture
                         /\ Ages(b).true = Older(b.true)
  BY AgesStayInRange, ObservationAssumption DEF Ages, Batches
<1> DEFINE p == IF panel.batch = NoBatch THEN NoBatch ELSE Ages(panel.batch)
           r == IF reading.batch = NoBatch THEN NoBatch ELSE Ages(reading.batch)
<1>2. /\ p \in Batches /\ p.capture = panel.batch.capture
      /\ panel.batch # NoBatch => p.true = Older(panel.batch.true)
  BY <1>1, NothingIsTyped DEF ObserverType, Panels
<1>3. /\ r \in Batches /\ r.capture = reading.batch.capture
      /\ r.true \in {reading.batch.true, Older(reading.batch.true)}
  BY <1>1, NothingIsTyped DEF ObserverType, Readings
<1>4. panel' = [panel EXCEPT !.age = IF panel.batch = NoBatch THEN @ ELSE Older(@), !.batch = p,
                             !.jumped = @ \/ (jump /\ panel.batch # NoBatch)]
  BY DEF TimePasses, ObserverType, Panels
<1>5. reading # NoRead =>
        reading' = [reading EXCEPT !.trip = Older(@), !.jumped = @ \/ jump, !.batch = r]
  BY DEF TimePasses, ObserverType, Readings
<1>6. reading = NoRead => reading' = NoRead
  BY DEF TimePasses
<1>7. reading # NoRead => reading.stage # "none"
  BY DEF ObserverType
<1> HIDE DEF p, r
<1>8. panel.age \in 0 .. MaxAge /\ Older(panel.age) \in 0 .. MaxAge
  BY AgesStayInRange DEF ObserverType, Panels
<1>9. reading.trip \in 0 .. MaxAge /\ Older(reading.trip) \in 0 .. MaxAge
  BY AgesStayInRange DEF ObserverType, Readings
<1>10. /\ panel' \in Panels /\ panel'.batch = p
       /\ panel.batch = NoBatch => panel'.age = panel.age /\ panel'.jumped = panel.jumped
       /\ panel.batch # NoBatch => panel'.age = Older(panel.age) /\ (panel.jumped => panel'.jumped)
       /\ panel'.loading = panel.loading /\ panel'.enabled = panel.enabled
       /\ panel'.stopped = panel.stopped
       /\ panel'.resume = panel.resume /\ panel'.since = panel.since
  BY <1>2, <1>4, <1>8 DEF ObserverType, Panels
<1>11. panel.batch = NoBatch => p = NoBatch
  BY DEF p
<1>12. reading # NoRead =>
         /\ reading' \in Readings /\ reading'.batch = r
         /\ reading'.stage = reading.stage /\ reading'.outcome = reading.outcome
         /\ reading'.after = reading.after /\ reading'.sent = reading.sent
         /\ reading'.upper = reading.upper /\ reading'.trip = Older(reading.trip)
  BY <1>3, <1>5, <1>9 DEF ObserverType, Readings
<1>13. producer' \in [capture : Nat, age : 0 .. MaxAge, incarnation : {0, 1}]
         /\ producer'.capture = producer.capture
  BY AgesStayInRange DEF TimePasses, ObserverType
<1>14. (reading' = NoRead) = (reading = NoRead)
  BY <1>6, <1>7, <1>12, NothingIsTyped
<1>15. /\ reading' \in Readings
       /\ reading'.stage = reading.stage /\ reading'.outcome = reading.outcome
       /\ reading'.after = reading.after /\ reading'.sent = reading.sent
       /\ reading'.batch.capture = reading.batch.capture
       /\ reading'.upper = reading.upper
       /\ reading # NoRead => reading'.trip = Older(reading.trip)
       /\ reading'.batch.true \in {reading.batch.true, Older(reading.batch.true)}
  <2>1. CASE reading = NoRead
    BY <2>1, <1>6 DEF ObserverType
  <2>2. CASE reading # NoRead
    BY <2>2, <1>12, <1>3
  <2>3. QED
    BY <2>1, <2>2
<1>16. panel'.batch.capture = panel.batch.capture
         /\ (panel.batch # NoBatch => panel'.batch.true = Older(panel.batch.true))
  BY <1>10, <1>2
<1>17. QED
  BY <1>10, <1>11, <1>13, <1>14, <1>15, <1>16

\* What an answer does to the panel: nothing, stop it, expire it, or be shown.
LEMMA LoadedLeaves ==
    ASSUME ObserverType, reading.stage = "answered", ObservationLoaded(reading)
    PROVE \/ Fails(panel)
          \/ Stops
          \/ Expire(panel, place)
          \/ /\ reading.outcome \in {"active", "stale"}
             /\ reading.outcome = "stale" => panel.batch = NoBatch /\ ~panel.resume
             /\ ~AgeIsUnknown(reading) /\ AgeOf(reading) < MaxAge
             /\ Fails(Adopt(reading))
<1>1. reading.outcome \in Outcomes
  BY DEF ObserverType
<1>2. AgeOf(reading) \in 0 .. MaxAge
  <2>1. reading.upper + reading.trip \in Nat
    BY ObservationAssumption DEF ObserverType, Readings
  <2>2. QED
    BY <2>1, AgesStayInRange DEF AgeOf, ObserverType, Panels
<1>3. AgeOf(reading) >= MaxAge \/ AgeOf(reading) < MaxAge
  BY <1>2, ObservationAssumption
<1>4. QED
  BY <1>1, <1>3 DEF ObservationLoaded, Outcomes

ObserverInv ==
    ObserverType /\ OneObservationAtATime /\ AskedInView /\ AgesAreBounds /\ ReturnsAreCarried

\* A result that asks nothing schedules a delay if the panel is to have one: then the panel
\* is in order.
LEMMA RestsInOrder ==
    ASSUME panel' \in Panels, place' \in Places, reading' = NoRead, checking' = FALSE,
           ~panel'.loading, due' = IF Schedules(panel', place') THEN 1 ELSE 0,
           panel'.batch = NoBatch \/ panel'.batch.capture > 0,
           producer' \in [capture : Nat, age : 0 .. MaxAge, incarnation : {0, 1}]
    PROVE ObserverType' /\ OneObservationAtATime' /\ AskedInView'
<1>1. ObserverType'
  BY NothingIsTyped DEF ObserverType
<1>2. OneObservationAtATime'
  BY DEF OneObservationAtATime, Schedules, Panels, Places
<1>3. QED
  BY <1>1, <1>2 DEF AskedInView

\* Its ages and its return are in order when it shows nothing or what it showed, and wants
\* what it wanted or what is newest.
LEMMA RestsHonestly ==
    ASSUME ObserverInv, panel' \in Panels, reading' = NoRead, UNCHANGED producer,
           \/ panel'.batch = NoBatch /\ panel'.age = 0 /\ ~panel'.jumped
           \/ panel'.batch = panel.batch /\ panel'.age = panel.age /\ panel'.jumped = panel.jumped,
           \/ panel'.resume /\ panel'.since = producer.capture
           \/ panel'.resume = panel.resume /\ panel'.since = panel.since
           \/ panel'.since = 0
    PROVE AgesAreBounds' /\ ReturnsAreCarried' /\ (panel'.batch = NoBatch \/ panel'.batch.capture > 0)
<1>1. AgesAreBounds'
  BY NothingIsTyped DEF AgesAreBounds, ObserverInv
<1>2. ReturnsAreCarried'
  BY NothingIsTyped DEF ReturnsAreCarried, ObserverInv, ObserverType, Panels
<1>3. QED
  BY <1>1, <1>2 DEF ObserverInv, ObserverType

LEMMA InvalidateKeeps ==
    ASSUME ObserverInv, NEW at \in Places, NEW elsewhere \in BOOLEAN, Invalidate(at, elsewhere),
           UNCHANGED producer
    PROVE ObserverInv'
<1>1. ObserverType
  BY DEF ObserverInv
<1>2. /\ panel' \in Panels /\ place' = at /\ reading' = NoRead /\ checking' = FALSE
      /\ panel'.loading = FALSE
      /\ due' = IF Schedules(panel', place') THEN 1 ELSE 0
  BY <1>1, InvalidateLeaves
<1>3. /\ \/ panel'.batch = NoBatch /\ panel'.age = 0 /\ ~panel'.jumped
         \/ panel'.batch = panel.batch /\ panel'.age = panel.age /\ panel'.jumped = panel.jumped
      /\ \/ panel'.resume /\ panel'.since = producer.capture
         \/ panel'.resume = panel.resume /\ panel'.since = panel.since
  BY <1>1, InvalidateLeaves
<1>4. AgesAreBounds' /\ ReturnsAreCarried' /\ (panel'.batch = NoBatch \/ panel'.batch.capture > 0)
  BY <1>2, <1>3, RestsHonestly
<1>5. producer' \in [capture : Nat, age : 0 .. MaxAge, incarnation : {0, 1}]
  BY <1>1 DEF ObserverType
<1>6. ObserverType' /\ OneObservationAtATime' /\ AskedInView'
  BY <1>2, <1>4, <1>5, RestsInOrder
<1>7. QED
  BY <1>4, <1>6 DEF ObserverInv

LEMMA ViewportKeeps ==
    ASSUME ObserverInv, NEW ground \in Grounds, Viewport(ground), UNCHANGED producer
    PROVE ObserverInv'
<1>1. ObserverType
  BY DEF ObserverInv
<1>2. /\ panel' \in Panels /\ place' \in Places /\ reading' = NoRead /\ checking' = FALSE
      /\ panel'.loading = FALSE
      /\ place'.paused = place.paused /\ place'.visible = place.visible
      /\ due' = IF Schedules(panel', place) THEN 1 ELSE 0
      /\ panel'.batch = NoBatch /\ panel'.age = 0 /\ ~panel'.jumped
      /\ panel'.resume = panel.resume /\ panel'.since = panel.since
  BY <1>1, NothingIsTyped, ObservationAssumption
  DEF Viewport, NewEpoch, ObserverType, Panels, Places
<1>3. due' = IF Schedules(panel', place') THEN 1 ELSE 0
  BY <1>2 DEF Schedules
<1>4. AgesAreBounds' /\ ReturnsAreCarried' /\ (panel'.batch = NoBatch \/ panel'.batch.capture > 0)
  BY <1>2, RestsHonestly
<1>5. producer' \in [capture : Nat, age : 0 .. MaxAge, incarnation : {0, 1}]
  BY <1>1 DEF ObserverType
<1>6. ObserverType' /\ OneObservationAtATime' /\ AskedInView'
  BY <1>2, <1>3, <1>4, <1>5, RestsInOrder
<1>7. QED
  BY <1>4, <1>6 DEF ObserverInv

LEMMA ToggleKeeps ==
    ASSUME ObserverInv, ToggleObservation, UNCHANGED producer
    PROVE ObserverInv'
<1>1. ObserverType
  BY DEF ObserverInv
<1>2. /\ panel' \in Panels /\ place' \in Places /\ reading' = NoRead /\ checking' = FALSE
      /\ panel'.loading = FALSE
      /\ due' = IF Schedules(panel', place') THEN 1 ELSE 0
      /\ panel'.batch = NoBatch /\ panel'.age = 0 /\ ~panel'.jumped
      /\ panel'.since = 0
  BY <1>1, NothingIsTyped DEF ToggleObservation, NewEpoch, ObserverType, Panels, Places
<1>3. AgesAreBounds' /\ ReturnsAreCarried' /\ (panel'.batch = NoBatch \/ panel'.batch.capture > 0)
  BY <1>2, RestsHonestly
<1>4. producer' \in [capture : Nat, age : 0 .. MaxAge, incarnation : {0, 1}]
  BY <1>1 DEF ObserverType
<1>5. ObserverType' /\ OneObservationAtATime' /\ AskedInView'
  BY <1>2, <1>3, <1>4, RestsInOrder
<1>6. QED
  BY <1>3, <1>5 DEF ObserverInv

LEMMA ExpireKeeps ==
    ASSUME ObserverInv, Expire(panel, place), UNCHANGED <<place, producer>>
    PROVE ObserverInv'
<1>1. ObserverType
  BY DEF ObserverInv
<1>2. /\ panel' \in Panels /\ place' \in Places /\ reading' = NoRead /\ checking' = FALSE
      /\ ~panel'.loading
      /\ due' = IF Schedules(panel', place') THEN 1 ELSE 0
      /\ panel'.batch = NoBatch /\ panel'.age = 0 /\ ~panel'.jumped
      /\ panel'.resume /\ panel'.since = producer.capture
  BY <1>1, ExpireLeaves DEF ObserverType
<1>3. AgesAreBounds' /\ ReturnsAreCarried' /\ (panel'.batch = NoBatch \/ panel'.batch.capture > 0)
  BY <1>2, RestsHonestly
<1>4. producer' \in [capture : Nat, age : 0 .. MaxAge, incarnation : {0, 1}]
  BY <1>1 DEF ObserverType
<1>5. ObserverType' /\ OneObservationAtATime' /\ AskedInView'
  BY <1>2, <1>3, <1>4, RestsInOrder
<1>6. QED
  BY <1>3, <1>5 DEF ObserverInv

\* A request asks for a capture as new as the newest there is.
LEMMA RequestKeeps ==
    ASSUME ObserverInv, NEW p \in Panels, p.loading, p.enabled, ~p.stopped,
           place.loaded, place.visible, ~place.paused,
           p.batch = panel.batch, p.age = panel.age, p.jumped = panel.jumped,
           p.resume = panel.resume, p.since = panel.since,
           NewEpoch(p, place, FALSE, Request), UNCHANGED <<place, producer>>
    PROVE ObserverInv'
<1>1. ObserverType
  BY DEF ObserverInv
<1>2. /\ panel' = p /\ due' = 0 /\ reading' = Request /\ checking' = FALSE
  BY DEF NewEpoch
<1>3. ObserverType'
  BY <1>1, <1>2, RequestIsTyped DEF ObserverType
<1>4. OneObservationAtATime'
  BY <1>1, <1>2, RequestIsTyped DEF OneObservationAtATime, Panels
<1>5. AskedInView'
  BY <1>2 DEF AskedInView
<1>6. AgesAreBounds'
  BY <1>1, <1>2, RequestIsTyped DEF AgesAreBounds, ObserverInv
<1>7. ReturnsAreCarried'
  BY <1>1, <1>2, RequestIsTyped DEF ReturnsAreCarried, ObserverInv
<1>8. QED
  BY <1>3, <1>4, <1>5, <1>6, <1>7 DEF ObserverInv

\* What refreshing leaves: a request, or one more delay, or nothing.
LEMMA RefreshKeeps ==
    ASSUME ObserverInv, Refresh, UNCHANGED producer
    PROVE ObserverInv'
<1> DEFINE p == [panel EXCEPT !.loading = TRUE, !.stopped = FALSE]
<1>1. ObserverType /\ OneObservationAtATime /\ panel \in Panels
  BY DEF ObserverInv, ObserverType
<1>2. /\ p \in Panels /\ p.loading /\ ~p.stopped /\ p.enabled = panel.enabled
      /\ p.batch = panel.batch /\ p.age = panel.age /\ p.jumped = panel.jumped
      /\ p.resume = panel.resume /\ p.since = panel.since
  BY <1>1 DEF Panels
<1>3. /\ panel.enabled /\ place.loaded /\ place.visible /\ ~place.paused /\ ~panel.loading
      /\ UNCHANGED place
      /\ \/ NewEpoch(p, place, FALSE, Request)
         \/ due' \in {due, due + 1} /\ UNCHANGED <<panel, reading, checking>>
  BY DEF Refresh
<1> HIDE DEF p
<1>4. CASE NewEpoch(p, place, FALSE, Request)
  BY <1>2, <1>3, <1>4, RequestKeeps
<1>5. CASE due' \in {due, due + 1} /\ UNCHANGED <<panel, reading, checking>>
  <2>1. due \in Nat /\ due' \in Nat /\ due' >= due
    BY <1>1, <1>5 DEF ObserverType
  <2>2. ObserverType'
    BY <1>1, <1>3, <1>5, <2>1 DEF ObserverType
  <2>3. OneObservationAtATime'
    BY <1>1, <1>3, <1>5, <2>1 DEF OneObservationAtATime
  <2>4. AskedInView' /\ AgesAreBounds' /\ ReturnsAreCarried'
    BY <1>3, <1>5 DEF ObserverInv, AskedInView, AgesAreBounds, ReturnsAreCarried
  <2>5. QED
    BY <2>2, <2>3, <2>4 DEF ObserverInv
<1>6. QED
  BY <1>3, <1>4, <1>5

LEMMA DueKeeps ==
    ASSUME ObserverInv, Due, UNCHANGED producer
    PROVE ObserverInv'
<1>1. /\ ObserverType /\ OneObservationAtATime /\ AskedInView /\ AgesAreBounds
      /\ ReturnsAreCarried
  BY DEF ObserverInv
<1>2. /\ due \in Nat /\ due > 0 /\ (place.paused => due = 1)
      /\ reading = NoRead /\ ~checking /\ ~panel.loading /\ UNCHANGED place
  <2>1. due \in Nat /\ due > 0 /\ UNCHANGED place
    BY <1>1 DEF Due, ObserverType
  <2>2. ~panel.loading /\ (place.paused => due = 1)
    BY <1>1, <2>1 DEF OneObservationAtATime
  <2>3. reading = NoRead /\ ~checking
    BY <1>1, <2>2, Zenon DEF OneObservationAtATime
  <2>4. QED
    BY <2>1, <2>2, <2>3
<1>3. CASE \/ ~panel.enabled \/ ~place.visible
           \/ ~place.paused /\ (panel.stopped \/ ~place.loaded \/ place.ground = "root")
  <2>1. due' = due - 1 /\ UNCHANGED <<panel, reading, checking>>
    BY <1>2, <1>3 DEF Due
  <2>2. ObserverType'
    BY <1>1, <2>1, <1>2 DEF ObserverType
  <2>3. OneObservationAtATime'
    BY <1>1, <1>2, <1>3, <2>1 DEF OneObservationAtATime
  <2>4. AskedInView' /\ AgesAreBounds' /\ ReturnsAreCarried'
    BY <1>1, <1>2, <2>1 DEF AskedInView, AgesAreBounds, ReturnsAreCarried
  <2>5. QED
    BY <2>2, <2>3, <2>4 DEF ObserverInv
<1>4. CASE panel.enabled /\ place.visible /\ place.paused
  <2>1. due' = 0 /\ panel' = [panel EXCEPT !.loading = TRUE] /\ checking' = TRUE
          /\ UNCHANGED reading
    BY <1>2, <1>4 DEF Due
  <2>2. /\ panel' \in Panels /\ panel'.loading /\ panel'.stopped = panel.stopped
        /\ panel'.enabled = panel.enabled
        /\ panel'.batch = panel.batch /\ panel'.age = panel.age
        /\ panel'.jumped = panel.jumped
        /\ panel'.resume = panel.resume /\ panel'.since = panel.since
    BY <2>1, <1>1 DEF ObserverType, Panels
  <2>3. ObserverType'
    BY <1>1, <2>1, <2>2, <1>2 DEF ObserverType
  <2>4. OneObservationAtATime'
    <3>1. panel'.loading = TRUE
      BY <2>2 DEF Panels
    <3>2. reading' = NoRead /\ due' = 0 /\ checking' = TRUE
      BY <1>2, <2>1
    <3>3. QED
      BY <2>3, <3>1, <3>2 DEF OneObservationAtATime, ObserverType, Panels, Places
  <2>5. AskedInView' /\ AgesAreBounds' /\ ReturnsAreCarried'
    BY <1>1, <1>2, <1>4, <2>1, <2>2 DEF AskedInView, AgesAreBounds, ReturnsAreCarried
  <2>6. QED
    BY <2>3, <2>4, <2>5 DEF ObserverInv
<1>5. CASE /\ panel.enabled /\ place.visible /\ ~place.paused /\ ~panel.stopped /\ place.loaded
           /\ place.ground = "pages"
  <2> DEFINE p == [panel EXCEPT !.loading = TRUE]
  <2>1. /\ p \in Panels /\ p.loading /\ ~p.stopped /\ p.enabled
        /\ p.batch = panel.batch /\ p.age = panel.age /\ p.jumped = panel.jumped
        /\ p.resume = panel.resume /\ p.since = panel.since
    BY <1>1, <1>5 DEF Panels, ObserverType
  <2>2. NewEpoch(p, place, FALSE, Request)
    BY <1>2, <1>5 DEF Due
  <2> HIDE DEF p
  <2>3. QED
    BY <1>2, <1>5, <2>1, <2>2, RequestKeeps
<1>6. CASE /\ panel.enabled /\ place.visible /\ ~place.paused /\ ~panel.stopped /\ place.loaded
           /\ place.ground \notin {"root", "pages"}
  <2>1. UNCHANGED <<panel, due, reading, checking, place>>
    BY <1>2, <1>6 DEF Due
  <2>2. QED
    BY <1>1, <2>1 DEF ObserverInv, ObserverType, OneObservationAtATime, AskedInView,
       AgesAreBounds, ReturnsAreCarried
<1>7. QED
  BY <1>3, <1>4, <1>5, <1>6

LEMMA BrokerAnswersKeeps ==
    ASSUME ObserverInv, NEW outcome \in Outcomes, BrokerAnswers(outcome), UNCHANGED producer
    PROVE ObserverInv'
<1> DEFINE b == [capture |-> producer.capture, incarnation |-> producer.incarnation,
                 true |-> producer.age]
<1>1. /\ ObserverType /\ OneObservationAtATime /\ AskedInView /\ AgesAreBounds
      /\ ReturnsAreCarried
  BY DEF ObserverInv
<1>2. b \in Batches /\ b.capture = producer.capture /\ b.true = producer.age
  BY <1>1 DEF ObserverType, Batches
<1>3. /\ UNCHANGED <<panel, place, due, checking>> /\ reading.stage = "sent"
      /\ outcome \in {"active", "stale"} => producer.capture > 0
      /\ outcome = "active" /\ reading.after => producer.capture > reading.sent
      /\ reading' = [reading EXCEPT !.stage = "answered", !.outcome = outcome, !.after = FALSE,
                       !.sent = 0, !.upper = producer.age, !.batch = b]
  BY DEF BrokerAnswers
<1> HIDE DEF b
<1>4. producer.age \in 0 .. MaxAge /\ producer.capture \in Nat
  BY <1>1 DEF ObserverType
<1>5. /\ reading' \in Readings /\ reading'.stage = "answered" /\ reading'.outcome = outcome
      /\ reading'.upper = producer.age /\ reading'.batch = b /\ reading'.trip = reading.trip
  BY <1>1, <1>2, <1>3, <1>4 DEF ObserverType, Readings
<1>6. reading # NoRead /\ reading' # NoRead
  BY <1>3, <1>5, NothingIsTyped
<1>7. ObserverType'
  BY <1>1, <1>2, <1>3, <1>5 DEF ObserverType
<1>8. OneObservationAtATime' /\ AskedInView'
  BY <1>1, <1>3, <1>6 DEF OneObservationAtATime, AskedInView
<1>9. AgesAreBounds'
  <2>1. reading.trip \in 0 .. MaxAge
    BY <1>1 DEF ObserverType, Readings
  <2>2. Capped(producer.age + reading.trip) >= producer.age
    BY <1>4, <2>1, ObservationAssumption DEF Capped
  <2>3. QED
    BY <1>1, <1>2, <1>3, <1>5, <2>2 DEF AgesAreBounds
<1>10. ReturnsAreCarried'
  <2>1. panel.since \in Nat /\ reading.sent \in Nat
    BY <1>1 DEF ObserverType, Readings, Panels
  <2>2. outcome = "active" /\ panel.resume => b.capture > panel.since
    BY <1>1, <1>2, <1>3, <1>4, <2>1 DEF ReturnsAreCarried
  <2>3. QED
    BY <1>1, <1>3, <1>5, <2>2 DEF ReturnsAreCarried
<1>11. QED
  BY <1>7, <1>8, <1>9, <1>10 DEF ObserverInv

LEMMA StopsKeeps ==
    ASSUME ObserverInv, reading # NoRead, Stops, UNCHANGED <<place, producer>>
    PROVE ObserverInv'
<1>1. ObserverType /\ AskedInView
  BY DEF ObserverInv
<1>2. panel \in Panels /\ place \in Places
  BY <1>1 DEF ObserverType
<1>3. /\ panel' = Stopped(panel) /\ due' = 0 /\ reading' = NoRead /\ checking' = FALSE
      /\ panel'.stopped
  BY <1>2, StoppedPanel DEF Stops, NewEpoch
<1>4. ~place'.paused
  BY <1>1 DEF AskedInView
<1>5. due' = IF Schedules(panel', place') THEN 1 ELSE 0
  BY <1>3, <1>4 DEF Schedules
<1>6. /\ panel' \in Panels /\ place' \in Places /\ ~panel'.loading
      /\ panel'.batch = NoBatch /\ panel'.age = 0 /\ ~panel'.jumped
      /\ panel'.resume = panel.resume /\ panel'.since = panel.since
  BY <1>2, <1>3, StoppedPanel
<1>7. AgesAreBounds' /\ ReturnsAreCarried' /\ (panel'.batch = NoBatch \/ panel'.batch.capture > 0)
  BY <1>3, <1>6, RestsHonestly
<1>8. producer' \in [capture : Nat, age : 0 .. MaxAge, incarnation : {0, 1}]
  BY <1>1 DEF ObserverType
<1>9. ObserverType' /\ OneObservationAtATime' /\ AskedInView'
  BY <1>3, <1>5, <1>6, <1>7, <1>8, RestsInOrder
<1>10. QED
  BY <1>7, <1>9 DEF ObserverInv

\* The age an answer is shown with bounds the true one, and a capture shown already does not
\* become younger.
LEMMA AgeOfIsABound ==
    ASSUME ObserverInv, reading.stage = "answered"
    PROVE /\ AgeOf(reading) \in 0 .. MaxAge
          /\ AgeOf(reading) >= reading.batch.true
          /\ panel.batch # NoBatch /\ panel.batch.capture = reading.batch.capture =>
               AgeOf(reading) >= panel.age
<1>1. ObserverType /\ AgesAreBounds
  BY DEF ObserverInv
<1>2. reading.upper + reading.trip \in Nat
  BY <1>1, ObservationAssumption DEF ObserverType, Readings
<1>3. panel.age \in 0 .. MaxAge /\ reading.batch.true \in 0 .. MaxAge
  BY <1>1 DEF ObserverType, Panels, Readings, Batches
<1>4. QED
  BY <1>1, <1>2, <1>3, AgesStayInRange, ObservationAssumption DEF AgeOf, AgesAreBounds

\* An answer that fails, or is shown, asks again after a while.
LEMMA FailsKeeps ==
    ASSUME ObserverInv, reading # NoRead, NEW p \in Panels, Fails(p), UNCHANGED <<place, producer>>,
           p.enabled = panel.enabled, p.stopped = panel.stopped,
           p.batch = NoBatch \/ p.batch.capture > 0,
           p.batch = NoBatch => p.age = 0 /\ ~p.jumped,
           ~p.jumped => p.age >= p.batch.true,
           \/ p.resume = panel.resume /\ p.since = panel.since
           \/ ~p.resume /\ p.since = 0
    PROVE ObserverInv'
<1>1. ObserverType /\ OneObservationAtATime /\ AskedInView /\ ReturnsAreCarried
  BY DEF ObserverInv
<1>2. /\ panel' \in Panels /\ ~panel'.loading /\ reading' = NoRead
      /\ panel'.batch = p.batch /\ panel'.age = p.age /\ panel'.jumped = p.jumped
      /\ panel'.enabled = p.enabled /\ panel'.stopped = p.stopped
      /\ panel'.resume = p.resume /\ panel'.since = p.since
      /\ due' = (IF Schedules(p, place) THEN due + 1 ELSE due)
      /\ checking' = checking
  BY FailsLeaves
<1>3. Schedules(p, place)
  BY <1>1 DEF Schedules, AskedInView
<1>4. checking = FALSE /\ due = 0
  BY <1>1 DEF OneObservationAtATime, ObserverType
<1>5. Schedules(panel', place')
  BY <1>2, <1>3 DEF Schedules
<1>6. due' = IF Schedules(panel', place') THEN 1 ELSE 0
  BY <1>2, <1>3, <1>4, <1>5
<1>7. place' \in Places /\ checking' = FALSE
        /\ producer' \in [capture : Nat, age : 0 .. MaxAge, incarnation : {0, 1}]
  BY <1>1, <1>2, <1>4 DEF ObserverType
<1>8. ObserverType' /\ OneObservationAtATime' /\ AskedInView'
  BY <1>2, <1>6, <1>7, RestsInOrder
<1>9. AgesAreBounds'
  BY <1>2, NothingIsTyped DEF AgesAreBounds
<1>10. ReturnsAreCarried'
  BY <1>1, <1>2, NothingIsTyped DEF ReturnsAreCarried, ObserverType
<1>11. QED
  BY <1>8, <1>9, <1>10 DEF ObserverInv

LEMMA LoadedKeeps ==
    ASSUME ObserverInv, Loaded, UNCHANGED producer
    PROVE ObserverInv'
<1>1. ObserverType /\ AgesAreBounds
  BY DEF ObserverInv
<1>2. reading.stage = "answered" /\ ObservationLoaded(reading) /\ UNCHANGED place
  BY DEF Loaded
<1>3. reading # NoRead
  BY <1>2, NothingIsTyped
<1>4. CASE Fails(panel)
  <2>1. panel \in Panels
    BY <1>1 DEF ObserverType
  <2>2. (panel.batch = NoBatch \/ panel.batch.capture > 0)
          /\ (panel.batch = NoBatch => panel.age = 0 /\ ~panel.jumped)
          /\ (~panel.jumped => panel.age >= panel.batch.true)
    BY <1>1 DEF ObserverType, AgesAreBounds
  <2>3. QED
    BY <1>2, <1>3, <1>4, <2>1, <2>2, FailsKeeps
<1>5. CASE Stops
  BY <1>2, <1>3, <1>5, StopsKeeps
<1>6. CASE Expire(panel, place)
  BY <1>2, <1>6, ExpireKeeps
<1>7. CASE reading.outcome \in {"active", "stale"} /\ Fails(Adopt(reading))
  <2> DEFINE p == Adopt(reading)
  <2>1. /\ p \in Panels /\ p.enabled = panel.enabled /\ p.stopped = panel.stopped
        /\ ~p.resume /\ p.since = 0 /\ p.batch = reading.batch /\ p.age = AgeOf(reading)
    BY <1>1, AdoptLeaves
  <2>2. p.batch.capture > 0
    BY <1>1, <1>2, <1>7, <2>1 DEF ObserverType
  <2>3. p.age >= p.batch.true /\ p.batch # NoBatch
    BY <1>2, <2>1, <2>2, AgeOfIsABound, NothingIsTyped
  <2>4. Fails(p)
    BY <1>7
  <2> HIDE DEF p
  <2>5. QED
    BY <1>2, <1>3, <2>1, <2>2, <2>3, <2>4, FailsKeeps
<1>8. QED
  BY <1>1, <1>2, <1>4, <1>5, <1>6, <1>7, LoadedLeaves

LEMMA MetadataKeeps ==
    ASSUME ObserverInv, NEW outcome, Metadata(outcome), UNCHANGED producer
    PROVE ObserverInv'
<1> DEFINE p == [panel EXCEPT !.loading = FALSE]
           q == IF outcome = "expired" THEN [p EXCEPT !.batch = NoBatch, !.age = 0, !.jumped = FALSE]
                ELSE p
<1>1. ObserverType /\ OneObservationAtATime /\ AskedInView /\ AgesAreBounds
  BY DEF ObserverInv
<1>2. panel \in Panels /\ place \in Places /\ checking /\ UNCHANGED place
        /\ producer' \in [capture : Nat, age : 0 .. MaxAge, incarnation : {0, 1}]
  BY <1>1 DEF ObserverType, Metadata
<1>3. /\ p \in Panels /\ ~p.loading /\ p.enabled = panel.enabled /\ p.stopped = panel.stopped
      /\ p.batch = panel.batch /\ p.age = panel.age /\ p.jumped = panel.jumped
      /\ p.resume = panel.resume /\ p.since = panel.since
  BY <1>2 DEF Panels
<1>4. \/ NewEpoch(Stopped(p), place, TRUE, NoRead)
      \/ /\ panel' = q /\ due' = (IF Schedules(p, place) THEN due + 1 ELSE due)
         /\ checking' = FALSE /\ UNCHANGED reading
  BY DEF Metadata
<1> HIDE DEF p
<1>5. CASE NewEpoch(Stopped(p), place, TRUE, NoRead)
  <2>1. /\ panel' \in Panels /\ reading' = NoRead /\ checking' = FALSE /\ ~panel'.loading
        /\ panel'.batch = NoBatch /\ panel'.age = 0 /\ ~panel'.jumped
        /\ panel'.resume = panel.resume /\ panel'.since = panel.since
        /\ due' = IF Schedules(panel', place') THEN 1 ELSE 0
    BY <1>2, <1>3, <1>5, StoppedPanel DEF NewEpoch
  <2>2. AgesAreBounds' /\ ReturnsAreCarried'
          /\ (panel'.batch = NoBatch \/ panel'.batch.capture > 0)
    BY <2>1, RestsHonestly
  <2>3. ObserverType' /\ OneObservationAtATime' /\ AskedInView'
    BY <1>2, <2>1, <2>2, RestsInOrder
  <2>4. QED
    BY <2>2, <2>3 DEF ObserverInv
<1>6. CASE /\ panel' = q /\ due' = (IF Schedules(p, place) THEN due + 1 ELSE due)
           /\ checking' = FALSE /\ UNCHANGED reading
  <2>1. /\ q \in Panels /\ ~q.loading /\ q.enabled = p.enabled /\ q.stopped = p.stopped
        /\ \/ q.batch = NoBatch /\ q.age = 0 /\ ~q.jumped
           \/ q.batch = p.batch /\ q.age = p.age /\ q.jumped = p.jumped
        /\ q.resume = p.resume /\ q.since = p.since
    BY <1>3, NothingIsTyped, ObservationAssumption DEF Panels
  <2> HIDE DEF q
  <2>2. reading = NoRead /\ due = 0
    BY <1>1, <1>2 DEF OneObservationAtATime, ObserverType
  <2>3. Schedules(p, place) /\ Schedules(panel', place')
    BY <1>1, <1>2, <1>3, <1>6, <2>1 DEF Schedules, AskedInView
  <2>4. /\ panel' \in Panels /\ reading' = NoRead /\ checking' = FALSE /\ ~panel'.loading
        /\ due' = IF Schedules(panel', place') THEN 1 ELSE 0
    BY <1>6, <2>1, <2>2, <2>3
  <2>5. /\ \/ panel'.batch = NoBatch /\ panel'.age = 0 /\ ~panel'.jumped
           \/ panel'.batch = panel.batch /\ panel'.age = panel.age /\ panel'.jumped = panel.jumped
        /\ panel'.resume = panel.resume /\ panel'.since = panel.since
    BY <1>3, <1>6, <2>1
  <2>6. AgesAreBounds' /\ ReturnsAreCarried'
          /\ (panel'.batch = NoBatch \/ panel'.batch.capture > 0)
    BY <2>4, <2>5, RestsHonestly
  <2>7. ObserverType' /\ OneObservationAtATime' /\ AskedInView'
    BY <1>2, <2>4, <2>6, RestsInOrder
  <2>8. QED
    BY <2>6, <2>7 DEF ObserverInv
<1>7. QED
  BY <1>4, <1>5, <1>6

LEMMA TimeKeeps ==
    ASSUME ObserverInv, NEW jump \in BOOLEAN, TimePasses(jump)
    PROVE ObserverInv'
<1>1. /\ ObserverType /\ OneObservationAtATime /\ AskedInView /\ AgesAreBounds
      /\ ReturnsAreCarried
  BY DEF ObserverInv
<1>2. UNCHANGED <<place, due, checking>>
  BY DEF TimePasses
<1>3. /\ panel' \in Panels /\ reading' \in Readings
      /\ producer' \in [capture : Nat, age : 0 .. MaxAge, incarnation : {0, 1}]
      /\ producer'.capture = producer.capture
      /\ panel'.batch.capture = panel.batch.capture
      /\ panel.batch = NoBatch => panel'.batch = NoBatch /\ panel'.age = panel.age
                                    /\ panel'.jumped = panel.jumped
      /\ panel.batch # NoBatch => /\ panel'.age = Older(panel.age)
                                  /\ panel'.batch.true = Older(panel.batch.true)
                                  /\ panel.jumped => panel'.jumped
      /\ panel'.loading = panel.loading /\ panel'.enabled = panel.enabled
      /\ panel'.stopped = panel.stopped
      /\ panel'.resume = panel.resume /\ panel'.since = panel.since
  BY <1>1, TimeLeaves
<1>4. /\ (reading' = NoRead) = (reading = NoRead)
      /\ reading'.stage = reading.stage /\ reading'.outcome = reading.outcome
      /\ reading'.after = reading.after /\ reading'.sent = reading.sent
      /\ reading'.batch.capture = reading.batch.capture
      /\ reading'.upper = reading.upper
      /\ reading # NoRead => reading'.trip = Older(reading.trip)
      /\ reading'.batch.true \in {reading.batch.true, Older(reading.batch.true)}
  BY <1>1, TimeLeaves
<1>5. ObserverType'
  BY <1>1, <1>2, <1>3, <1>4 DEF ObserverType
<1>6. OneObservationAtATime' /\ AskedInView'
  BY <1>1, <1>2, <1>3, <1>4 DEF OneObservationAtATime, AskedInView
<1>7. AgesAreBounds'
  <2>1. panel.age \in 0 .. MaxAge /\ panel.batch.true \in 0 .. MaxAge
    BY <1>1 DEF ObserverType, Panels, Batches
  <2>2. /\ reading.trip \in 0 .. MaxAge /\ reading.upper \in 0 .. MaxAge
        /\ reading.batch.true \in 0 .. MaxAge
    BY <1>1 DEF ObserverType, Readings, Batches
  <2>3. ~panel'.jumped => panel'.age >= panel'.batch.true
    <3>1. CASE panel.batch = NoBatch
      BY <1>1, <1>3, <3>1, NothingIsTyped DEF AgesAreBounds
    <3>2. CASE panel.batch # NoBatch
      BY <1>1, <1>3, <2>1, <3>2, ObservationAssumption DEF AgesAreBounds, Older
    <3>3. QED
      BY <3>1, <3>2
  <2>4. reading'.stage = "answered" =>
          Capped(reading'.upper + reading'.trip) >= reading'.batch.true
    <3>1. SUFFICES ASSUME reading'.stage = "answered"
                   PROVE Capped(reading'.upper + reading'.trip) >= reading'.batch.true
      OBVIOUS
    <3>2. reading # NoRead /\ reading.stage = "answered"
      BY <1>4, <3>1, NothingIsTyped
    <3>3. Capped(reading.upper + reading.trip) >= reading.batch.true
      BY <1>1, <3>2 DEF AgesAreBounds
    <3>4. reading'.upper = reading.upper /\ reading'.trip = Older(reading.trip)
            /\ reading'.batch.true \in {reading.batch.true, Older(reading.batch.true)}
      BY <1>4, <3>2
    <3>5. QED
      BY <2>2, <3>3, <3>4, ObservationAssumption DEF Capped, Older
  <2>5. panel'.batch = NoBatch => panel'.age = 0 /\ ~panel'.jumped
    <3>1. panel'.batch = NoBatch => panel.batch = NoBatch
      BY <1>1, <1>3, NothingIsTyped DEF ObserverType
    <3>2. QED
      BY <1>1, <1>3, <3>1 DEF AgesAreBounds
  <2>6. QED
    BY <2>3, <2>4, <2>5 DEF AgesAreBounds
<1>8. ReturnsAreCarried'
  BY <1>1, <1>3, <1>4 DEF ReturnsAreCarried
<1>9. QED
  BY <1>5, <1>6, <1>7, <1>8 DEF ObserverInv

LEMMA CaptureKeeps ==
    ASSUME ObserverInv, NEW restarted \in BOOLEAN, Capture(restarted)
    PROVE ObserverInv'
<1>1. /\ ObserverType /\ OneObservationAtATime /\ AskedInView /\ AgesAreBounds
      /\ ReturnsAreCarried
  BY DEF ObserverInv
<1>2. /\ UNCHANGED <<panel, place, due, reading, checking>>
      /\ producer'.capture = producer.capture + 1
      /\ producer' \in [capture : Nat, age : 0 .. MaxAge, incarnation : {0, 1}]
  BY <1>1, ObservationAssumption DEF Capture, ObserverType
<1>3. ObserverType'
  BY <1>1, <1>2 DEF ObserverType
<1>4. OneObservationAtATime' /\ AskedInView' /\ AgesAreBounds'
  BY <1>1, <1>2 DEF OneObservationAtATime, AskedInView, AgesAreBounds
<1>5. ReturnsAreCarried'
  BY <1>1, <1>2 DEF ReturnsAreCarried, ObserverType, Panels
<1>6. QED
  BY <1>3, <1>4, <1>5 DEF ObserverInv

\* The changes of place that invalidate what was asked for.
LEMMA PlaceKeeps ==
    ASSUME ObserverInv, UNCHANGED producer,
           \/ \E ground \in Grounds : Depart(ground) \/ FirstLoad(ground)
           \/ Reload \/ Visibility \/ SectorLoaded(TRUE)
           \/ \E ground \in Grounds, elsewhere \in BOOLEAN : PauseOrResume(ground, elsewhere)
    PROVE \E at \in Places, elsewhere \in BOOLEAN : Invalidate(at, elsewhere)
<1>1. place \in Places
  BY DEF ObserverInv, ObserverType
<1>2. ASSUME NEW ground \in Grounds, Depart(ground) \/ FirstLoad(ground)
      PROVE \E at \in Places, elsewhere \in BOOLEAN : Invalidate(at, elsewhere)
  <2> DEFINE gone == [place EXCEPT !.ground = ground]
             first == [place EXCEPT !.loaded = TRUE, !.ground = ground]
  <2>1. gone \in Places /\ first \in Places
    BY <1>1 DEF Places
  <2>2. Invalidate(gone, TRUE) \/ Invalidate(first, FALSE)
    BY <1>2 DEF Depart, FirstLoad
  <2> HIDE DEF gone, first
  <2>3. QED
    BY <2>1, <2>2
<1>3. ASSUME Reload
      PROVE \E at \in Places, elsewhere \in BOOLEAN : Invalidate(at, elsewhere)
  BY <1>1, <1>3 DEF Reload
<1>4. ASSUME SectorLoaded(TRUE)
      PROVE \E at \in Places, elsewhere \in BOOLEAN : Invalidate(at, elsewhere)
  <2>1. [place EXCEPT !.ground = "pages"] \in Places
    BY <1>1 DEF Places, Grounds
  <2>2. QED
    BY <1>4, <2>1 DEF SectorLoaded
<1>5. ASSUME Visibility
      PROVE \E at \in Places, elsewhere \in BOOLEAN : Invalidate(at, elsewhere)
  <2>1. [place EXCEPT !.visible = ~@] \in Places
    BY <1>1 DEF Places
  <2>2. QED
    BY <1>5, <2>1 DEF Visibility
<1>6. ASSUME NEW ground \in Grounds, NEW elsewhere \in BOOLEAN, PauseOrResume(ground, elsewhere)
      PROVE \E at \in Places, anew \in BOOLEAN : Invalidate(at, anew)
  <2> DEFINE at == [place EXCEPT !.paused = ~@, !.ground = ground]
  <2>1. at \in Places
    BY <1>1 DEF Places
  <2>2. Invalidate(at, elsewhere)
    BY <1>6 DEF PauseOrResume
  <2> HIDE DEF at
  <2>3. QED
    BY <2>1, <2>2
<1>7. QED
  BY <1>2, <1>3, <1>4, <1>5, <1>6

\* A sector that arrives within the epoch changes what there is to ask for, and nothing else.
LEMMA SectorKeeps ==
    ASSUME ObserverInv, SectorLoaded(FALSE), UNCHANGED producer
    PROVE ObserverInv' /\ UNCHANGED panel
<1>1. /\ UNCHANGED <<panel, due, reading, checking>> /\ place' = [place EXCEPT !.ground = "pages"]
      /\ place.ground = "nothing"
  BY DEF SectorLoaded
<1>2. /\ place' \in Places /\ place'.loaded = place.loaded /\ place'.visible = place.visible
      /\ place'.paused = place.paused /\ place'.ground = "pages"
  BY <1>1 DEF ObserverInv, ObserverType, Places, Grounds
<1>3. ObserverType'
  BY <1>1, <1>2 DEF ObserverInv, ObserverType
<1>4. OneObservationAtATime'
  BY <1>1, <1>2 DEF ObserverInv, OneObservationAtATime
<1>5. AskedInView' /\ AgesAreBounds' /\ ReturnsAreCarried'
  BY <1>1, <1>2 DEF ObserverInv, AskedInView, AgesAreBounds, ReturnsAreCarried
<1>6. QED
  BY <1>1, <1>3, <1>4, <1>5 DEF ObserverInv

LEMMA ObserverInitially == ObserverInit => ObserverInv
<1> SUFFICES ASSUME ObserverInit PROVE ObserverInv
  OBVIOUS
<1>1. /\ panel = Disabled /\ reading = NoRead /\ checking = FALSE /\ due = 0
      /\ place \in Places /\ producer \in [capture : Nat, age : 0 .. MaxAge, incarnation : {0, 1}]
  BY ObservationAssumption DEF ObserverInit, Places
<1>2. ObserverType
  BY <1>1, NothingIsTyped DEF ObserverType
<1>3. OneObservationAtATime
  BY <1>1, NothingIsTyped DEF OneObservationAtATime, Places, Panels
<1>4. AskedInView
  BY <1>1 DEF AskedInView
<1>5. AgesAreBounds /\ ReturnsAreCarried
  BY <1>1, NothingIsTyped DEF AgesAreBounds, ReturnsAreCarried, ObserverInit
<1>6. QED
  BY <1>2, <1>3, <1>4, <1>5 DEF ObserverInv

LEMMA ObserverStep == ObserverInv /\ [ObserverNext]_observerVars => ObserverInv'
<1> SUFFICES ASSUME ObserverInv, [ObserverNext]_observerVars PROVE ObserverInv'
  OBVIOUS
<1>1. ASSUME NEW ground \in Grounds, Viewport(ground), UNCHANGED producer PROVE ObserverInv'
  BY <1>1, ViewportKeeps
<1>2. ASSUME UNCHANGED producer,
             \/ \E ground \in Grounds : Depart(ground) \/ FirstLoad(ground)
             \/ Reload \/ Visibility \/ SectorLoaded(TRUE)
             \/ \E ground \in Grounds, elsewhere \in BOOLEAN : PauseOrResume(ground, elsewhere)
      PROVE ObserverInv'
  BY <1>2, PlaceKeeps, InvalidateKeeps
<1>3. ASSUME ToggleObservation \/ SectorLoaded(FALSE), UNCHANGED producer PROVE ObserverInv'
  <2>1. CASE ToggleObservation
    BY <1>3, <2>1, ToggleKeeps
  <2>2. CASE SectorLoaded(FALSE)
    BY <1>3, <2>2, SectorKeeps
  <2>3. QED
    BY <1>3, <2>1, <2>2
<1>4. ASSUME Refresh, UNCHANGED producer PROVE ObserverInv'
  BY <1>4, RefreshKeeps
<1>5. ASSUME Due, UNCHANGED producer PROVE ObserverInv'
  BY <1>5, DueKeeps
<1>6. ASSUME NEW outcome \in Outcomes, BrokerAnswers(outcome), UNCHANGED producer
      PROVE ObserverInv'
  BY <1>6, BrokerAnswersKeeps
<1>7. ASSUME Loaded, UNCHANGED producer PROVE ObserverInv'
  BY <1>7, LoadedKeeps
<1>8. ASSUME NEW outcome \in {"available", "refused", "expired", "error"}, Metadata(outcome),
             UNCHANGED producer
      PROVE ObserverInv'
  BY <1>8, MetadataKeeps
<1>9. ASSUME Tick, UNCHANGED producer PROVE ObserverInv'
  BY <1>9, ExpireKeeps DEF Tick
<1>10. ASSUME NEW jump \in BOOLEAN, TimePasses(jump) PROVE ObserverInv'
  BY <1>10, TimeKeeps
<1>11. ASSUME NEW restarted \in BOOLEAN, Capture(restarted) PROVE ObserverInv'
  BY <1>11, CaptureKeeps
<1>12. CASE UNCHANGED observerVars
  BY <1>12 DEF observerVars, ObserverInv, ObserverType, OneObservationAtATime, AskedInView,
     AgesAreBounds, ReturnsAreCarried
<1>13. QED
  BY <1>1, <1>2, <1>3, <1>4, <1>5, <1>6, <1>7, <1>8, <1>9, <1>10, <1>11, <1>12 DEF ObserverNext

\* The panel is well formed, one thing of it is under way, and its bounds on age and its
\* demand for a later capture hold (observations.ts).
THEOREM ObserverIsSound == ObserverSpec => []ObserverInv
BY ObserverInitially, ObserverStep, PTL DEF ObserverSpec

\* What is loading is one request or one capability reading, with no delay of its epoch, and
\* an enabled panel in view does not fall silent, however many delays refreshing with nothing
\* to ask for has left running (scheduleObservation, observation-due, refresh-observation).
THEOREM ObservesOneAtATime == ObserverSpec => []OneObservationAtATime
<1>1. ObserverInv => OneObservationAtATime
  BY DEF ObserverInv
<1>2. QED
  BY <1>1, ObserverIsSound, PTL

\* What a step may do to what is shown: put it away, leave it as it is, let it age, or
\* show an answer.
LEMMA ShownChanges ==
    ASSUME ObserverInv, [ObserverNext]_observerVars
    PROVE \/ panel'.batch = NoBatch
          \/ panel'.batch = panel.batch /\ panel'.age = panel.age /\ panel'.jumped = panel.jumped
          \/ \E jump \in BOOLEAN : TimePasses(jump)
          \/ /\ reading.stage = "answered" /\ reading.outcome \in {"active", "stale"}
             /\ reading.outcome = "stale" => panel.batch = NoBatch /\ ~panel.resume
             /\ panel'.batch = reading.batch /\ panel'.age = AgeOf(reading)
<1> DEFINE Same == panel'.batch = panel.batch /\ panel'.age = panel.age
                     /\ panel'.jumped = panel.jumped
<1>1. ObserverType /\ panel \in Panels
  BY DEF ObserverInv, ObserverType
<1>2. ASSUME NEW ground \in Grounds, Viewport(ground) PROVE panel'.batch = NoBatch
  BY <1>1, <1>2 DEF Viewport, NewEpoch, Panels
<1>3. ASSUME UNCHANGED producer,
             \/ \E ground \in Grounds : Depart(ground) \/ FirstLoad(ground)
             \/ Reload \/ Visibility \/ SectorLoaded(TRUE)
             \/ \E ground \in Grounds, elsewhere \in BOOLEAN : PauseOrResume(ground, elsewhere)
      PROVE panel'.batch = NoBatch \/ Same
  <2>1. PICK at \in Places, elsewhere \in BOOLEAN : Invalidate(at, elsewhere)
    BY <1>3, PlaceKeeps
  <2>2. QED
    BY <1>1, <2>1, InvalidateLeaves
<1>4. ASSUME ToggleObservation PROVE panel'.batch = NoBatch
  BY <1>4, NothingIsTyped DEF ToggleObservation, NewEpoch, Panels
<1>5. ASSUME Refresh \/ Due \/ SectorLoaded(FALSE) PROVE Same
  BY <1>1, <1>5 DEF Refresh, Due, SectorLoaded, NewEpoch, Panels
<1>6. ASSUME NEW outcome \in Outcomes, BrokerAnswers(outcome) PROVE Same
  BY <1>6 DEF BrokerAnswers
<1>7. ASSUME Loaded
      PROVE \/ panel'.batch = NoBatch
            \/ Same
            \/ /\ reading.stage = "answered" /\ reading.outcome \in {"active", "stale"}
               /\ reading.outcome = "stale" => panel.batch = NoBatch /\ ~panel.resume
               /\ panel'.batch = reading.batch /\ panel'.age = AgeOf(reading)
  <2>1. reading.stage = "answered" /\ ObservationLoaded(reading)
    BY <1>7 DEF Loaded
  <2>2. CASE Fails(panel)
    BY <1>1, <2>2, FailsLeaves
  <2>3. CASE Stops
    BY <1>1, <2>3, StoppedPanel DEF Stops, NewEpoch
  <2>4. CASE Expire(panel, place)
    BY <1>1, <2>4, ExpireLeaves
  <2>5. CASE Fails(Adopt(reading))
    <3>1. panel'.batch = Adopt(reading).batch /\ panel'.age = Adopt(reading).age
      BY <1>1, <2>5, AdoptLeaves, FailsLeaves
    <3>2. panel'.batch = reading.batch /\ panel'.age = AgeOf(reading)
      BY <1>1, <3>1, AdoptLeaves
    <3>3. (\/ Stops \/ Expire(panel, place) \/ Fails(panel)
           \/ /\ reading.outcome \in {"active", "stale"}
              /\ reading.outcome = "stale" => panel.batch = NoBatch /\ ~panel.resume)
      BY <1>1, <2>1, LoadedLeaves
    <3>4. QED
      BY <2>1, <2>2, <2>3, <2>4, <3>2, <3>3
  <2>6. QED
    BY <1>1, <2>1, <2>2, <2>3, <2>4, <2>5, LoadedLeaves
<1>8. ASSUME NEW outcome, Metadata(outcome) PROVE panel'.batch = NoBatch \/ Same
  <2> DEFINE p == [panel EXCEPT !.loading = FALSE]
  <2>1. p \in Panels /\ p.batch = panel.batch /\ p.age = panel.age /\ p.jumped = panel.jumped
    BY <1>1 DEF Panels
  <2>2. \/ panel' = Stopped(p) \/ panel' = p
        \/ panel' = [p EXCEPT !.batch = NoBatch, !.age = 0, !.jumped = FALSE]
    BY <1>8 DEF Metadata, NewEpoch
  <2> HIDE DEF p
  <2>3. [p EXCEPT !.batch = NoBatch, !.age = 0, !.jumped = FALSE].batch = NoBatch
    BY <2>1 DEF Panels
  <2>4. QED
    BY <2>1, <2>2, <2>3, StoppedPanel
<1>9. ASSUME Tick PROVE panel'.batch = NoBatch
  BY <1>1, <1>9, ExpireLeaves DEF Tick
<1>10. ASSUME NEW restarted \in BOOLEAN, Capture(restarted) PROVE Same
  BY <1>10 DEF Capture
<1>11. CASE UNCHANGED observerVars
  BY <1>11 DEF observerVars
<1>12. QED
  BY <1>2, <1>3, <1>4, <1>5, <1>6, <1>7, <1>8, <1>9, <1>10, <1>11 DEF ObserverNext

\* Evidence is never shown younger than it is, nor does the age of one capture run back
\* (observation-loaded, observationAgeAt).
THEOREM AgeIsHonest == ObserverSpec => EvidenceIsAgedHonestly
<1>1. ASSUME ObserverInv, ObserverInv', [ObserverNext]_observerVars
      PROVE panel'.batch # NoBatch /\ ~panel'.jumped =>
              /\ panel'.age >= panel'.batch.true
              /\ panel.batch.capture = panel'.batch.capture => panel'.age >= panel.age
  <2>1. SUFFICES ASSUME panel'.batch # NoBatch, ~panel'.jumped,
                        panel.batch.capture = panel'.batch.capture
                 PROVE panel'.age >= panel.age
    BY <1>1 DEF ObserverInv, AgesAreBounds
  <2>2. panel.age \in 0 .. MaxAge /\ ObserverType /\ AgesAreBounds
    BY <1>1 DEF ObserverInv, ObserverType, Panels
  <2>3. CASE panel'.age = panel.age
    BY <2>2, <2>3, ObservationAssumption
  <2>4. ASSUME NEW jump \in BOOLEAN, TimePasses(jump) PROVE panel'.age >= panel.age
    BY <2>2, <2>4, <2>1, TimeLeaves, AgesStayInRange, ObservationAssumption
  <2>5. ASSUME reading.stage = "answered", reading.outcome \in {"active", "stale"},
               panel'.batch = reading.batch, panel'.age = AgeOf(reading)
        PROVE panel'.age >= panel.age
    <3>1. panel.batch # NoBatch
      BY <2>1, <2>2, <2>5, NothingIsTyped DEF ObserverType
    <3>2. QED
      BY <1>1, <2>1, <2>5, <3>1, AgeOfIsABound
  <2>6. QED
    BY <1>1, <2>1, <2>3, <2>4, <2>5, ShownChanges
<1>2. QED
  BY <1>1, ObserverIsSound, PTL DEF EvidenceIsAgedHonestly, ObserverSpec

\* What is shown next after a return (resumed, back in view, expired) was captured after it.
THEOREM ReturnsAreToNewEvidence == ObserverSpec => ReturnsToNewEvidence
<1>1. ASSUME ObserverInv, [ObserverNext]_observerVars
      PROVE panel'.batch.capture \notin {0, panel.batch.capture} =>
              panel'.batch.capture > panel.since
  <2>1. SUFFICES ASSUME panel'.batch.capture \notin {0, panel.batch.capture}
                 PROVE panel'.batch.capture > panel.since
    OBVIOUS
  <2>2. ObserverType /\ ReturnsAreCarried
    BY <1>1 DEF ObserverInv
  <2>3. panel'.batch # NoBatch /\ panel'.batch # panel.batch
    BY <2>1, NothingIsTyped
  <2>4. ASSUME NEW jump \in BOOLEAN, TimePasses(jump) PROVE FALSE
    BY <2>1, <2>2, <2>4, TimeLeaves
  <2>5. /\ reading.stage = "answered" /\ reading.outcome \in {"active", "stale"}
        /\ reading.outcome = "stale" => panel.batch = NoBatch /\ ~panel.resume
        /\ panel'.batch = reading.batch
    BY <1>1, <2>3, <2>4, ShownChanges
  <2>6. reading.batch.capture > 0 /\ reading.batch.capture \in Nat /\ panel.since \in Nat
    BY <2>2, <2>5 DEF ObserverType, Readings, Batches, Panels
  <2>7. QED
    BY <2>2, <2>5, <2>6 DEF ReturnsAreCarried
<1>2. QED
  BY <1>1, ObserverIsSound, PTL DEF ReturnsToNewEvidence, ObserverSpec

-----------------------------------------------------------------------------
(* Routes, polls and listings. *)

Histories == {"restore", "push", "replace", "none"}
Effects ==
    [kind : {"route"}, scope : Nat, route : Routes, auto : BOOLEAN]
      \cup [kind : {"collection"}, scope : Nat, cursor : Nat \ {0}]
      \cup [kind : {"enrichment"}, scope : Nat, route : Routes, history : Histories,
            fallback : Routes \cup {Nowhere}]
      \cup [kind : {"watch"}, known : Nat \ {0}]
      \cup [kind : {"delay"}, known : Nat \ {0}]
      \cup [kind : {"history"}, route : Routes]

Follows == [enabled : BOOLEAN, paused : BOOLEAN, watched : Nat, pending : Nat]
Views == [route : Routes \cup {Nowhere}, generation : Nat, more : BOOLEAN]
UiStates ==
    [route : Routes, scope : Nat, history : Histories, auto : BOOLEAN, error : BOOLEAN,
     kept : BOOLEAN, snapshot : Nat, view : Views, cursor : Nat, follow : Follows]

BrowserType ==
    /\ server \in [generation : Nat \ {0}, following : BOOLEAN]
    /\ ui \in UiStates
    /\ queue \in Seq(Effects)
    /\ flying \in [Groups -> [effect : Effects \cup {NoEffect}, since : Nat]]
    /\ \A g \in Groups : InFlight(g) =>
         /\ flying[g].effect \in Effects /\ flying[g].effect.kind = g
         /\ flying[g].since \in Nat \ {0}
    /\ timers \subseteq Nat \ {0}
    /\ url \in Routes

\* A poll is queued, or under way, or neither, as the viewer knows; and it is its poll.
OnePoll ==
    /\ ui.follow.pending = 0 => QueuedOf("watch") = {} /\ ~InFlight("watch")
    /\ ui.follow.pending # 0 =>
         \/ QueuedOf("watch") = {} /\ InFlight("watch")
         \/ (\E i \in DOMAIN queue : QueuedOf("watch") = {i}) /\ ~InFlight("watch")
    /\ \A i \in QueuedOf("watch") : queue[i].known = ui.follow.pending
    /\ InFlight("watch") => flying["watch"].effect.known = ui.follow.pending

Loads == {"route", "enrichment"}

\* Loads are asked for in the order of their scopes, so the last one of a kind, which is all
\* that is started of it, is the newest.
ScopesInOrder ==
    \A kind \in Loads :
      /\ \A i \in QueuedOf(kind) :
           /\ queue[i].scope <= ui.scope
           /\ \A j \in QueuedOf(kind) : i < j => queue[i].scope <= queue[j].scope
           /\ InFlight(kind) => flying[kind].effect.scope <= queue[i].scope
      /\ InFlight(kind) => flying[kind].effect.scope <= ui.scope

\* A listing is continued from the generation that is shown.
ListingIsOfTheView ==
    /\ ui.cursor \in {0, ui.view.generation}
    /\ ui.view.route # Nowhere => ui.view.generation # 0

BrowserInv ==
    BrowserType /\ OnePoll /\ ScopesInOrder /\ ListingIsOfTheView /\ ViewIsOfItsRoute

LEMMA EffectsAreTyped ==
    ASSUME NEW scope \in Nat, NEW route \in Routes, NEW auto \in BOOLEAN,
           NEW history \in Histories, NEW fallback \in Routes \cup {Nowhere},
           NEW known \in Nat \ {0}
    PROVE /\ ReadRoute(scope, route, auto) \in Effects
          /\ ReadRoute(scope, route, auto).kind = "route"
          /\ ReadRoute(scope, route, auto).scope = scope
          /\ Enrich(scope, route, history, fallback) \in Effects
          /\ Enrich(scope, route, history, fallback).kind = "enrichment"
          /\ Enrich(scope, route, history, fallback).scope = scope
          /\ ReadBatch(scope, known) \in Effects /\ ReadBatch(scope, known).kind = "collection"
          /\ Watch(known) \in Effects /\ Watch(known).kind = "watch" /\ Watch(known).known = known
          /\ DelayWatch(known) \in Effects /\ DelayWatch(known).kind = "delay"
          /\ WriteHistory(route) \in Effects /\ WriteHistory(route).kind = "history"
BY DEF ReadRoute, Enrich, ReadBatch, Watch, DelayWatch, WriteHistory, Effects

\* The fields an effect has by its kind.
LEMMA FieldsOfEffects ==
    ASSUME NEW e \in Effects
    PROVE /\ e.kind = "route" => e.scope \in Nat /\ e.route \in Routes /\ e.auto \in BOOLEAN
          /\ e.kind = "collection" => e.scope \in Nat /\ e.cursor \in Nat \ {0}
          /\ e.kind = "enrichment" => /\ e.scope \in Nat /\ e.route \in Routes
                                      /\ e.history \in Histories
                                      /\ e.fallback \in Routes \cup {Nowhere}
          /\ e.kind \in {"watch", "delay"} => e.known \in Nat \ {0}
          /\ e.kind = "history" => e.route \in Routes
BY DEF Effects

LEMMA NothingFliesIs ==
    ASSUME BrowserType, NEW g \in Groups, Ends(g)
    PROVE /\ flying' \in [Groups -> [effect : Effects \cup {NoEffect}, since : Nat]]
          /\ ~InFlight(g)'
          /\ \A h \in Groups \ {g} : flying'[h] = flying[h] /\ (InFlight(h)' = InFlight(h))
<1>1. NothingFlies \in [effect : Effects \cup {NoEffect}, since : Nat]
  BY DEF NothingFlies
<1>2. QED
  BY <1>1 DEF Ends, BrowserType, InFlight

\* What a step queues comes after what was queued.
LEMMA StepAppends ==
    ASSUME BrowserType, NEW next, NEW effects \in Seq(Effects), Step(next, effects)
    PROVE /\ ui' = next /\ queue' \in Seq(Effects)
          /\ Len(queue') = Len(queue) + Len(effects)
          /\ \A i \in DOMAIN queue : i \in DOMAIN queue' /\ queue'[i] = queue[i]
          /\ \A i \in DOMAIN queue' : \/ i \in DOMAIN queue /\ queue'[i] = queue[i]
                                      \/ \E j \in DOMAIN effects :
                                           i = Len(queue) + j /\ queue'[i] = effects[j]
          /\ \A j \in DOMAIN effects :
               Len(queue) + j \in DOMAIN queue' /\ queue'[Len(queue) + j] = effects[j]
<1>1. queue \in Seq(Effects) /\ queue' = queue \o effects /\ ui' = next
  BY DEF BrowserType, Step
<1>2. queue' \in Seq(Effects) /\ Len(queue') = Len(queue) + Len(effects)
  BY <1>1
<1>3. /\ Len(queue) \in Nat /\ DOMAIN queue = 1 .. Len(queue)
      /\ Len(effects) \in Nat /\ DOMAIN effects = 1 .. Len(effects)
      /\ DOMAIN queue' = 1 .. (Len(queue) + Len(effects))
  BY <1>1, <1>2
<1>4. \A i \in 1 .. (Len(queue) + Len(effects)) :
        queue'[i] = IF i <= Len(queue) THEN queue[i] ELSE effects[i - Len(queue)]
  BY <1>1, <1>3
<1>5. \A i \in DOMAIN queue : i \in DOMAIN queue' /\ queue'[i] = queue[i]
  BY <1>3, <1>4
<1>6. ASSUME NEW i \in DOMAIN queue'
      PROVE \/ i \in DOMAIN queue /\ queue'[i] = queue[i]
            \/ \E j \in DOMAIN effects : i = Len(queue) + j /\ queue'[i] = effects[j]
  <2>1. CASE i <= Len(queue)
    BY <1>3, <1>4, <1>6, <2>1
  <2>2. CASE i > Len(queue)
    <3>1. i - Len(queue) \in DOMAIN effects /\ i = Len(queue) + (i - Len(queue))
      BY <1>3, <1>6, <2>2
    <3>2. queue'[i] = effects[i - Len(queue)]
      BY <1>3, <1>4, <1>6, <2>2
    <3>3. QED
      BY <3>1, <3>2
  <2>3. QED
    BY <1>3, <1>6, <2>1, <2>2
<1>7. ASSUME NEW j \in DOMAIN effects
      PROVE Len(queue) + j \in DOMAIN queue' /\ queue'[Len(queue) + j] = effects[j]
  <2>1. Len(queue) + j \in 1 .. (Len(queue) + Len(effects)) /\ ~(Len(queue) + j <= Len(queue))
          /\ (Len(queue) + j) - Len(queue) = j
    BY <1>3, <1>7
  <2>2. QED
    BY <1>3, <1>4, <2>1
<1>8. QED
  BY <1>1, <1>2, <1>5, <1>6, <1>7

\* The effects of a kind among those appended are the ones there were and the new ones.
LEMMA QueuedAfterStep ==
    ASSUME BrowserType, NEW next, NEW effects \in Seq(Effects), Step(next, effects), NEW kind
    PROVE /\ \A i \in QueuedOf(kind) : i \in QueuedOf(kind)' /\ queue'[i] = queue[i]
          /\ \A i \in QueuedOf(kind)' :
               \/ i \in QueuedOf(kind) /\ queue'[i] = queue[i]
               \/ \E j \in DOMAIN effects :
                    effects[j].kind = kind /\ i = Len(queue) + j /\ queue'[i] = effects[j]
          /\ \A j \in DOMAIN effects : effects[j].kind = kind =>
               Len(queue) + j \in QueuedOf(kind)' /\ queue'[Len(queue) + j] = effects[j]
BY StepAppends DEF QueuedOf

\* A step that asks for no poll leaves the poll.
LEMMA PollIsLeft ==
    ASSUME BrowserType, OnePoll, NEW next, NEW effects \in Seq(Effects), Step(next, effects),
           \A j \in DOMAIN effects : effects[j].kind # "watch",
           InFlight("watch")' = InFlight("watch"), flying'["watch"] = flying["watch"],
           next.follow.pending = ui.follow.pending
    PROVE OnePoll'
<1>1. QueuedOf("watch")' = QueuedOf("watch") /\ \A i \in QueuedOf("watch") : queue'[i] = queue[i]
  <2>1. /\ \A i \in QueuedOf("watch") : i \in QueuedOf("watch")' /\ queue'[i] = queue[i]
        /\ \A i \in QueuedOf("watch")' :
             \/ i \in QueuedOf("watch") /\ queue'[i] = queue[i]
             \/ \E j \in DOMAIN effects :
                  effects[j].kind = "watch" /\ i = Len(queue) + j /\ queue'[i] = effects[j]
    BY QueuedAfterStep
  <2>2. QED
    BY <2>1
<1>2. QueuedOf("watch") \subseteq DOMAIN queue /\ QueuedOf("watch")' \subseteq DOMAIN queue'
  BY DEF QueuedOf
<1>3. ui' = next
  BY DEF Step
<1>4. QED
  BY <1>1, <1>2, <1>3 DEF OnePoll

\* One that asks for the only poll there is has it.
LEMMA PollIsAsked ==
    ASSUME BrowserType, QueuedOf("watch") = {}, ~InFlight("watch")',
           NEW next, NEW effects \in Seq(Effects), Step(next, effects),
           NEW known \in Nat \ {0}, NEW k \in DOMAIN effects, effects[k] = Watch(known),
           \A j \in DOMAIN effects : effects[j].kind = "watch" => j = k,
           next.follow.pending = known
    PROVE OnePoll'
<1>1. Watch(known).kind = "watch" /\ Watch(known).known = known
  BY DEF Watch
<1>2. /\ QueuedOf("watch")' = {Len(queue) + k}
      /\ queue'[Len(queue) + k] = Watch(known)
  BY <1>1, QueuedAfterStep
<1>3. Len(queue) + k \in DOMAIN queue'
  BY StepAppends
<1>4. ui' = next
  BY DEF Step
<1>5. QED
  BY <1>1, <1>2, <1>3, <1>4 DEF OnePoll

\* One that takes the poll's end and asks for no other has none.
LEMMA PollIsOver ==
    ASSUME BrowserType, QueuedOf("watch") = {}, ~InFlight("watch")',
           NEW next, NEW effects \in Seq(Effects), Step(next, effects),
           \A j \in DOMAIN effects : effects[j].kind # "watch",
           next.follow.pending = 0
    PROVE OnePoll'
<1>1. QueuedOf("watch")' = {}
  BY QueuedAfterStep
<1>2. ui' = next
  BY DEF Step
<1>3. QED
  BY <1>1, <1>2 DEF OnePoll

\* Loads that are asked for at the scope the step leaves keep the order.
LEMMA ScopesAreKept ==
    ASSUME BrowserType, ScopesInOrder, NEW next \in UiStates, NEW effects \in Seq(Effects),
           Step(next, effects), next.scope >= ui.scope,
           \A j \in DOMAIN effects : effects[j].kind \in Loads => effects[j].scope = next.scope,
           \A kind \in Loads : InFlight(kind)' => InFlight(kind) /\ flying'[kind] = flying[kind]
    PROVE ScopesInOrder'
<1>1. ui' = next /\ next.scope \in Nat /\ ui.scope \in Nat
  BY DEF Step, BrowserType, UiStates
<1>2. Len(queue) \in Nat /\ DOMAIN queue = 1 .. Len(queue)
  BY DEF BrowserType
<1>3. DOMAIN effects = 1 .. Len(effects) /\ Len(effects) \in Nat
  OBVIOUS
<1> SUFFICES ASSUME NEW kind \in Loads
             PROVE /\ \A i \in QueuedOf(kind)' :
                        /\ queue'[i].scope <= ui'.scope
                        /\ \A j \in QueuedOf(kind)' : i < j => queue'[i].scope <= queue'[j].scope
                        /\ InFlight(kind)' => flying'[kind].effect.scope <= queue'[i].scope
                   /\ InFlight(kind)' => flying'[kind].effect.scope <= ui'.scope
  BY DEF ScopesInOrder
<1>4. \A i \in QueuedOf(kind) : i \in 1 .. Len(queue) /\ queue[i].scope \in Nat
                                  /\ queue[i].scope <= ui.scope
  BY <1>2, FieldsOfEffects DEF ScopesInOrder, QueuedOf, BrowserType, Loads
<1>5. \A i \in QueuedOf(kind)' :
        \/ i \in QueuedOf(kind) /\ queue'[i] = queue[i]
        \/ i \in Nat /\ i > Len(queue) /\ queue'[i].scope = next.scope
  BY <1>2, <1>3, QueuedAfterStep
<1>6. InFlight(kind) => flying[kind].effect.scope \in Nat /\ flying[kind].effect.scope <= ui.scope
  BY FieldsOfEffects DEF ScopesInOrder, BrowserType, Loads, Groups
<1>7. InFlight(kind)' => InFlight(kind) /\ flying'[kind] = flying[kind]
  OBVIOUS
<1>8. \A i \in QueuedOf(kind) :
        /\ \A j \in QueuedOf(kind) : i < j => queue[i].scope <= queue[j].scope
        /\ InFlight(kind) => flying[kind].effect.scope <= queue[i].scope
  BY DEF ScopesInOrder
<1>9. ASSUME NEW i \in QueuedOf(kind)'
      PROVE /\ queue'[i].scope <= ui'.scope
            /\ InFlight(kind)' => flying'[kind].effect.scope <= queue'[i].scope
  BY <1>1, <1>4, <1>5, <1>6, <1>7, <1>8, <1>9
<1>10. ASSUME NEW i \in QueuedOf(kind)', NEW j \in QueuedOf(kind)', i < j
       PROVE queue'[i].scope <= queue'[j].scope
  <2>1. CASE j \in QueuedOf(kind) /\ queue'[j] = queue[j]
    <3>1. i \in QueuedOf(kind) /\ queue'[i] = queue[i]
      BY <1>2, <1>4, <1>5, <1>10, <2>1
    <3>2. queue[i].scope <= queue[j].scope
      BY <1>8, <1>10, <2>1, <3>1
    <3>3. QED
      BY <2>1, <3>1, <3>2
  <2>2. CASE queue'[j].scope = next.scope
    BY <1>1, <1>4, <1>5, <2>2
  <2>3. QED
    BY <1>5, <2>1, <2>2
<1>11. InFlight(kind)' => flying'[kind].effect.scope <= ui'.scope
  BY <1>1, <1>6, <1>7
<1>12. QED
  BY <1>9, <1>10, <1>11

\* A step of the reducer: no request starts, and what it leaves is typed.
Reduces ==
    /\ server' = server
    /\ flying' \in [Groups -> [effect : Effects \cup {NoEffect}, since : Nat]]
    /\ \A g \in Groups : InFlight(g)' => InFlight(g) /\ flying'[g] = flying[g]
    /\ timers' \subseteq Nat \ {0}
    /\ url' \in Routes

LEMMA TypeIsKept ==
    ASSUME BrowserType, Reduces, NEW next \in UiStates, NEW effects \in Seq(Effects),
           Step(next, effects)
    PROVE BrowserType'
<1>1. ui' = next /\ queue' \in Seq(Effects)
  BY StepAppends
<1>2. \A g \in Groups : InFlight(g)' =>
        /\ flying'[g].effect \in Effects /\ flying'[g].effect.kind = g
        /\ flying'[g].since \in Nat \ {0}
  BY DEF BrowserType, Reduces
<1>3. QED
  BY <1>1, <1>2 DEF BrowserType, Reduces

\* While a load of the viewer's scope is queued there is more to come.
LEMMA LoadIsAwaited ==
    ASSUME BrowserType, NEW next, NEW effects \in Seq(Effects), Step(next, effects),
           NEW j \in DOMAIN effects, effects[j].kind \in Loads, effects[j].scope = next.scope
    PROVE ViewIsOfItsRoute'
<1>1. ui' = next
  BY DEF Step
<1>2. Len(queue) + j \in QueuedOf(effects[j].kind)' /\ queue'[Len(queue) + j] = effects[j]
  BY QueuedAfterStep
<1>3. effects[j] \in Outstanding("route")' \cup Outstanding("enrichment")'
  BY <1>2 DEF Outstanding, Loads
<1>4. ~Settled'
  BY <1>1, <1>3 DEF Settled
<1>5. QED
  BY <1>4 DEF ViewIsOfItsRoute

\* When no load of the viewer's scope ends, what was settled is all that is settled.
LEMMA SettledIsKept ==
    ASSUME BrowserType, NEW next, NEW effects \in Seq(Effects), Step(next, effects),
           next.scope = ui.scope, Settled',
           \A kind \in Loads : InFlight(kind) /\ flying[kind].effect.scope = ui.scope =>
             InFlight(kind)' /\ flying'[kind] = flying[kind]
    PROVE Settled
<1>1. ui' = next
  BY DEF Step
<1>2. SUFFICES ASSUME NEW kind \in Loads, NEW e \in Outstanding(kind), e.scope = ui.scope
               PROVE FALSE
  BY DEF Settled, Loads
<1>3. e \in Outstanding(kind)'
  <2>1. CASE \E i \in QueuedOf(kind) : e = queue[i]
    <3>1. PICK i \in QueuedOf(kind) : e = queue[i]
      BY <2>1
    <3>2. i \in QueuedOf(kind)' /\ queue'[i] = queue[i]
      BY QueuedAfterStep
    <3>3. QED
      BY <3>1, <3>2 DEF Outstanding
  <2>2. CASE InFlight(kind) /\ e = flying[kind].effect
    BY <1>2, <2>2 DEF Outstanding
  <2>3. QED
    BY <2>1, <2>2 DEF Outstanding
<1>4. e.scope = ui'.scope
  BY <1>1, <1>2
<1>5. QED
  BY <1>3, <1>4 DEF Settled, Loads

\* A step that changes nothing the view is judged by leaves it.
LEMMA ViewIsLeft ==
    ASSUME BrowserType, ViewIsOfItsRoute, NEW next, NEW effects \in Seq(Effects),
           Step(next, effects),
           next.scope = ui.scope, next.error = ui.error, next.kept = ui.kept,
           next.route = ui.route, next.view.route = ui.view.route,
           next.view.generation = ui.view.generation,
           next.snapshot \in {ui.snapshot, ui.view.generation},
           \A kind \in Loads : InFlight(kind) /\ flying[kind].effect.scope = ui.scope =>
             InFlight(kind)' /\ flying'[kind] = flying[kind]
    PROVE ViewIsOfItsRoute'
<1>1. ui' = next
  BY DEF Step
<1>2. Settled' => Settled
  BY SettledIsKept
<1>3. QED
  BY <1>1, <1>2 DEF ViewIsOfItsRoute

\* A viewer that says why its view may not be of its route is excused.
LEMMA ViewIsExcused ==
    ASSUME NEW next, NEW effects, Step(next, effects), next.error \/ next.kept
    PROVE ViewIsOfItsRoute'
BY DEF Step, ViewIsOfItsRoute

LEMMA NoEffectsAreEffects ==
    /\ <<>> \in Seq(Effects) /\ DOMAIN <<>> = {}
    /\ \A e \in Effects : /\ <<e>> \in Seq(Effects) /\ DOMAIN <<e>> = {1} /\ <<e>>[1] = e
OBVIOUS

LEMMA LoadingIs ==
    ASSUME NEW s \in UiStates, NEW route \in Routes, NEW history \in Histories,
           NEW auto \in BOOLEAN
    PROVE /\ Loading(s, route, history, auto) \in UiStates
          /\ Loading(s, route, history, auto).scope = s.scope + 1
          /\ Loading(s, route, history, auto).cursor = 0
          /\ Loading(s, route, history, auto).view = s.view
          /\ Loading(s, route, history, auto).follow = s.follow
          /\ Loading(s, route, history, auto).snapshot = s.snapshot
<1>1. s.scope + 1 \in Nat /\ FALSE \in BOOLEAN /\ 0 \in Nat
  BY DEF UiStates
<1>2. Loading(s, route, history, auto) \in UiStates
  BY <1>1, Zenon DEF Loading, UiStates
<1>3. /\ Loading(s, route, history, auto).scope = s.scope + 1
      /\ Loading(s, route, history, auto).cursor = 0
      /\ Loading(s, route, history, auto).view = s.view
      /\ Loading(s, route, history, auto).follow = s.follow
      /\ Loading(s, route, history, auto).snapshot = s.snapshot
  BY DEF Loading, UiStates
<1>4. QED
  BY <1>2, <1>3

\* loadRoute: a new scope, and one load of it.
LEMMA LoadRouteKeeps ==
    ASSUME BrowserInv, Reduces, NEW s \in UiStates, NEW route \in Routes,
           NEW history \in Histories, NEW auto \in BOOLEAN,
           s.scope = ui.scope, s.view = ui.view, s.follow.pending = ui.follow.pending,
           flying'["watch"] = flying["watch"], InFlight("watch")' = InFlight("watch"),
           LoadRoute(s, route, history, auto)
    PROVE BrowserInv'
<1> DEFINE e == ReadRoute(s.scope + 1, route, auto)
           next == Loading(s, route, history, auto)
<1>1. BrowserType /\ OnePoll /\ ScopesInOrder /\ ListingIsOfTheView /\ ui.scope \in Nat
  BY DEF BrowserInv, BrowserType, UiStates
<1>2. e \in Effects /\ e.kind = "route" /\ e.scope = s.scope + 1
  BY <1>1, EffectsAreTyped DEF Histories
<1>3. /\ next \in UiStates /\ next.scope = s.scope + 1 /\ next.cursor = 0
      /\ next.view = s.view /\ next.follow = s.follow
  BY LoadingIs
<1>4. Step(next, <<e>>)
  BY DEF LoadRoute
<1> HIDE DEF e, next
<1>5. <<e>> \in Seq(Effects) /\ DOMAIN <<e>> = {1} /\ <<e>>[1] = e
  BY <1>2, NoEffectsAreEffects
<1>6. BrowserType'
  BY <1>1, <1>3, <1>4, <1>5, TypeIsKept
<1>7. OnePoll'
  <2>1. \A j \in DOMAIN <<e>> : <<e>>[j].kind # "watch"
    BY <1>2, <1>5
  <2>2. next.follow.pending = ui.follow.pending
    BY <1>3
  <2>3. QED
    BY <1>1, <1>4, <1>5, <2>1, <2>2, PollIsLeft
<1>8. ScopesInOrder'
  <2>1. \A j \in DOMAIN <<e>> : <<e>>[j].kind \in Loads => <<e>>[j].scope = next.scope
    BY <1>2, <1>3, <1>5
  <2>2. next.scope >= ui.scope
    BY <1>1, <1>3
  <2>3. \A kind \in Loads : InFlight(kind)' => InFlight(kind) /\ flying'[kind] = flying[kind]
    BY DEF Reduces, Loads, Groups
  <2>4. QED
    BY <1>1, <1>3, <1>4, <1>5, <2>1, <2>2, <2>3, ScopesAreKept
<1>9. ViewIsOfItsRoute'
  <2>1. <<e>>[1].kind \in Loads /\ <<e>>[1].scope = next.scope /\ 1 \in DOMAIN <<e>>
    BY <1>2, <1>3, <1>5 DEF Loads
  <2>2. QED
    BY <1>1, <1>4, <1>5, <2>1, LoadIsAwaited
<1>10. ListingIsOfTheView'
  BY <1>1, <1>3, <1>4 DEF ListingIsOfTheView, Step
<1>11. QED
  BY <1>6, <1>7, <1>8, <1>9, <1>10 DEF BrowserInv

\* A step that asks for nothing, at the same scope, and does not touch the poll.
LEMMA QuietStepKeeps ==
    ASSUME BrowserInv, Reduces, NEW next \in UiStates, Step(next, <<>>),
           flying'["watch"] = flying["watch"], InFlight("watch")' = InFlight("watch"),
           next.scope = ui.scope, next.follow.pending = ui.follow.pending,
           next.view.route = ui.view.route, next.view.generation = ui.view.generation,
           next.cursor \in {0, ui.cursor},
           \/ next.error \/ next.kept
           \/ /\ next.error = ui.error /\ next.kept = ui.kept /\ next.route = ui.route
              /\ next.snapshot \in {ui.snapshot, ui.view.generation}
              /\ \A kind \in Loads : InFlight(kind) /\ flying[kind].effect.scope = ui.scope =>
                   InFlight(kind)' /\ flying'[kind] = flying[kind]
    PROVE BrowserInv'
<1>1. /\ BrowserType /\ OnePoll /\ ScopesInOrder /\ ListingIsOfTheView /\ ViewIsOfItsRoute
      /\ ui.scope \in Nat
  BY DEF BrowserInv, BrowserType, UiStates
<1>2. <<>> \in Seq(Effects) /\ DOMAIN <<>> = {}
  BY NoEffectsAreEffects
<1>3. BrowserType'
  BY <1>1, <1>2, TypeIsKept
<1>4. OnePoll'
  BY <1>1, <1>2, PollIsLeft
<1>5. ScopesInOrder'
  <2>1. \A kind \in Loads : InFlight(kind)' => InFlight(kind) /\ flying'[kind] = flying[kind]
    BY DEF Reduces, Loads, Groups
  <2>2. next.scope >= ui.scope /\ \A j \in DOMAIN <<>> : <<>>[j].kind \in Loads =>
                                                           <<>>[j].scope = next.scope
    BY <1>1, <1>2
  <2>3. QED
    BY <1>1, <1>2, <2>1, <2>2, ScopesAreKept
<1>6. ViewIsOfItsRoute'
  <2>1. CASE next.error \/ next.kept
    BY <2>1, ViewIsExcused
  <2>2. CASE ~(next.error \/ next.kept)
    BY <1>1, <1>2, <2>2, ViewIsLeft
  <2>3. QED
    BY <2>1, <2>2
<1>7. ListingIsOfTheView'
  BY <1>1 DEF ListingIsOfTheView, Step
<1>8. QED
  BY <1>3, <1>4, <1>5, <1>6, <1>7 DEF BrowserInv

LEMMA UiFields ==
    ASSUME BrowserType
    PROVE /\ ui.scope \in Nat /\ ui.route \in Routes /\ ui.snapshot \in Nat /\ ui.cursor \in Nat
          /\ ui.view \in Views /\ ui.view.generation \in Nat /\ ui.view.route \in Routes \cup {Nowhere}
          /\ ui.follow \in Follows /\ ui.follow.pending \in Nat /\ ui.follow.paused \in BOOLEAN
          /\ ui.follow.watched \in Nat /\ ui.follow.enabled \in BOOLEAN
BY DEF BrowserType, UiStates, Views, Follows

\* An answer ends the request of its group and starts none.
LEMMA AnswerReduces ==
    ASSUME BrowserType, NEW g \in Groups, InFlight(g), Ends(g), UNCHANGED <<server, timers, url>>
    PROVE /\ Reduces
          /\ flying[g].effect \in Effects /\ flying[g].effect.kind = g
          /\ \A n \in Answered(g) : n \in Nat \ {0}
          /\ \A h \in Groups \ {g} : flying'[h] = flying[h] /\ InFlight(h)' = InFlight(h)
          /\ ~InFlight(g)'
<1>1. /\ flying' \in [Groups -> [effect : Effects \cup {NoEffect}, since : Nat]]
      /\ ~InFlight(g)'
      /\ \A h \in Groups \ {g} : flying'[h] = flying[h] /\ (InFlight(h)' = InFlight(h))
  BY NothingFliesIs
<1>2. Reduces
  BY <1>1 DEF Reduces, BrowserType
<1>3. server.generation \in Nat \ {0} /\ flying[g].since \in Nat \ {0}
  BY DEF BrowserType
<1>4. \A n \in Answered(g) : n \in Nat \ {0}
  BY <1>3 DEF Answered
<1>5. QED
  BY <1>1, <1>2, <1>4 DEF BrowserType

LEMMA Concatenated ==
    ASSUME NEW s \in Seq(Effects), NEW o \in Seq(Effects)
    PROVE /\ s \o o \in Seq(Effects) /\ Len(s \o o) = Len(s) + Len(o)
          /\ \A i \in 1 .. Len(s) : (s \o o)[i] = s[i]
          /\ \A i \in 1 .. Len(o) : (s \o o)[Len(s) + i] = o[i]
OBVIOUS

LEMMA OptionIs ==
    ASSUME NEW a \in Effects, NEW o, o = <<>> \/ o = <<a>>
    PROVE /\ o \in Seq(Effects) /\ Len(o) \in {0, 1}
          /\ o = <<>> => Len(o) = 0
          /\ o = <<a>> => Len(o) = 1
          /\ Len(o) = 1 => o[1] = a /\ o = <<a>>
<1>1. CASE o = <<>>
  <2>1. o \in Seq(Effects) /\ Len(o) = 0
    BY <1>1
  <2>2. o # <<a>>
    BY <1>1
  <2>3. QED
    BY <1>1, <2>1, <2>2
<1>2. CASE o = <<a>>
  <2>1. o \in Seq(Effects) /\ Len(o) = 1 /\ o[1] = a
    BY <1>2
  <2>2. o # <<>>
    BY <1>2
  <2>3. QED
    BY <1>2, <2>1, <2>2
<1>3. QED
  BY <1>1, <1>2

\* At most one effect of each of three kinds: where the second is.
LEMMA ThreeOptions ==
    ASSUME NEW h \in Seq(Effects), NEW w \in Seq(Effects), NEW n \in Seq(Effects),
           Len(h) \in {0, 1}, Len(w) \in {0, 1}, Len(n) \in {0, 1}
    PROVE /\ h \o w \o n \in Seq(Effects)
          /\ \A j \in DOMAIN (h \o w \o n) :
               \/ Len(h) = 1 /\ (h \o w \o n)[j] = h[1]
               \/ j = Len(h) + 1 /\ Len(w) = 1 /\ (h \o w \o n)[j] = w[1]
               \/ Len(n) = 1 /\ (h \o w \o n)[j] = n[1]
          /\ Len(w) = 1 => /\ Len(h) + 1 \in DOMAIN (h \o w \o n)
                           /\ (h \o w \o n)[Len(h) + 1] = w[1]
<1> DEFINE s == h \o w
           all == s \o n
           a == Len(h)
           b == Len(w)
           c == Len(n)
<1>1. /\ s \in Seq(Effects) /\ Len(s) = a + b
      /\ \A i \in 1 .. a : s[i] = h[i]
      /\ \A i \in 1 .. b : s[a + i] = w[i]
  BY Concatenated
<1>2. all = h \o w \o n
  OBVIOUS
<1> HIDE DEF s
<1>3. /\ all \in Seq(Effects) /\ Len(all) = Len(s) + c
      /\ \A i \in 1 .. Len(s) : all[i] = s[i]
      /\ \A i \in 1 .. c : all[Len(s) + i] = n[i]
  BY <1>1, Concatenated
<1>4. a \in {0, 1} /\ b \in {0, 1} /\ c \in {0, 1} /\ a = Len(h) /\ b = Len(w) /\ c = Len(n)
  OBVIOUS
<1> HIDE DEF all, a, b, c
<1>5. DOMAIN all = 1 .. (a + b + c)
  BY <1>1, <1>3, <1>4
<1>6. ASSUME NEW j \in DOMAIN all
      PROVE \/ a = 1 /\ all[j] = h[1]
            \/ j = a + 1 /\ b = 1 /\ all[j] = w[1]
            \/ c = 1 /\ all[j] = n[1]
  <2>1. /\ j \in Nat \ {0} /\ j <= a + b + c /\ Len(s) = a + b
        /\ a \in {0, 1} /\ b \in {0, 1} /\ c \in {0, 1}
    BY <1>1, <1>4, <1>5, <1>6
  <2>2. CASE j <= a
    <3>1. j = 1 /\ a = 1 /\ j \in 1 .. a /\ j \in 1 .. (a + b)
      BY <2>1, <2>2
    <3>2. QED
      BY <1>1, <1>3, <3>1
  <2>3. CASE j > a /\ j <= a + b
    <3>1. j = a + 1 /\ b = 1 /\ 1 \in 1 .. b /\ j \in 1 .. (a + b)
      BY <2>1, <2>3
    <3>2. s[j] = w[1] /\ all[j] = s[j]
      BY <1>1, <1>3, <3>1
    <3>3. QED
      BY <3>1, <3>2
  <2>4. CASE j > a + b
    <3>1. j = a + b + 1 /\ c = 1 /\ 1 \in 1 .. c
      BY <2>1, <2>4
    <3>2. QED
      BY <1>1, <1>3, <3>1
  <2>5. QED
    BY <2>1, <2>2, <2>3, <2>4
<1>7. b = 1 => a + 1 \in DOMAIN all /\ all[a + 1] = w[1]
  <2>1. SUFFICES ASSUME b = 1 PROVE a + 1 \in DOMAIN all /\ all[a + 1] = w[1]
    OBVIOUS
  <2>2. 1 \in 1 .. b /\ a + 1 \in 1 .. Len(s) /\ a + 1 \in 1 .. (a + b + c)
    BY <1>1, <1>4, <2>1
  <2>3. QED
    BY <1>1, <1>3, <1>5, <2>2
<1>8. QED
  BY <1>2, <1>3, <1>4, <1>6, <1>7

LEMMA RouteLoadedKeeps ==
    ASSUME BrowserInv, Reduces, NEW scope \in Nat, NEW route \in Routes,
           NEW generation \in Nat \ {0}, NEW deep \in BOOLEAN,
           flying'["watch"] = flying["watch"], InFlight("watch")' = InFlight("watch"),
           scope = ui.scope,
           RouteLoaded(scope, route, generation, deep)
    PROVE BrowserInv'
<1> DEFINE watches == server.following /\ ui.follow.pending = 0
           H == WriteHistory(route)
           W == Watch(generation)
           E == Enrich(scope, route, "none", Nowhere)
           h == IF ui.history = "none" THEN <<>> ELSE <<H>>
           w == IF watches THEN <<W>> ELSE <<>>
           n == IF ui.auto /\ route = "page" /\ ~deep THEN <<E>> ELSE <<>>
           v == [route |-> route, generation |-> generation, more |-> route = "volume"]
           f == [enabled |-> server.following, paused |-> ui.follow.paused,
                 watched |-> generation,
                 pending |-> IF watches THEN generation ELSE ui.follow.pending]
           next == [ui EXCEPT !.route = route, !.snapshot = generation, !.error = FALSE,
                              !.view = v, !.cursor = 0, !.kept = FALSE, !.follow = f]
           effects == h \o w \o n
<1>1. /\ BrowserType /\ OnePoll /\ ScopesInOrder /\ ui \in UiStates
      /\ server.following \in BOOLEAN
  BY DEF BrowserInv, BrowserType
<1>2. Step(next, effects)
  BY <1>1 DEF RouteLoaded, UiStates
<1>3. v \in Views /\ f \in Follows
  BY <1>1, UiFields DEF Views, Follows
<1>4. f.pending = IF watches THEN generation ELSE ui.follow.pending
  OBVIOUS
<1>5. v.route = route /\ v.generation = generation
  OBVIOUS
<1>6. /\ H \in Effects /\ H.kind = "history" /\ W \in Effects /\ W.kind = "watch"
      /\ E \in Effects /\ E.kind = "enrichment" /\ E.scope = scope
  BY EffectsAreTyped DEF Histories
<1>7. (h = <<>> \/ h = <<H>>) /\ (w = <<>> \/ w = <<W>>) /\ (n = <<>> \/ n = <<E>>)
  OBVIOUS
<1>8. w = (IF watches THEN <<W>> ELSE <<>>)
  OBVIOUS
<1>9. effects = h \o w \o n
  OBVIOUS
<1> HIDE DEF watches, H, E, W, h, w, n, v, f, effects
<1>10. /\ effects \in Seq(Effects)
       /\ \A j \in DOMAIN effects : effects[j] \in {H, W, E}
       /\ w = <<>> => \A j \in DOMAIN effects : effects[j].kind # "watch"
       /\ w = <<W>> => \E k \in DOMAIN effects :
            /\ effects[k] = W
            /\ \A j \in DOMAIN effects : effects[j].kind = "watch" => j = k
  <2>1. h \in Seq(Effects) /\ Len(h) \in {0, 1} /\ (Len(h) = 1 => h[1] = H)
    BY <1>6, <1>7, OptionIs
  <2>2. /\ w \in Seq(Effects) /\ Len(w) \in {0, 1} /\ (Len(w) = 1 => w[1] = W /\ w = <<W>>)
        /\ (w = <<W>> => Len(w) = 1) /\ (w = <<>> => Len(w) = 0)
    BY <1>6, <1>7, OptionIs
  <2>3. n \in Seq(Effects) /\ Len(n) \in {0, 1} /\ (Len(n) = 1 => n[1] = E)
    BY <1>6, <1>7, OptionIs
  <2>4. /\ effects \in Seq(Effects)
        /\ \A j \in DOMAIN effects :
             \/ Len(h) = 1 /\ effects[j] = h[1]
             \/ j = Len(h) + 1 /\ Len(w) = 1 /\ effects[j] = w[1]
             \/ Len(n) = 1 /\ effects[j] = n[1]
        /\ Len(w) = 1 => Len(h) + 1 \in DOMAIN effects /\ effects[Len(h) + 1] = w[1]
    <3>1. Len(h) \in {0, 1} /\ Len(w) \in {0, 1} /\ Len(n) \in {0, 1}
      BY <2>1, <2>2, <2>3
    <3>2. h \in Seq(Effects) /\ w \in Seq(Effects) /\ n \in Seq(Effects)
      BY <2>1, <2>2, <2>3
    <3>3. /\ h \o w \o n \in Seq(Effects)
          /\ \A j \in DOMAIN (h \o w \o n) :
               \/ Len(h) = 1 /\ (h \o w \o n)[j] = h[1]
               \/ j = Len(h) + 1 /\ Len(w) = 1 /\ (h \o w \o n)[j] = w[1]
               \/ Len(n) = 1 /\ (h \o w \o n)[j] = n[1]
          /\ Len(w) = 1 => /\ Len(h) + 1 \in DOMAIN (h \o w \o n)
                           /\ (h \o w \o n)[Len(h) + 1] = w[1]
      BY <3>1, <3>2, ThreeOptions, ZenonT(60)
    <3>4. QED
      BY <1>9, <3>3, Zenon
  <2>5. \A j \in DOMAIN effects : \/ effects[j] = H \/ effects[j] = E
                                  \/ effects[j] = W /\ j = Len(h) + 1 /\ Len(w) = 1
    BY <2>1, <2>2, <2>3, <2>4
  <2>6. \A j \in DOMAIN effects : effects[j].kind = "watch" => j = Len(h) + 1 /\ Len(w) = 1
    BY <1>6, <2>5
  <2>7. QED
    BY <2>2, <2>4, <2>5, <2>6
<1>11. FALSE \in BOOLEAN /\ 0 \in Nat /\ generation \in Nat
  OBVIOUS
<1>12. next \in UiStates
  BY <1>1, <1>3, <1>11, Zenon DEF UiStates
<1>13. /\ next.scope = ui.scope /\ next.cursor = 0 /\ next.view = v /\ next.follow = f
       /\ next.route = route /\ next.snapshot = generation
  BY <1>1 DEF UiStates
<1> HIDE DEF next
<1>14. BrowserType'
  BY <1>1, <1>2, <1>10, <1>12, TypeIsKept
<1>15. OnePoll'
  <2>1. CASE watches
    <3>1. PICK k \in DOMAIN effects :
            /\ effects[k] = W
            /\ \A j \in DOMAIN effects : effects[j].kind = "watch" => j = k
      BY <1>8, <1>10, <2>1
    <3>2. QueuedOf("watch") = {} /\ ~InFlight("watch")'
      BY <1>1, <2>1 DEF OnePoll, watches
    <3>3. next.follow.pending = generation
      BY <1>4, <1>13, <2>1
    <3>4. effects[k] = Watch(generation)
      BY <3>1 DEF W
    <3>5. QED
      BY <1>1, <1>2, <1>10, <3>1, <3>2, <3>3, <3>4, PollIsAsked
  <2>2. CASE ~watches
    <3>1. \A j \in DOMAIN effects : effects[j].kind # "watch"
      BY <1>8, <1>10, <2>2
    <3>2. next.follow.pending = ui.follow.pending
      BY <1>4, <1>13, <2>2
    <3>3. QED
      BY <1>1, <1>2, <1>10, <3>1, <3>2, PollIsLeft
  <2>3. QED
    BY <2>1, <2>2
<1>16. ScopesInOrder'
  <2>1. \A j \in DOMAIN effects : effects[j].kind \in Loads => effects[j].scope = next.scope
    BY <1>6, <1>10, <1>13 DEF Loads
  <2>2. \A kind \in Loads : InFlight(kind)' => InFlight(kind) /\ flying'[kind] = flying[kind]
    BY DEF Reduces, Loads, Groups
  <2>3. next.scope >= ui.scope
    BY <1>1, <1>13, UiFields
  <2>4. QED
    BY <1>1, <1>2, <1>10, <1>12, <2>1, <2>2, <2>3, ScopesAreKept
<1>17. ui' = next
  BY <1>2 DEF Step
<1>18. ViewIsOfItsRoute' /\ ListingIsOfTheView'
  BY <1>5, <1>13, <1>17 DEF ViewIsOfItsRoute, ListingIsOfTheView
<1>19. QED
  BY <1>14, <1>15, <1>16, <1>18 DEF BrowserInv

\* A deep read of the viewer's scope is asked for.
LEMMA EnrichKeeps ==
    ASSUME BrowserInv, Reduces, NEW route \in Routes, NEW history \in Histories,
           NEW fallback \in Routes \cup {Nowhere},
           flying'["watch"] = flying["watch"], InFlight("watch")' = InFlight("watch"),
           Step(ui, <<Enrich(ui.scope, route, history, fallback)>>)
    PROVE BrowserInv'
<1> DEFINE e == Enrich(ui.scope, route, history, fallback)
<1>1. /\ BrowserType /\ OnePoll /\ ScopesInOrder /\ ListingIsOfTheView /\ ui \in UiStates
      /\ ui.scope \in Nat
  BY UiFields DEF BrowserInv, BrowserType
<1>2. e \in Effects /\ e.kind = "enrichment" /\ e.scope = ui.scope
  BY <1>1 DEF Enrich, Effects
<1>3. Step(ui, <<e>>)
  OBVIOUS
<1> HIDE DEF e
<1>4. <<e>> \in Seq(Effects) /\ DOMAIN <<e>> = {1} /\ <<e>>[1] = e
  BY <1>2, NoEffectsAreEffects
<1>5. BrowserType'
  BY <1>1, <1>3, <1>4, TypeIsKept
<1>6. OnePoll'
  <2>1. \A j \in DOMAIN <<e>> : <<e>>[j].kind # "watch"
    BY <1>2, <1>4
  <2>2. QED
    BY <1>1, <1>3, <1>4, <2>1, PollIsLeft
<1>7. ScopesInOrder'
  <2>1. \A j \in DOMAIN <<e>> : <<e>>[j].kind \in Loads => <<e>>[j].scope = ui.scope
    BY <1>2, <1>4
  <2>2. \A kind \in Loads : InFlight(kind)' => InFlight(kind) /\ flying'[kind] = flying[kind]
    BY DEF Reduces, Loads, Groups
  <2>3. ui.scope >= ui.scope
    BY <1>1
  <2>4. QED
    BY <1>1, <1>3, <1>4, <2>1, <2>2, <2>3, ScopesAreKept
<1>8. ViewIsOfItsRoute'
  <2>1. <<e>>[1].kind \in Loads /\ <<e>>[1].scope = ui.scope /\ 1 \in DOMAIN <<e>>
    BY <1>2, <1>4 DEF Loads
  <2>2. QED
    BY <1>1, <1>3, <1>4, <2>1, LoadIsAwaited
<1>9. ListingIsOfTheView'
  BY <1>1, <1>3 DEF ListingIsOfTheView, Step
<1>10. QED
  BY <1>5, <1>6, <1>7, <1>8, <1>9 DEF BrowserInv

LEMMA KeepPausedKeeps ==
    ASSUME BrowserInv, Reduces, KeepPaused,
           flying'["watch"] = flying["watch"], InFlight("watch")' = InFlight("watch")
    PROVE BrowserInv'
<1> DEFINE next == [ui EXCEPT !.kept = TRUE]
<1>1. ui \in UiStates
  BY DEF BrowserInv, BrowserType
<1>2. /\ next \in UiStates /\ next.kept /\ next.scope = ui.scope /\ next.view = ui.view
      /\ next.follow = ui.follow /\ next.cursor = ui.cursor
  BY <1>1 DEF UiStates
<1>3. Step(next, <<>>)
  BY DEF KeepPaused
<1> HIDE DEF next
<1>4. QED
  BY <1>2, <1>3, QuietStepKeeps

\* An answer of another scope, or one that is no load's, leaves the viewer as it is.
LEMMA NothingHappens ==
    ASSUME BrowserInv, Reduces, Step(ui, <<>>),
           flying'["watch"] = flying["watch"], InFlight("watch")' = InFlight("watch"),
           \A kind \in Loads : InFlight(kind) /\ flying[kind].effect.scope = ui.scope =>
             InFlight(kind)' /\ flying'[kind] = flying[kind]
    PROVE BrowserInv'
<1>1. ui \in UiStates
  BY DEF BrowserInv, BrowserType
<1>2. QED
  BY <1>1, QuietStepKeeps

LEMMA ErrorKeeps ==
    ASSUME BrowserInv, Reduces, Step([ui EXCEPT !.error = TRUE], <<>>),
           flying'["watch"] = flying["watch"], InFlight("watch")' = InFlight("watch")
    PROVE BrowserInv'
<1> DEFINE next == [ui EXCEPT !.error = TRUE]
<1>1. ui \in UiStates
  BY DEF BrowserInv, BrowserType
<1>2. /\ next \in UiStates /\ next.error /\ next.scope = ui.scope /\ next.view = ui.view
      /\ next.follow = ui.follow /\ next.cursor = ui.cursor
  BY <1>1 DEF UiStates
<1>3. Step(next, <<>>)
  OBVIOUS
<1> HIDE DEF next
<1>4. QED
  BY <1>2, <1>3, QuietStepKeeps

LEMMA RouteAnswerKeeps == BrowserInv /\ RouteAnswer => BrowserInv'
<1> SUFFICES ASSUME BrowserInv, RouteAnswer PROVE BrowserInv'
  OBVIOUS
<1> DEFINE e == flying["route"].effect
<1>1. BrowserType
  BY DEF BrowserInv
<1>2. InFlight("route") /\ Ends("route") /\ UNCHANGED <<server, timers, url>>
  BY DEF RouteAnswer
<1>3. /\ Reduces /\ e \in Effects /\ e.kind = "route"
      /\ \A n \in Answered("route") : n \in Nat \ {0}
      /\ \A h \in Groups \ {"route"} : flying'[h] = flying[h] /\ InFlight(h)' = InFlight(h)
  BY <1>1, <1>2, AnswerReduces DEF Groups
<1>4. e.scope \in Nat /\ e.route \in Routes
  BY <1>3, FieldsOfEffects
<1>5. flying'["watch"] = flying["watch"] /\ InFlight("watch")' = InFlight("watch")
  BY <1>3 DEF Groups
<1>6. e.scope # ui.scope => \A kind \in Loads : InFlight(kind) /\ flying[kind].effect.scope = ui.scope =>
                              InFlight(kind)' /\ flying'[kind] = flying[kind]
  BY <1>3 DEF Loads, Groups
<1>7. \/ \E generation \in Answered("route"), deep \in BOOLEAN :
           IF KeepsGeneration(generation) THEN KeepPaused
           ELSE RouteLoaded(e.scope, e.route, generation, deep)
      \/ RouteFailed(e.scope)
      \/ RouteNeedsEnrichment(e.scope, e.route) /\ e.route = "slot"
  BY DEF RouteAnswer
<1> HIDE DEF e
<1>8. CASE KeepPaused
  BY <1>3, <1>5, <1>8, KeepPausedKeeps
<1>9. ASSUME NEW generation \in Answered("route"), NEW deep \in BOOLEAN,
             RouteLoaded(e.scope, e.route, generation, deep)
      PROVE BrowserInv'
  <2>1. generation \in Nat \ {0}
    BY <1>3, <1>9
  <2>2. CASE e.scope = ui.scope
    BY <1>3, <1>4, <1>5, <1>9, <2>1, <2>2, RouteLoadedKeeps
  <2>3. CASE e.scope # ui.scope
    <3>1. Step(ui, <<>>)
      BY <1>9, <2>3 DEF RouteLoaded
    <3>2. QED
      BY <1>3, <1>5, <1>6, <2>3, <3>1, NothingHappens
  <2>4. QED
    BY <2>2, <2>3
<1>10. CASE RouteFailed(e.scope)
  <2>1. CASE e.scope = ui.scope
    <3>1. Step([ui EXCEPT !.error = TRUE], <<>>)
      BY <1>10, <2>1 DEF RouteFailed
    <3>2. QED
      BY <1>3, <1>5, <3>1, ErrorKeeps
  <2>2. CASE e.scope # ui.scope
    <3>1. Step(ui, <<>>)
      BY <1>10, <2>2 DEF RouteFailed
    <3>2. QED
      BY <1>3, <1>5, <1>6, <2>2, <3>1, NothingHappens
  <2>3. QED
    BY <2>1, <2>2
<1>11. CASE RouteNeedsEnrichment(e.scope, e.route) /\ e.route = "slot"
  <2>1. CASE e.scope = ui.scope
    <3>1. Step(ui, <<Enrich(ui.scope, e.route, "replace", Fallback[e.route])>>)
      BY <1>11, <2>1 DEF RouteNeedsEnrichment
    <3>2. Fallback[e.route] \in Routes \cup {Nowhere} /\ "replace" \in Histories
      BY <1>11 DEF Fallback, Routes, Histories
    <3>3. QED
      BY <1>3, <1>4, <1>5, <3>1, <3>2, EnrichKeeps
  <2>2. CASE e.scope # ui.scope
    <3>1. Step(ui, <<>>)
      BY <1>11, <2>2 DEF RouteNeedsEnrichment
    <3>2. QED
      BY <1>3, <1>5, <1>6, <2>2, <3>1, NothingHappens
  <2>3. QED
    BY <2>1, <2>2
<1>12. QED
  BY <1>7, <1>8, <1>9, <1>10, <1>11

LEMMA BatchAnswerKeeps == BrowserInv /\ BatchAnswer => BrowserInv'
<1> SUFFICES ASSUME BrowserInv, BatchAnswer PROVE BrowserInv'
  OBVIOUS
<1> DEFINE e == flying["collection"].effect
<1>1. BrowserType /\ ListingIsOfTheView /\ ui \in UiStates
  BY DEF BrowserInv, BrowserType
<1>2. InFlight("collection") /\ Ends("collection") /\ UNCHANGED <<server, timers, url>>
  BY DEF BatchAnswer
<1>3. /\ Reduces /\ e \in Effects /\ e.kind = "collection"
      /\ \A h \in Groups \ {"collection"} : flying'[h] = flying[h] /\ InFlight(h)' = InFlight(h)
  BY <1>1, <1>2, AnswerReduces DEF Groups
<1>4. e.scope \in Nat /\ e.cursor \in Nat \ {0}
  BY <1>3, FieldsOfEffects
<1>5. flying'["watch"] = flying["watch"] /\ InFlight("watch")' = InFlight("watch")
  BY <1>3 DEF Groups
<1>6. \A kind \in Loads : InFlight(kind) /\ flying[kind].effect.scope = ui.scope =>
                              InFlight(kind)' /\ flying'[kind] = flying[kind]
  BY <1>3 DEF Loads, Groups
<1>7. \/ KeepPaused
      \/ SectorBatchLoaded(e.scope, e.cursor)
      \/ \E evicted : SectorBatchFailed(e.scope, e.cursor, evicted)
  BY DEF BatchAnswer
<1> HIDE DEF e
<1>8. CASE KeepPaused
  BY <1>3, <1>5, <1>8, KeepPausedKeeps
<1>9. CASE Step(ui, <<>>)
  BY <1>3, <1>5, <1>6, <1>9, NothingHappens
<1>10. CASE SectorBatchLoaded(e.scope, e.cursor) /\ ~Step(ui, <<>>)
  <2> DEFINE next == [ui EXCEPT !.snapshot = e.cursor, !.cursor = 0, !.view.more = FALSE]
  <2>1. Step(next, <<>>) /\ ui.cursor = e.cursor
    BY <1>10 DEF SectorBatchLoaded
  <2>2. e.cursor = ui.view.generation /\ e.cursor \in Nat
    BY <1>1, <1>4, <2>1 DEF ListingIsOfTheView
  <2>3. [ui.view EXCEPT !.more = FALSE] \in Views
    BY <1>1, UiFields DEF Views
  <2>4. /\ [ui.view EXCEPT !.more = FALSE].route = ui.view.route
        /\ [ui.view EXCEPT !.more = FALSE].generation = ui.view.generation
    BY <1>1, UiFields DEF Views
  <2>5. next \in UiStates
    BY <1>1, <2>2, <2>3 DEF UiStates
  <2>6. /\ next.scope = ui.scope /\ next.follow = ui.follow /\ next.cursor = 0
        /\ next.error = ui.error /\ next.kept = ui.kept /\ next.route = ui.route
        /\ next.snapshot = ui.view.generation /\ next.view = [ui.view EXCEPT !.more = FALSE]
    BY <1>1, <2>2 DEF UiStates
  <2> HIDE DEF next
  <2>7. next.view.route = ui.view.route /\ next.view.generation = ui.view.generation
    BY <2>4, <2>6
  <2>8. QED
    BY <1>3, <1>5, <1>6, <2>1, <2>5, <2>6, <2>7, QuietStepKeeps
<1>11. ASSUME NEW evicted, SectorBatchFailed(e.scope, e.cursor, evicted), ~Step(ui, <<>>)
       PROVE BrowserInv'
  <2>1. CASE LoadRoute(ui, ui.route, "none", FALSE)
    <3>1. ui.route \in Routes /\ "none" \in Histories
      BY <1>1, UiFields DEF Histories
    <3>2. QED
      BY <1>1, <1>3, <1>5, <2>1, <3>1, LoadRouteKeeps
  <2>2. CASE Step([ui EXCEPT !.cursor = 0], <<>>)
    <3> DEFINE next == [ui EXCEPT !.cursor = 0]
    <3>1. /\ next \in UiStates /\ next.scope = ui.scope /\ next.follow = ui.follow
          /\ next.view = ui.view /\ next.cursor = 0 /\ next.snapshot = ui.snapshot
          /\ next.error = ui.error /\ next.kept = ui.kept /\ next.route = ui.route
      BY <1>1 DEF UiStates
    <3>2. Step(next, <<>>)
      BY <2>2
    <3> HIDE DEF next
    <3>3. QED
      BY <1>3, <1>5, <1>6, <3>1, <3>2, QuietStepKeeps
  <2>3. QED
    BY <1>11, <2>1, <2>2 DEF SectorBatchFailed
<1>12. QED
  BY <1>7, <1>8, <1>9, <1>10, <1>11

LEMMA EnrichAnswerKeeps == BrowserInv /\ EnrichAnswer => BrowserInv'
<1> SUFFICES ASSUME BrowserInv, EnrichAnswer PROVE BrowserInv'
  OBVIOUS
<1> DEFINE e == flying["enrichment"].effect
<1>1. BrowserType /\ ui \in UiStates
  BY DEF BrowserInv, BrowserType
<1>2. InFlight("enrichment") /\ Ends("enrichment") /\ UNCHANGED <<server, timers, url>>
  BY DEF EnrichAnswer
<1>3. /\ Reduces /\ e \in Effects /\ e.kind = "enrichment"
      /\ \A n \in Answered("enrichment") : n \in Nat \ {0}
      /\ \A h \in Groups \ {"enrichment"} : flying'[h] = flying[h] /\ InFlight(h)' = InFlight(h)
  BY <1>1, <1>2, AnswerReduces DEF Groups
<1>4. /\ e.scope \in Nat /\ e.route \in Routes /\ e.history \in Histories
      /\ e.fallback \in Routes \cup {Nowhere}
  BY <1>3, FieldsOfEffects
<1>5. flying'["watch"] = flying["watch"] /\ InFlight("watch")' = InFlight("watch")
  BY <1>3 DEF Groups
<1>6. e.scope # ui.scope => \A kind \in Loads : InFlight(kind) /\ flying[kind].effect.scope = ui.scope =>
                              InFlight(kind)' /\ flying'[kind] = flying[kind]
  BY <1>3 DEF Loads, Groups
<1>7. \/ \E generation \in Answered("enrichment") :
           EnrichmentLoaded(e.scope, generation, e.route, e.history)
      \/ EnrichmentFailed(e.scope, e.fallback)
  BY DEF EnrichAnswer
<1> HIDE DEF e
<1>8. CASE KeepPaused
  BY <1>3, <1>5, <1>8, KeepPausedKeeps
<1>9. CASE e.scope # ui.scope /\ Step(ui, <<>>)
  BY <1>3, <1>5, <1>6, <1>9, NothingHappens
<1>10. ASSUME NEW generation \in Answered("enrichment"),
              LoadRoute([ui EXCEPT !.snapshot = generation], e.route, e.history, FALSE)
       PROVE BrowserInv'
  <2> DEFINE s == [ui EXCEPT !.snapshot = generation]
  <2>1. generation \in Nat
    BY <1>3, <1>10
  <2>2. s \in UiStates /\ s.scope = ui.scope /\ s.view = ui.view /\ s.follow = ui.follow
    BY <1>1, <2>1 DEF UiStates
  <2>3. LoadRoute(s, e.route, e.history, FALSE)
    BY <1>10
  <2> HIDE DEF s
  <2>4. QED
    BY <1>3, <1>4, <1>5, <2>2, <2>3, LoadRouteKeeps
<1>11. ASSUME NEW generation \in Answered("enrichment"),
              EnrichmentLoaded(e.scope, generation, e.route, e.history)
       PROVE BrowserInv'
  BY <1>8, <1>9, <1>10, <1>11 DEF EnrichmentLoaded
<1>12. CASE EnrichmentFailed(e.scope, e.fallback)
  <2>1. CASE Step([ui EXCEPT !.error = TRUE], <<>>)
    BY <1>3, <1>5, <2>1, ErrorKeeps
  <2>2. CASE e.fallback # Nowhere /\ LoadRoute(ui, e.fallback, "replace", FALSE)
    <3>1. e.fallback \in Routes /\ "replace" \in Histories
      BY <1>4, <2>2 DEF Histories
    <3>2. QED
      BY <1>1, <1>3, <1>5, <2>2, <3>1, LoadRouteKeeps
  <2>3. QED
    BY <1>9, <1>12, <2>1, <2>2 DEF EnrichmentFailed
<1>13. QED
  BY <1>7, <1>11, <1>12

\* A poll's answer asks for the next poll, if there is to be one, and perhaps for a load.
LEMMA PollAnswered ==
    ASSUME BrowserInv, Reduces, QueuedOf("watch") = {}, ~InFlight("watch")',
           \A kind \in Loads : flying'[kind] = flying[kind] /\ InFlight(kind)' = InFlight(kind),
           NEW next \in UiStates, NEW effects \in Seq(Effects), Step(next, effects),
           next.scope >= ui.scope,
           next.cursor \in {0, ui.cursor}, next.view = ui.view,
           \/ /\ next.follow.pending = 0
              /\ \A j \in DOMAIN effects : effects[j].kind # "watch"
           \/ /\ next.follow.pending \in Nat \ {0}
              /\ \E k \in DOMAIN effects :
                   /\ effects[k] = Watch(next.follow.pending)
                   /\ \A j \in DOMAIN effects : effects[j].kind = "watch" => j = k,
           \A j \in DOMAIN effects : effects[j].kind \in Loads => effects[j].scope = next.scope,
           \/ \E j \in DOMAIN effects : effects[j].kind \in Loads
           \/ /\ next.scope = ui.scope /\ next.error = ui.error /\ next.kept = ui.kept
              /\ next.route = ui.route /\ next.snapshot = ui.snapshot
    PROVE BrowserInv'
<1>1. /\ BrowserType /\ OnePoll /\ ScopesInOrder /\ ListingIsOfTheView /\ ViewIsOfItsRoute
  BY DEF BrowserInv
<1>2. BrowserType'
  BY <1>1, TypeIsKept
<1>3. OnePoll'
  <2>1. CASE next.follow.pending = 0
    BY <1>1, <2>1, PollIsOver
  <2>2. CASE next.follow.pending \in Nat \ {0}
    <3>1. PICK k \in DOMAIN effects :
            /\ effects[k] = Watch(next.follow.pending)
            /\ \A j \in DOMAIN effects : effects[j].kind = "watch" => j = k
      BY <2>2
    <3>2. QED
      BY <1>1, <2>2, <3>1, PollIsAsked
  <2>3. QED
    BY <2>1, <2>2
<1>4. ScopesInOrder'
  <2>1. \A kind \in Loads : InFlight(kind)' => InFlight(kind) /\ flying'[kind] = flying[kind]
    BY DEF Reduces, Loads, Groups
  <2>2. QED
    BY <1>1, <2>1, ScopesAreKept
<1>5. ViewIsOfItsRoute'
  <2>1. CASE \E j \in DOMAIN effects : effects[j].kind \in Loads
    <3>1. PICK j \in DOMAIN effects : effects[j].kind \in Loads
      BY <2>1
    <3>2. QED
      BY <1>1, <3>1, LoadIsAwaited
  <2>2. CASE ~\E j \in DOMAIN effects : effects[j].kind \in Loads
    BY <1>1, <2>2, ViewIsLeft
  <2>3. QED
    BY <2>1, <2>2
<1>6. ListingIsOfTheView'
  BY <1>1 DEF ListingIsOfTheView, Step
<1>7. QED
  BY <1>2, <1>3, <1>4, <1>5, <1>6 DEF BrowserInv

LEMMA WatchAnswerKeeps == BrowserInv /\ WatchAnswer => BrowserInv'
<1> SUFFICES ASSUME BrowserInv, WatchAnswer PROVE BrowserInv'
  OBVIOUS
<1> DEFINE e == flying["watch"].effect
<1>1. BrowserType /\ OnePoll /\ ui \in UiStates /\ server.following \in BOOLEAN
  BY DEF BrowserInv, BrowserType
<1>2. InFlight("watch") /\ Ends("watch") /\ UNCHANGED <<server, timers, url>>
  BY DEF WatchAnswer
<1>3. /\ Reduces /\ e \in Effects /\ e.kind = "watch"
      /\ \A n \in Answered("watch") : n \in Nat \ {0}
      /\ \A h \in Groups \ {"watch"} : flying'[h] = flying[h] /\ InFlight(h)' = InFlight(h)
      /\ ~InFlight("watch")'
  BY <1>1, <1>2, AnswerReduces DEF Groups
<1>4. e.known = ui.follow.pending /\ e.known \in Nat \ {0} /\ QueuedOf("watch") = {}
  BY <1>1, <1>2, <1>3, FieldsOfEffects DEF OnePoll
<1>5. \A kind \in Loads : flying'[kind] = flying[kind] /\ InFlight(kind)' = InFlight(kind)
  BY <1>3 DEF Loads, Groups
<1>6. \/ \E generation \in Answered("watch") : WatchLoaded(e.known, generation)
      \/ WatchFailed(e.known)
  BY DEF WatchAnswer
<1> HIDE DEF e
<1>7. ui.scope \in Nat /\ ui.route \in Routes /\ ui.follow \in Follows
  BY <1>1, UiFields
<1>8. CASE WatchFailed(e.known)
  <2> DEFINE next == [ui EXCEPT !.follow.pending = 0]
             d == DelayWatch(e.known)
  <2>1. Step(next, <<d>>)
    BY <1>4, <1>8 DEF WatchFailed
  <2>2. [ui.follow EXCEPT !.pending = 0] \in Follows /\ [ui.follow EXCEPT !.pending = 0].pending = 0
    BY <1>7 DEF Follows
  <2>3. /\ next \in UiStates /\ next.scope = ui.scope /\ next.view = ui.view
        /\ next.cursor = ui.cursor /\ next.error = ui.error /\ next.kept = ui.kept
        /\ next.route = ui.route /\ next.snapshot = ui.snapshot
        /\ next.follow = [ui.follow EXCEPT !.pending = 0]
    BY <1>1, <2>2 DEF UiStates
  <2>4. d \in Effects /\ d.kind = "delay"
    BY <1>4 DEF DelayWatch, Effects
  <2> HIDE DEF next, d
  <2>5. /\ <<d>> \in Seq(Effects)
        /\ \A j \in DOMAIN <<d>> : <<d>>[j].kind # "watch" /\ <<d>>[j].kind \notin Loads
    BY <2>4, NoEffectsAreEffects DEF Loads
  <2>6. next.follow.pending = 0 /\ next.scope >= ui.scope
    BY <1>7, <2>2, <2>3
  <2>7. QED
    BY <1>3, <1>4, <1>5, <2>1, <2>3, <2>5, <2>6, PollAnswered
<1>9. ASSUME NEW generation \in Answered("watch"), WatchLoaded(e.known, generation)
      PROVE BrowserInv'
  <2> DEFINE enabled == server.following
             f == [enabled |-> enabled, paused |-> ui.follow.paused, watched |-> generation,
                   pending |-> IF enabled THEN generation ELSE 0]
             s == [ui EXCEPT !.follow = f]
             W == Watch(generation)
             w == IF enabled THEN <<W>> ELSE <<>>
             R == ReadRoute(ui.scope + 1, ui.route, FALSE)
             next == Loading(s, ui.route, "none", FALSE)
  <2>1. generation \in Nat \ {0}
    BY <1>3, <1>9
  <2>2. Step(s, w) \/ Step(next, Append(w, R))
    <3>1. s = [ui EXCEPT !.follow = [enabled |-> enabled, paused |-> @.paused,
                                     watched |-> generation,
                                     pending |-> IF enabled THEN generation ELSE 0]]
      BY <1>1 DEF UiStates
    <3> HIDE DEF s
    <3>2. QED
      BY <1>4, <1>9, <3>1 DEF WatchLoaded
  <2>3. f \in Follows /\ f.pending = (IF enabled THEN generation ELSE 0)
    BY <1>1, <1>7, <2>1 DEF Follows
  <2>4. /\ s \in UiStates /\ s.scope = ui.scope /\ s.view = ui.view
        /\ s.cursor = ui.cursor /\ s.error = ui.error /\ s.kept = ui.kept
        /\ s.route = ui.route /\ s.snapshot = ui.snapshot /\ s.follow = f
    BY <1>1, <2>3 DEF UiStates
  <2>5. W \in Effects /\ W.kind = "watch"
    BY <2>1 DEF Watch, Effects
  <2>6. R \in Effects /\ R.kind = "route" /\ R.scope = ui.scope + 1
    BY <1>7 DEF ReadRoute, Effects
  <2> HIDE DEF f, s, R, W
  <2>7. /\ next \in UiStates /\ next.scope = ui.scope + 1 /\ next.cursor = 0
        /\ next.view = ui.view /\ next.follow = f
    <3>1. "none" \in Histories /\ FALSE \in BOOLEAN
      BY DEF Histories
    <3>2. next = Loading(s, ui.route, "none", FALSE)
      OBVIOUS
    <3>3. s \in UiStates /\ ui.route \in Routes
      BY <1>7, <2>4
    <3> HIDE DEF next
    <3>4. /\ next \in UiStates /\ next.scope = s.scope + 1 /\ next.cursor = 0
          /\ next.view = s.view /\ next.follow = s.follow
      BY <3>1, <3>2, <3>3, LoadingIs
    <3>5. QED
      BY <2>4, <3>4
  <2> HIDE DEF next
  <2>8. /\ w \in Seq(Effects)
        /\ enabled => DOMAIN w = {1} /\ w[1] = W
        /\ ~enabled => DOMAIN w = {}
    BY <2>5, NoEffectsAreEffects
  <2>9. CASE Step(s, w)
    <3>1. \/ /\ s.follow.pending = 0
             /\ \A j \in DOMAIN w : w[j].kind # "watch"
          \/ /\ s.follow.pending \in Nat \ {0}
             /\ \E k \in DOMAIN w :
                  /\ w[k] = Watch(s.follow.pending)
                  /\ \A j \in DOMAIN w : w[j].kind = "watch" => j = k
      <4>1. CASE enabled
        <5>1. s.follow.pending = generation
          BY <2>3, <2>4, <4>1
        <5>2. 1 \in DOMAIN w /\ w[1] = Watch(s.follow.pending)
          BY <2>8, <4>1, <5>1 DEF W
        <5>3. \A j \in DOMAIN w : j = 1
          BY <2>8, <4>1
        <5>4. QED
          BY <2>1, <5>1, <5>2, <5>3
      <4>2. CASE ~enabled
        BY <2>3, <2>4, <2>8, <4>2
      <4>3. QED
        BY <4>1, <4>2
    <3>2. \A j \in DOMAIN w : w[j].kind \in Loads => w[j].scope = s.scope
      BY <2>5, <2>8 DEF Loads
    <3>3. s.scope >= ui.scope
      BY <1>7, <2>4
    <3> HIDE DEF w
    <3>4. QED
      BY <1>3, <1>4, <1>5, <2>4, <2>8, <2>9, <3>1, <3>2, <3>3, PollAnswered
  <2>10. CASE Step(next, Append(w, R))
    <3> DEFINE all == Append(w, R)
    <3>1. /\ all \in Seq(Effects)
          /\ enabled => DOMAIN all = {1, 2} /\ all[1] = W /\ all[2] = R
          /\ ~enabled => DOMAIN all = {1} /\ all[1] = R
      <4>1. /\ all \in Seq(Effects) /\ Len(all) = Len(w) + 1
            /\ \A i \in 1 .. Len(w) : all[i] = w[i]
            /\ all[Len(w) + 1] = R
        BY <2>6, <2>8
      <4>2. CASE enabled
        <5>1. Len(w) = 1 /\ w[1] = W /\ 1 \in 1 .. Len(w)
          BY <2>8, <4>2
        <5>2. DOMAIN all = {1, 2} /\ all[1] = W /\ all[2] = R
          BY <4>1, <5>1
        <5>3. QED
          BY <4>1, <4>2, <5>2
      <4>3. CASE ~enabled
        <5>1. Len(w) = 0
          BY <2>8, <4>3
        <5>2. DOMAIN all = {1} /\ all[1] = R
          BY <4>1, <5>1
        <5>3. QED
          BY <4>1, <4>3, <5>2
      <4>4. QED
        BY <4>2, <4>3
    <3> HIDE DEF all
    <3>2. \/ /\ next.follow.pending = 0
             /\ \A j \in DOMAIN all : all[j].kind # "watch"
          \/ /\ next.follow.pending \in Nat \ {0}
             /\ \E k \in DOMAIN all :
                  /\ all[k] = Watch(next.follow.pending)
                  /\ \A j \in DOMAIN all : all[j].kind = "watch" => j = k
      <4>1. CASE enabled
        <5>1. next.follow.pending = generation
          BY <2>3, <2>7, <4>1
        <5>2. 1 \in DOMAIN all /\ all[1] = Watch(next.follow.pending)
          BY <3>1, <4>1, <5>1 DEF W
        <5>3. \A j \in DOMAIN all : all[j].kind = "watch" => j = 1
          BY <2>6, <3>1, <4>1
        <5>4. QED
          BY <2>1, <5>1, <5>2, <5>3
      <4>2. CASE ~enabled
        BY <2>3, <2>6, <2>7, <3>1, <4>2
      <4>3. QED
        BY <4>1, <4>2
    <3>3. \A j \in DOMAIN all : all[j].kind \in Loads => all[j].scope = next.scope
      BY <1>1, <2>5, <2>6, <2>7, <3>1 DEF Loads
    <3>4. \E j \in DOMAIN all : all[j].kind \in Loads
      BY <1>1, <2>6, <3>1 DEF Loads
    <3>5. next.scope >= ui.scope /\ Step(next, all)
      BY <1>7, <2>7, <2>10 DEF all
    <3>6. QED
      BY <1>3, <1>4, <1>5, <2>7, <3>1, <3>2, <3>3, <3>4, <3>5, PollAnswered
  <2>11. QED
    BY <2>2, <2>9, <2>10
<1>10. QED
  BY <1>6, <1>8, <1>9

\* A delay that ends asks for the poll there is not.
LEMMA DelayEndsKeeps ==
    ASSUME BrowserInv, NEW known, DelayEnds(known)
    PROVE BrowserInv'
<1>1. BrowserType /\ OnePoll /\ ui \in UiStates /\ ui.scope \in Nat /\ ui.follow \in Follows
  BY UiFields DEF BrowserInv, BrowserType
<1>2. /\ known \in timers /\ timers' = timers \ {known} /\ RetryWatch(known)
      /\ UNCHANGED <<server, flying, url>>
  BY DEF DelayEnds
<1>3. known \in Nat \ {0}
  BY <1>1, <1>2 DEF BrowserType
<1>4. Reduces /\ (\A g \in Groups : flying'[g] = flying[g] /\ InFlight(g)' = InFlight(g))
  BY <1>1, <1>2 DEF Reduces, BrowserType, InFlight
<1>5. flying'["watch"] = flying["watch"] /\ InFlight("watch")' = InFlight("watch")
        /\ \A kind \in Loads : flying'[kind] = flying[kind] /\ InFlight(kind)' = InFlight(kind)
  BY <1>4 DEF Groups, Loads
<1>6. CASE Step(ui, <<>>)
  BY <1>4, <1>5, <1>6, NothingHappens
<1>7. CASE ui.follow.pending = 0 /\ Step([ui EXCEPT !.follow.pending = known], <<Watch(known)>>)
  <2> DEFINE next == [ui EXCEPT !.follow.pending = known]
             W == Watch(known)
  <2>1. /\ [ui.follow EXCEPT !.pending = known] \in Follows
        /\ [ui.follow EXCEPT !.pending = known].pending = known
    BY <1>1, <1>3 DEF Follows
  <2>2. /\ next \in UiStates /\ next.scope = ui.scope /\ next.view = ui.view
        /\ next.cursor = ui.cursor /\ next.error = ui.error /\ next.kept = ui.kept
        /\ next.route = ui.route /\ next.snapshot = ui.snapshot
        /\ next.follow = [ui.follow EXCEPT !.pending = known]
    BY <1>1, <2>1 DEF UiStates
  <2>3. W \in Effects /\ W.kind = "watch"
    BY <1>3 DEF Watch, Effects
  <2>4. Step(next, <<W>>)
    BY <1>7
  <2>5. QueuedOf("watch") = {} /\ ~InFlight("watch")'
    BY <1>1, <1>5, <1>7 DEF OnePoll
  <2>6. W = Watch(known)
    OBVIOUS
  <2> HIDE DEF next, W
  <2>7. <<W>> \in Seq(Effects) /\ DOMAIN <<W>> = {1} /\ <<W>>[1] = W
    BY <2>3, NoEffectsAreEffects
  <2>8. next.follow.pending = known /\ next.scope >= ui.scope
    BY <1>1, <2>1, <2>2
  <2>9. /\ next.follow.pending \in Nat \ {0}
        /\ \E k \in DOMAIN <<W>> :
             /\ <<W>>[k] = Watch(next.follow.pending)
             /\ \A j \in DOMAIN <<W>> : <<W>>[j].kind = "watch" => j = k
    BY <1>3, <2>6, <2>7, <2>8
  <2>10. \A j \in DOMAIN <<W>> : <<W>>[j].kind \in Loads => <<W>>[j].scope = next.scope
    BY <2>3, <2>7 DEF Loads
  <2>11. QED
    BY <1>4, <1>5, <2>2, <2>4, <2>5, <2>7, <2>8, <2>9, <2>10, PollAnswered
<1>8. QED
  BY <1>2, <1>6, <1>7 DEF RetryWatch

\* Some places of a sequence have a last one: what comes from each place on is a set, these
\* sets are well ordered, and a smallest of them is that of the last place.
LEMMA HasLast ==
    ASSUME NEW n \in Nat, NEW S, S \subseteq 1 .. n, S # {}
    PROVE \E last \in S : \A i \in S : i <= last
<1> DEFINE All == 1 .. n
           From(i) == i .. n
           T == {From(i) : i \in S}
           R == StrictSubsetOrdering(All)
<1>1. IsWellFoundedOn(R, SUBSET All)
  <2>1. 1 \in Int /\ n \in Int
    OBVIOUS
  <2>2. IsFiniteSet(All)
    BY <2>1, FS_Interval, Zenon
  <2> HIDE DEF All
  <2>3. FiniteSubsetsOf(All) = SUBSET All
    BY <2>2, FS_FiniteSubsetsOfFinite, Zenon
  <2>4. IsWellFoundedOn(StrictSubsetOrdering(All), FiniteSubsetsOf(All))
    BY FS_StrictSubsetOrderingWellFounded, Zenon
  <2>5. QED
    BY <2>3, <2>4, Zenon
<1>2. T \subseteq SUBSET All
  <2>1. ASSUME NEW i \in S PROVE From(i) \subseteq All
    BY <2>1
  <2>2. QED
    BY <2>1
<1>3. T # {}
  <2>1. PICK i : i \in S
    OBVIOUS
  <2>2. From(i) \in T
    BY <2>1
  <2>3. QED
    BY <2>2
<1>4. PICK x \in T : \A y \in T : <<y, x>> \notin R
  <2> HIDE DEF T, R, All
  <2>1. QED
    BY <1>1, <1>2, <1>3, WFMin
<1>5. PICK last \in S : x = From(last)
  OBVIOUS
<1>6. ASSUME NEW i \in S, last < i PROVE FALSE
  <2>1. i \in 1 .. n /\ last \in 1 .. n
    OBVIOUS
  <2>2. From(i) \subseteq From(last) /\ last \in From(last) /\ last \notin From(i)
    BY <1>6, <2>1
  <2>3. From(i) \in T /\ From(last) \in T /\ From(i) # From(last)
    BY <2>2
  <2>4. From(i) \in SUBSET All /\ From(last) \in SUBSET All
    BY <1>2, <2>3
  <2>5. <<From(i), From(last)>> \in R
    <3> HIDE DEF From, All
    <3>1. QED
      BY <2>2, <2>3, <2>4 DEF StrictSubsetOrdering
  <2>6. QED
    BY <1>4, <1>5, <2>3, <2>5
<1>7. QED
  <2>1. \A i \in S : i \in Int /\ last \in Int
    OBVIOUS
  <2>2. QED
    BY <1>6, <2>1

\* The last of the queued effects of a kind, when there is one.
LEMMA LastIs ==
    ASSUME BrowserType, NEW kind, QueuedOf(kind) # {}
    PROVE \E last \in QueuedOf(kind) : /\ LastOf(QueuedOf(kind)) = queue[last]
                                       /\ \A i \in QueuedOf(kind) : i <= last
<1> DEFINE S == QueuedOf(kind)
           c == CHOOSE k \in S : \A i \in S : i <= k
<1>1. S \subseteq 1 .. Len(queue) /\ Len(queue) \in Nat /\ S # {}
  BY DEF QueuedOf, BrowserType
<1>2. \E k \in S : \A i \in S : i <= k
  <2> HIDE DEF S
  <2>1. QED
    BY <1>1, HasLast
<1>3. c \in S /\ \A i \in S : i <= c
  BY <1>2
<1>4. LastOf(S) = queue[c]
  BY DEF LastOf
<1>5. QED
  BY <1>3, <1>4

\* Of each group the last request starts; the others of it never do.
LEMMA StartLeaves ==
    ASSUME BrowserType, Start, NEW g \in Groups
    PROVE /\ \A kind : QueuedOf(kind)' = {}
          /\ flying'[g] = IF QueuedOf(g) = {} THEN flying[g]
                          ELSE [effect |-> LastOf(QueuedOf(g)), since |-> server.generation]
          /\ QueuedOf(g) = {} => flying'[g] = flying[g] /\ (InFlight(g)' = InFlight(g))
          /\ QueuedOf(g) # {} =>
               /\ InFlight(g)' /\ flying'[g].effect \in Effects /\ flying'[g].effect.kind = g
               /\ flying'[g].since \in Nat \ {0}
               /\ \E last \in QueuedOf(g) : /\ flying'[g].effect = queue[last]
                                            /\ \A i \in QueuedOf(g) : i <= last
<1>1. \A kind : QueuedOf(kind)' = {}
  BY DEF Start, QueuedOf
<1>2. flying'[g] = IF QueuedOf(g) = {} THEN flying[g]
                   ELSE [effect |-> LastOf(QueuedOf(g)), since |-> server.generation]
  BY DEF Start
<1>3. QueuedOf(g) = {} => flying'[g] = flying[g] /\ (InFlight(g)' = InFlight(g))
  BY <1>2 DEF InFlight
<1>4. ASSUME QueuedOf(g) # {}
      PROVE /\ InFlight(g)' /\ flying'[g].effect \in Effects /\ flying'[g].effect.kind = g
            /\ flying'[g].since \in Nat \ {0}
            /\ \E last \in QueuedOf(g) : /\ flying'[g].effect = queue[last]
                                         /\ \A i \in QueuedOf(g) : i <= last
  <2>1. PICK last \in QueuedOf(g) : /\ LastOf(QueuedOf(g)) = queue[last]
                                    /\ \A i \in QueuedOf(g) : i <= last
    BY <1>4, LastIs
  <2>2. flying'[g] = [effect |-> queue[last], since |-> server.generation]
    BY <1>2, <1>4, <2>1
  <2>3. queue[last] \in Effects /\ queue[last].kind = g /\ server.generation \in Nat \ {0}
    BY DEF QueuedOf, BrowserType
  <2>4. InFlight(g)'
    BY <2>2, <2>3 DEF InFlight, NothingFlies
  <2>5. QED
    BY <2>1, <2>2, <2>3, <2>4
<1>5. QED
  BY <1>1, <1>2, <1>3, <1>4

LEMMA StartKeeps == BrowserInv /\ Start => BrowserInv'
<1> SUFFICES ASSUME BrowserInv, Start PROVE BrowserInv'
  OBVIOUS
<1>1. /\ BrowserType /\ OnePoll /\ ScopesInOrder /\ ListingIsOfTheView /\ ViewIsOfItsRoute
  BY DEF BrowserInv
<1>2. /\ ui' = ui /\ server' = server /\ queue' = <<>>
      /\ timers' = timers \cup {queue[i].known : i \in QueuedOf("delay")}
      /\ url' = IF QueuedOf("history") = {} THEN url ELSE LastOf(QueuedOf("history")).route
      /\ DOMAIN flying' = Groups
  BY DEF Start
<1>3. ASSUME NEW kind PROVE \A i \in QueuedOf(kind) : queue[i] \in Effects /\ queue[i].kind = kind
  BY <1>1 DEF QueuedOf, BrowserType
<1>4. BrowserType'
  <2>1. timers' \subseteq Nat \ {0}
    <3>1. \A i \in QueuedOf("delay") : queue[i].known \in Nat \ {0}
      BY <1>3, FieldsOfEffects
    <3>2. {queue[i].known : i \in QueuedOf("delay")} \subseteq Nat \ {0}
      BY <3>1
    <3>3. QED
      BY <1>1, <1>2, <3>2 DEF BrowserType
  <2>2. url' \in Routes
    <3>1. CASE QueuedOf("history") = {}
      BY <1>1, <1>2, <3>1 DEF BrowserType
    <3>2. CASE QueuedOf("history") # {}
      <4>1. PICK last \in QueuedOf("history") : LastOf(QueuedOf("history")) = queue[last]
        BY <1>1, <3>2, LastIs
      <4>2. queue[last].route \in Routes
        BY <1>3, FieldsOfEffects
      <4>3. QED
        BY <1>2, <3>2, <4>1, <4>2
    <3>3. QED
      BY <3>1, <3>2
  <2>3. ASSUME NEW g \in Groups, InFlight(g)'
        PROVE /\ flying'[g].effect \in Effects /\ flying'[g].effect.kind = g
              /\ flying'[g].since \in Nat \ {0}
    <3>1. CASE QueuedOf(g) = {}
      BY <1>1, <2>3, <3>1, StartLeaves DEF BrowserType
    <3>2. CASE QueuedOf(g) # {}
      BY <1>1, <3>2, StartLeaves
    <3>3. QED
      BY <3>1, <3>2
  <2>4. flying' \in [Groups -> [effect : Effects \cup {NoEffect}, since : Nat]]
    <3>1. \A g \in Groups :
            flying'[g] = IF QueuedOf(g) = {} THEN flying[g]
                         ELSE [effect |-> LastOf(QueuedOf(g)), since |-> server.generation]
      BY <1>1, StartLeaves
    <3>2. ASSUME NEW g \in Groups
          PROVE flying'[g] \in [effect : Effects \cup {NoEffect}, since : Nat]
      <4>1. CASE QueuedOf(g) = {}
        BY <1>1, <3>1, <4>1 DEF BrowserType
      <4>2. CASE QueuedOf(g) # {}
        <5>1. PICK last \in QueuedOf(g) : LastOf(QueuedOf(g)) = queue[last]
          BY <1>1, <4>2, LastIs
        <5>2. queue[last] \in Effects /\ server.generation \in Nat
          BY <1>1, <1>3 DEF BrowserType
        <5>3. flying'[g] = [effect |-> queue[last], since |-> server.generation]
          BY <3>1, <4>2, <5>1
        <5>4. QED
          BY <5>2, <5>3
      <4>3. QED
        BY <4>1, <4>2
    <3>3. flying' = [g \in Groups |-> flying'[g]]
      BY DEF Start
    <3>4. QED
      BY <3>2, <3>3
  <2>5. queue' \in Seq(Effects)
    BY <1>2
  <2>6. QED
    BY <1>1, <1>2, <2>1, <2>2, <2>3, <2>4, <2>5 DEF BrowserType
<1>5. OnePoll'
  <2>1. "watch" \in Groups
    BY DEF Groups
  <2>2. CASE QueuedOf("watch") = {}
    <3>1. QueuedOf("watch")' = {} /\ flying'["watch"] = flying["watch"]
            /\ InFlight("watch")' = InFlight("watch")
      BY <1>1, <2>1, <2>2, StartLeaves
    <3>2. QED
      BY <1>1, <1>2, <2>2, <3>1 DEF OnePoll
  <2>3. CASE QueuedOf("watch") # {}
    <3>1. QueuedOf("watch")' = {} /\ InFlight("watch")'
      BY <1>1, <2>1, <2>3, StartLeaves
    <3>2. PICK last \in QueuedOf("watch") : flying'["watch"].effect = queue[last]
      BY <1>1, <2>1, <2>3, StartLeaves, ZenonT(60)
    <3>3. queue[last].known = ui.follow.pending /\ ui.follow.pending # 0
      BY <1>1, <2>3 DEF OnePoll
    <3>4. QED
      BY <1>2, <3>1, <3>2, <3>3 DEF OnePoll
  <2>4. QED
    BY <2>2, <2>3
<1>6. ScopesInOrder'
  <2>1. ASSUME NEW kind \in Loads
        PROVE QueuedOf(kind)' = {} /\ (InFlight(kind)' => flying'[kind].effect.scope <= ui'.scope)
    <3>1. kind \in Groups
      BY DEF Groups, Loads
    <3>2. CASE QueuedOf(kind) = {}
      BY <1>1, <1>2, <2>1, <3>1, <3>2, StartLeaves DEF ScopesInOrder
    <3>3. CASE QueuedOf(kind) # {}
      BY <1>1, <1>2, <2>1, <3>1, <3>3, StartLeaves DEF ScopesInOrder
    <3>4. QED
      BY <3>2, <3>3
  <2>2. QED
    BY <2>1 DEF ScopesInOrder
<1>7. Settled' => Settled
  <2>1. SUFFICES ASSUME NEW kind \in Loads, NEW e \in Outstanding(kind), e.scope = ui.scope
                 PROVE \E a \in Outstanding(kind)' : a.scope = ui'.scope
    BY <1>2 DEF Settled, Loads
  <2>2. kind \in Groups /\ ui.scope \in Nat
    BY <1>1, UiFields DEF Groups, Loads
  <2>3. CASE QueuedOf(kind) = {}
    <3>1. InFlight(kind) /\ e = flying[kind].effect
      BY <2>1, <2>3 DEF Outstanding
    <3>2. InFlight(kind)' /\ flying'[kind].effect = e
      BY <1>1, <2>2, <2>3, <3>1, StartLeaves
    <3>3. e \in Outstanding(kind)'
      BY <3>2 DEF Outstanding
    <3>4. QED
      BY <1>2, <2>1, <3>3
  <2>4. CASE QueuedOf(kind) # {}
    <3>1. PICK last \in QueuedOf(kind) : /\ flying'[kind].effect = queue[last]
                                         /\ \A i \in QueuedOf(kind) : i <= last
      BY <1>1, <2>2, <2>4, StartLeaves
    <3>2. InFlight(kind)'
      BY <1>1, <2>2, <2>4, StartLeaves
    <3>3. queue[last].scope \in Nat /\ queue[last].scope <= ui.scope /\ last \in Nat
      BY <1>1, <1>3, FieldsOfEffects DEF ScopesInOrder, Loads, QueuedOf, BrowserType
    <3>4. e.scope <= queue[last].scope
      <4>1. CASE InFlight(kind) /\ e = flying[kind].effect
        BY <1>1, <4>1 DEF ScopesInOrder
      <4>2. CASE \E i \in QueuedOf(kind) : e = queue[i]
        <5>1. PICK i \in QueuedOf(kind) : e = queue[i]
          BY <4>2
        <5>2. i <= last /\ i \in Nat
          BY <1>1, <3>1 DEF QueuedOf, BrowserType
        <5>3. CASE i = last
          BY <3>3, <5>1, <5>3
        <5>4. CASE i < last
          BY <1>1, <5>1, <5>4 DEF ScopesInOrder
        <5>5. QED
          BY <3>3, <5>2, <5>3, <5>4
      <4>3. QED
        BY <2>1, <4>1, <4>2 DEF Outstanding
    <3>5. queue[last].scope = ui.scope
      BY <2>1, <2>2, <3>3, <3>4
    <3>6. queue[last] \in Outstanding(kind)'
      BY <3>1, <3>2 DEF Outstanding
    <3>7. QED
      BY <1>2, <3>5, <3>6
  <2>5. QED
    BY <2>3, <2>4
<1>8. ViewIsOfItsRoute' /\ ListingIsOfTheView'
  BY <1>1, <1>2, <1>7 DEF ViewIsOfItsRoute, ListingIsOfTheView
<1>9. QED
  BY <1>4, <1>5, <1>6, <1>8 DEF BrowserInv

\* What the user does, or a delay, changes nothing of what flies.
LEMMA StillReduces ==
    ASSUME BrowserType, UNCHANGED <<server, flying, timers>>, url' \in Routes
    PROVE /\ Reduces /\ flying'["watch"] = flying["watch"] /\ InFlight("watch")' = InFlight("watch")
          /\ \A kind \in Loads : flying'[kind] = flying[kind] /\ InFlight(kind)' = InFlight(kind)
BY DEF Reduces, BrowserType, InFlight

LEMMA NavigateKeeps ==
    ASSUME BrowserInv, NEW route \in Routes, Navigate(route) \/ PopState(route)
    PROVE BrowserInv'
<1>1. BrowserType /\ ui \in UiStates /\ url \in Routes
  BY DEF BrowserInv, BrowserType
<1>2. UNCHANGED <<server, flying, timers>> /\ url' \in Routes
  BY <1>1 DEF Navigate, PopState
<1>3. \E history \in Histories, auto \in BOOLEAN : LoadRoute(ui, route, history, auto)
  <2>1. "push" \in Histories /\ "none" \in Histories /\ (route = "page") \in BOOLEAN
          /\ FALSE \in BOOLEAN
    BY DEF Histories
  <2>2. \/ LoadRoute(ui, route, "push", route = "page")
        \/ LoadRoute(ui, route, "none", FALSE)
    BY DEF Navigate, PopState
  <2>3. QED
    BY <2>1, <2>2
<1>4. PICK history \in Histories, auto \in BOOLEAN : LoadRoute(ui, route, history, auto)
  BY <1>3
<1>5. QED
  BY <1>1, <1>2, <1>4, StillReduces, LoadRouteKeeps

\* The next batch is of the listing that is shown.
LEMMA MoreSectorsKeeps == BrowserInv /\ MoreSectors => BrowserInv'
<1> SUFFICES ASSUME BrowserInv, MoreSectors PROVE BrowserInv'
  OBVIOUS
<1>1. /\ BrowserType /\ OnePoll /\ ScopesInOrder /\ ListingIsOfTheView /\ ViewIsOfItsRoute
      /\ ui \in UiStates /\ ui.scope \in Nat /\ url \in Routes
  BY UiFields DEF BrowserInv, BrowserType
<1>2. RequestMoreSectors /\ UNCHANGED <<server, flying, timers, url>>
  BY DEF MoreSectors
<1>3. /\ Reduces /\ flying'["watch"] = flying["watch"] /\ InFlight("watch")' = InFlight("watch")
      /\ \A kind \in Loads : flying'[kind] = flying[kind] /\ InFlight(kind)' = InFlight(kind)
  BY <1>1, <1>2, StillReduces
<1>4. CASE Step(ui, <<>>)
  BY <1>3, <1>4, NothingHappens
<1>5. CASE /\ ui.view.route = "volume"
           /\ Step([ui EXCEPT !.cursor = ui.view.generation],
                   <<ReadBatch(ui.scope, ui.view.generation)>>)
  <2> DEFINE next == [ui EXCEPT !.cursor = ui.view.generation]
             e == ReadBatch(ui.scope, ui.view.generation)
  <2>1. ui.view.generation \in Nat \ {0}
    BY <1>1, <1>5, UiFields DEF ListingIsOfTheView, Nowhere
  <2>2. /\ next \in UiStates /\ next.scope = ui.scope /\ next.view = ui.view
        /\ next.follow = ui.follow /\ next.error = ui.error /\ next.kept = ui.kept
        /\ next.route = ui.route /\ next.snapshot = ui.snapshot
        /\ next.cursor = ui.view.generation
    BY <1>1, <2>1 DEF UiStates
  <2>3. e \in Effects /\ e.kind = "collection"
    BY <1>1, <2>1 DEF ReadBatch, Effects
  <2>4. Step(next, <<e>>)
    BY <1>5
  <2> HIDE DEF next, e
  <2>5. <<e>> \in Seq(Effects) /\ DOMAIN <<e>> = {1} /\ <<e>>[1] = e
    BY <2>3, NoEffectsAreEffects
  <2>6. BrowserType'
    BY <1>1, <1>3, <2>2, <2>4, <2>5, TypeIsKept
  <2>7. OnePoll'
    <3>1. \A j \in DOMAIN <<e>> : <<e>>[j].kind # "watch"
      BY <2>3, <2>5
    <3>2. QED
      BY <1>1, <1>3, <2>2, <2>4, <2>5, <3>1, PollIsLeft
  <2>8. ScopesInOrder'
    <3>1. \A j \in DOMAIN <<e>> : <<e>>[j].kind \in Loads => <<e>>[j].scope = next.scope
      BY <2>3, <2>5 DEF Loads
    <3>2. next.scope >= ui.scope
            /\ \A kind \in Loads : InFlight(kind)' => InFlight(kind) /\ flying'[kind] = flying[kind]
      BY <1>1, <1>3, <2>2
    <3>3. QED
      BY <1>1, <2>2, <2>4, <2>5, <3>1, <3>2, ScopesAreKept
  <2>9. ViewIsOfItsRoute'
    <3>1. \A kind \in Loads : InFlight(kind) /\ flying[kind].effect.scope = ui.scope =>
            InFlight(kind)' /\ flying'[kind] = flying[kind]
      BY <1>3
    <3>2. next.snapshot \in {ui.snapshot, ui.view.generation}
      BY <2>2
    <3>3. QED
      BY <1>1, <2>2, <2>4, <2>5, <3>1, <3>2, ViewIsLeft
  <2>10. ListingIsOfTheView'
    BY <1>1, <2>2, <2>4 DEF ListingIsOfTheView, Step
  <2>11. QED
    BY <2>6, <2>7, <2>8, <2>9, <2>10 DEF BrowserInv
<1>6. QED
  BY <1>2, <1>4, <1>5 DEF RequestMoreSectors

LEMMA PauseKeeps == BrowserInv /\ Pause => BrowserInv'
<1> SUFFICES ASSUME BrowserInv, Pause PROVE BrowserInv'
  OBVIOUS
<1> DEFINE next == [ui EXCEPT !.follow.paused = ~@]
<1>1. /\ BrowserType /\ ui \in UiStates /\ url \in Routes /\ ui.route \in Routes
      /\ ui.follow \in Follows
  BY UiFields DEF BrowserInv, BrowserType
<1>2. TogglePause /\ UNCHANGED <<server, flying, timers, url>>
  BY DEF Pause
<1>3. /\ Reduces /\ flying'["watch"] = flying["watch"] /\ InFlight("watch")' = InFlight("watch")
      /\ \A kind \in Loads : flying'[kind] = flying[kind] /\ InFlight(kind)' = InFlight(kind)
  BY <1>1, <1>2, StillReduces
<1>4. /\ [ui.follow EXCEPT !.paused = ~@] \in Follows
      /\ [ui.follow EXCEPT !.paused = ~@].pending = ui.follow.pending
  <2>1. (~ui.follow.paused) \in BOOLEAN
    OBVIOUS
  <2>2. QED
    BY <1>1, <2>1 DEF Follows
<1>5. /\ next \in UiStates /\ next.scope = ui.scope /\ next.view = ui.view
      /\ next.cursor = ui.cursor /\ next.error = ui.error /\ next.kept = ui.kept
      /\ next.route = ui.route /\ next.snapshot = ui.snapshot
      /\ next.follow = [ui.follow EXCEPT !.paused = ~@]
  BY <1>1, <1>4 DEF UiStates
<1>6. \/ Step(ui, <<>>)
      \/ LoadRoute(next, ui.route, "none", FALSE)
      \/ Step(next, <<>>)
  BY <1>2 DEF TogglePause
<1> HIDE DEF next
<1>7. CASE Step(ui, <<>>)
  BY <1>3, <1>7, NothingHappens
<1>8. CASE LoadRoute(next, ui.route, "none", FALSE)
  <2>1. "none" \in Histories /\ FALSE \in BOOLEAN
    BY DEF Histories
  <2>2. next.follow.pending = ui.follow.pending
    BY <1>4, <1>5
  <2>3. QED
    BY <1>1, <1>3, <1>5, <1>8, <2>1, <2>2, LoadRouteKeeps
<1>9. CASE Step(next, <<>>)
  <2>1. next.follow.pending = ui.follow.pending
    BY <1>4, <1>5
  <2>2. next.cursor \in {0, ui.cursor} /\ next.snapshot \in {ui.snapshot, ui.view.generation}
    BY <1>5
  <2>3. QED
    BY <1>3, <1>5, <1>9, <2>1, <2>2, QuietStepKeeps
<1>10. QED
  BY <1>6, <1>7, <1>8, <1>9

LEMMA RequestEnrichmentKeeps == BrowserInv /\ RequestEnrichment => BrowserInv'
<1> SUFFICES ASSUME BrowserInv, RequestEnrichment PROVE BrowserInv'
  OBVIOUS
<1>1. BrowserType /\ url \in Routes /\ ui.route \in Routes
  BY UiFields DEF BrowserInv, BrowserType
<1>2. /\ Step(ui, <<Enrich(ui.scope, ui.route, "none", Nowhere)>>)
      /\ UNCHANGED <<server, flying, timers, url>>
  BY DEF RequestEnrichment
<1>3. "none" \in Histories /\ Nowhere \in Routes \cup {Nowhere}
  BY DEF Histories
<1>4. QED
  BY <1>1, <1>2, <1>3, StillReduces, EnrichKeeps

\* A generation is published, and the viewer does not know of it yet.
LEMMA RepublishKeeps == BrowserInv /\ Republish => BrowserInv'
<1> SUFFICES ASSUME BrowserInv, Republish PROVE BrowserInv'
  OBVIOUS
<1>1. UNCHANGED <<ui, queue, flying, timers, url>>
  BY DEF Republish
<1>2. server' \in [generation : Nat \ {0}, following : BOOLEAN]
  <2>1. server \in [generation : Nat \ {0}, following : BOOLEAN]
    BY DEF BrowserInv, BrowserType
  <2>2. server.generation + 1 \in Nat \ {0}
    BY <2>1
  <2>3. QED
    BY <2>1, <2>2 DEF Republish
<1>3. BrowserType'
  BY <1>1, <1>2 DEF BrowserInv, BrowserType, InFlight
<1>4. OnePoll' /\ ListingIsOfTheView'
  BY <1>1 DEF BrowserInv, OnePoll, ListingIsOfTheView, QueuedOf, InFlight
<1>5. ScopesInOrder'
  BY <1>1 DEF BrowserInv, ScopesInOrder, QueuedOf, InFlight
<1>6. ViewIsOfItsRoute'
  BY <1>1 DEF BrowserInv, ViewIsOfItsRoute, Settled, Outstanding, QueuedOf, InFlight
<1>7. QED
  BY <1>3, <1>4, <1>5, <1>6 DEF BrowserInv

LEMMA BrowserStutters == BrowserInv /\ UNCHANGED browserVars => BrowserInv'
<1> SUFFICES ASSUME BrowserInv, UNCHANGED browserVars PROVE BrowserInv'
  OBVIOUS
<1>1. UNCHANGED <<server, ui, queue, flying, timers, url>>
  BY DEF browserVars
<1>2. BrowserType' /\ OnePoll' /\ ListingIsOfTheView'
  BY <1>1 DEF BrowserInv, BrowserType, OnePoll, ListingIsOfTheView, QueuedOf, InFlight
<1>3. ScopesInOrder' /\ ViewIsOfItsRoute'
  BY <1>1 DEF BrowserInv, ScopesInOrder, ViewIsOfItsRoute, Settled, Outstanding, QueuedOf, InFlight
<1>4. QED
  BY <1>2, <1>3 DEF BrowserInv

\* A viewer starts by reading the route it is opened at.
LEMMA BrowserInitially == BrowserInit => BrowserInv
<1> SUFFICES ASSUME BrowserInit PROVE BrowserInv
  OBVIOUS
<1>1. PICK route \in Routes : /\ ui = Initially(route) /\ url = route
                              /\ queue = <<ReadRoute(1, route, FALSE)>>
  BY DEF BrowserInit
<1> DEFINE e == ReadRoute(1, route, FALSE)
           follow == [enabled |-> FALSE, paused |-> FALSE, watched |-> 0, pending |-> 0]
<1>2. /\ server \in [generation : {1}, following : BOOLEAN] /\ timers = {}
      /\ flying = [g \in Groups |-> NothingFlies]
  BY DEF BrowserInit
<1>3. /\ ui.scope = 1 /\ ui.view = NoView /\ ui.cursor = 0 /\ ui.follow = follow
  BY <1>1 DEF Initially
<1>4. ui \in UiStates
  <2>1. follow \in Follows /\ NoView \in Views /\ "restore" \in Histories
    BY DEF Follows, NoView, Views, Histories
  <2>2. 1 \in Nat /\ 0 \in Nat /\ FALSE \in BOOLEAN
    OBVIOUS
  <2>3. ui = [route |-> route, scope |-> 1, history |-> "restore", auto |-> FALSE,
              error |-> FALSE, kept |-> FALSE, snapshot |-> 0, view |-> NoView, cursor |-> 0,
              follow |-> follow]
    BY <1>1 DEF Initially
  <2> HIDE DEF follow
  <2>4. QED
    BY <2>1, <2>2, <2>3 DEF UiStates
<1>5. e \in Effects /\ e.kind = "route" /\ e.scope = 1 /\ queue = <<e>>
  BY <1>1 DEF ReadRoute, Effects
<1> HIDE DEF e
<1>6. queue \in Seq(Effects) /\ DOMAIN queue = {1} /\ queue[1] = e
  BY <1>5, NoEffectsAreEffects
<1>7. \A g \in Groups : flying[g] = NothingFlies /\ ~InFlight(g)
  BY <1>2 DEF InFlight
<1>8. BrowserType
  <2>1. NothingFlies \in [effect : Effects \cup {NoEffect}, since : Nat]
    BY DEF NothingFlies
  <2>2. flying \in [Groups -> [effect : Effects \cup {NoEffect}, since : Nat]]
    BY <1>2, <2>1
  <2>3. server \in [generation : Nat \ {0}, following : BOOLEAN]
    BY <1>2
  <2>4. timers \subseteq Nat \ {0} /\ url \in Routes /\ queue \in Seq(Effects)
    BY <1>1, <1>2, <1>6
  <2>5. QED
    BY <1>4, <1>7, <2>2, <2>3, <2>4, Zenon DEF BrowserType
<1>9. QueuedOf("watch") = {} /\ QueuedOf("enrichment") = {} /\ QueuedOf("route") = {1}
  BY <1>5, <1>6 DEF QueuedOf
<1>10. OnePoll
  <2>1. ui.follow.pending = 0 /\ ~InFlight("watch")
    BY <1>3, <1>7 DEF Groups
  <2>2. QED
    BY <1>9, <2>1 DEF OnePoll
<1>11. ScopesInOrder
  <2>1. \A kind \in Loads : ~InFlight(kind) /\ QueuedOf(kind) \subseteq {1}
    BY <1>7, <1>9 DEF Loads, Groups
  <2>2. queue[1].scope = 1 /\ ui.scope = 1
    BY <1>3, <1>5, <1>6
  <2>3. QED
    BY <2>1, <2>2 DEF ScopesInOrder
<1>12. ListingIsOfTheView
  BY <1>3 DEF ListingIsOfTheView, NoView
<1>13. ViewIsOfItsRoute
  <2>1. e \in Outstanding("route") /\ e.scope = ui.scope
    BY <1>3, <1>5, <1>6, <1>9 DEF Outstanding
  <2>2. QED
    BY <2>1 DEF ViewIsOfItsRoute, Settled
<1>14. QED
  BY <1>8, <1>10, <1>11, <1>12, <1>13 DEF BrowserInv

LEMMA BrowserStep == BrowserInv /\ [BrowserNext]_browserVars => BrowserInv'
<1> SUFFICES ASSUME BrowserInv, [BrowserNext]_browserVars PROVE BrowserInv'
  OBVIOUS
<1>1. CASE Republish
  BY <1>1, RepublishKeeps
<1>2. CASE Start
  BY <1>2, StartKeeps
<1>3. CASE RouteAnswer
  BY <1>3, RouteAnswerKeeps
<1>4. CASE BatchAnswer
  BY <1>4, BatchAnswerKeeps
<1>5. CASE WatchAnswer
  BY <1>5, WatchAnswerKeeps
<1>6. CASE EnrichAnswer
  BY <1>6, EnrichAnswerKeeps
<1>7. CASE \E known \in timers : DelayEnds(known)
  BY <1>7, DelayEndsKeeps
<1>8. CASE \E route \in Routes : Navigate(route) \/ PopState(route)
  BY <1>8, NavigateKeeps
<1>9. CASE MoreSectors
  BY <1>9, MoreSectorsKeeps
<1>10. CASE Pause
  BY <1>10, PauseKeeps
<1>11. CASE RequestEnrichment
  BY <1>11, RequestEnrichmentKeeps
<1>12. CASE UNCHANGED browserVars
  BY <1>12, BrowserStutters
<1>13. QED
  BY <1>1, <1>2, <1>3, <1>4, <1>5, <1>6, <1>7, <1>8, <1>9, <1>10, <1>11, <1>12 DEF BrowserNext

\* The viewer is typed; it has the one poll it knows of; its loads are queued, started and
\* answered in the order of their scopes; a listing is continued from the generation shown; and
\* what is shown is of the viewer's route.  It is so after every answer, in whatever order.
THEOREM BrowserIsSound == BrowserSpec => []BrowserInv
<1>1. QED
  BY BrowserInitially, BrowserStep, PTL DEF BrowserSpec

\* When nothing more is to come, what is shown is of the route the viewer is at and of the
\* generation its header names, or the viewer says why not.
THEOREM ViewFollowsItsRoute == BrowserSpec => []ViewIsOfItsRoute
<1>1. BrowserInv => ViewIsOfItsRoute
  BY DEF BrowserInv
<1>2. QED
  BY <1>1, BrowserIsSound, PTL

\* There is never more than one poll, and it is the one whose answer will be taken.
THEOREM PollsOneAtATime == BrowserSpec => []PollIsSingle
<1>1. ASSUME BrowserInv PROVE PollIsSingle
  <2>1. BrowserType /\ OnePoll
    BY <1>1 DEF BrowserInv
  <2>2. \A e \in Outstanding("watch") : e.known = ui.follow.pending
    BY <2>1 DEF OnePoll, Outstanding
  <2>3. Cardinality(QueuedOf("watch")) + (IF InFlight("watch") THEN 1 ELSE 0) =
          (IF ui.follow.pending = 0 THEN 0 ELSE 1)
    <3>1. CASE QueuedOf("watch") = {}
      <4>1. Cardinality(QueuedOf("watch")) = 0
        BY <3>1, FS_EmptySet
      <4>2. InFlight("watch") <=> ui.follow.pending # 0
        BY <2>1, <3>1 DEF OnePoll
      <4>3. QED
        BY <4>1, <4>2
    <3>2. CASE QueuedOf("watch") # {}
      <4>1. PICK i \in DOMAIN queue : QueuedOf("watch") = {i}
        BY <2>1, <3>2 DEF OnePoll
      <4>2. Cardinality(QueuedOf("watch")) = 1
        BY <4>1, FS_Singleton
      <4>3. ui.follow.pending # 0 /\ ~InFlight("watch")
        BY <2>1, <3>2 DEF OnePoll
      <4>4. QED
        BY <4>2, <4>3
    <3>3. QED
      BY <3>1, <3>2
  <2>4. QED
    BY <2>2, <2>3 DEF PollIsSingle
<1>2. QED
  BY <1>1, BrowserIsSound, PTL

-----------------------------------------------------------------------------
(* A paused viewer. *)

\* What a paused viewer may do to what it shows.
Stays(next) ==
    next.snapshot = ui.snapshot /\ next.view.generation \in {ui.view.generation, ui.snapshot}

\* A load that starts shows nothing else yet.
LEMMA LoadRouteStays ==
    ASSUME BrowserType, NEW s \in UiStates, NEW route, NEW history, NEW auto,
           LoadRoute(s, route, history, auto), s.snapshot = ui.snapshot, s.view = ui.view
    PROVE Stays(ui')
<1>1. ui' = Loading(s, route, history, auto)
  BY DEF LoadRoute, Step
<1>2. /\ Loading(s, route, history, auto).snapshot = s.snapshot
      /\ Loading(s, route, history, auto).view = s.view
  BY DEF Loading, UiStates
<1>3. QED
  BY <1>1, <1>2 DEF Stays

LEMMA NothingShownStays ==
    ASSUME NEW next, NEW effects, Step(next, effects), next.snapshot = ui.snapshot,
           next.view = ui.view
    PROVE Stays(ui')
BY DEF Step, Stays

\* An answer that the gate lets through is of the generation the viewer holds.
LEMMA RouteAnswerStays ==
    ASSUME BrowserType, RouteAnswer, ui.follow.paused, ui.snapshot # 0
    PROVE Stays(ui')
<1>1. ui \in UiStates
  BY DEF BrowserType
<1> DEFINE e == flying["route"].effect
<1>2. \/ KeepPaused
      \/ \E deep \in BOOLEAN : RouteLoaded(e.scope, e.route, ui.snapshot, deep)
      \/ RouteFailed(e.scope)
      \/ RouteNeedsEnrichment(e.scope, e.route)
  BY DEF RouteAnswer, KeepsGeneration
<1>3. CASE KeepPaused
  <2>1. [ui EXCEPT !.kept = TRUE].snapshot = ui.snapshot /\ [ui EXCEPT !.kept = TRUE].view = ui.view
    BY <1>1 DEF UiStates
  <2>2. QED
    BY <1>3, <2>1, NothingShownStays DEF KeepPaused
<1>4. ASSUME NEW deep \in BOOLEAN, RouteLoaded(e.scope, e.route, ui.snapshot, deep)
      PROVE Stays(ui')
  <2>1. CASE e.scope # ui.scope
    BY <1>4, <2>1, NothingShownStays DEF RouteLoaded
  <2>2. CASE e.scope = ui.scope
    <3> DEFINE v == [route |-> e.route, generation |-> ui.snapshot, more |-> e.route = "volume"]
               next(f) == [ui EXCEPT !.route = e.route, !.snapshot = ui.snapshot,
                                     !.error = FALSE, !.view = v, !.cursor = 0,
                                     !.kept = FALSE, !.follow = f]
    <3>1. PICK f : ui' = next(f)
      BY <1>1, <1>4, <2>2 DEF RouteLoaded, Step, UiStates
    <3>2. v.generation = ui.snapshot
      OBVIOUS
    <3> HIDE DEF v
    <3>3. ui'.snapshot = ui.snapshot /\ ui'.view = v
      BY <1>1, <3>1 DEF UiStates
    <3>4. QED
      BY <3>2, <3>3 DEF Stays
  <2>3. QED
    BY <2>1, <2>2
<1>5. CASE RouteFailed(e.scope)
  <2>1. [ui EXCEPT !.error = TRUE].snapshot = ui.snapshot /\ [ui EXCEPT !.error = TRUE].view = ui.view
    BY <1>1 DEF UiStates
  <2>2. QED
    BY <1>5, <2>1, NothingShownStays DEF RouteFailed
<1>6. CASE RouteNeedsEnrichment(e.scope, e.route)
  BY <1>6, NothingShownStays DEF RouteNeedsEnrichment
<1>7. QED
  BY <1>2, <1>3, <1>4, <1>5, <1>6

LEMMA BatchAnswerStays ==
    ASSUME BrowserType, BatchAnswer, ui.follow.paused, ui.snapshot # 0
    PROVE Stays(ui')
<1>1. ui \in UiStates /\ ui.view \in Views
  BY UiFields DEF BrowserType
<1> DEFINE e == flying["collection"].effect
<1>2. \/ KeepPaused
      \/ SectorBatchLoaded(e.scope, ui.snapshot)
      \/ \E evicted : SectorBatchFailed(e.scope, e.cursor, evicted)
  BY DEF BatchAnswer, KeepsGeneration
<1>3. CASE KeepPaused
  <2>1. [ui EXCEPT !.kept = TRUE].snapshot = ui.snapshot /\ [ui EXCEPT !.kept = TRUE].view = ui.view
    BY <1>1 DEF UiStates
  <2>2. QED
    BY <1>3, <2>1, NothingShownStays DEF KeepPaused
<1>4. CASE SectorBatchLoaded(e.scope, ui.snapshot)
  <2>1. CASE Step(ui, <<>>)
    BY <2>1, NothingShownStays
  <2>2. CASE Step([ui EXCEPT !.snapshot = ui.snapshot, !.cursor = 0, !.view.more = FALSE], <<>>)
    <3>1. [ui.view EXCEPT !.more = FALSE].generation = ui.view.generation
      BY <1>1 DEF Views
    <3>2. ui'.snapshot = ui.snapshot /\ ui'.view = [ui.view EXCEPT !.more = FALSE]
      BY <1>1, <2>2 DEF Step, UiStates
    <3>3. QED
      BY <3>1, <3>2 DEF Stays
  <2>3. QED
    BY <1>4, <2>1, <2>2 DEF SectorBatchLoaded
<1>5. ASSUME NEW evicted, SectorBatchFailed(e.scope, e.cursor, evicted)
      PROVE Stays(ui')
  <2>1. [ui EXCEPT !.cursor = 0].snapshot = ui.snapshot /\ [ui EXCEPT !.cursor = 0].view = ui.view
    BY <1>1 DEF UiStates
  <2>2. \/ Step(ui, <<>>) \/ LoadRoute(ui, ui.route, "none", FALSE)
        \/ Step([ui EXCEPT !.cursor = 0], <<>>)
    BY <1>5 DEF SectorBatchFailed
  <2>3. QED
    BY <1>1, <2>1, <2>2, LoadRouteStays, NothingShownStays
<1>6. QED
  BY <1>2, <1>3, <1>4, <1>5

LEMMA WatchAnswerStays ==
    ASSUME BrowserType, WatchAnswer
    PROVE Stays(ui')
<1>1. ui \in UiStates
  BY DEF BrowserType
<1> DEFINE e == flying["watch"].effect
<1>2. \/ \E generation : WatchLoaded(e.known, generation)
      \/ WatchFailed(e.known)
  BY DEF WatchAnswer
<1>3. ASSUME NEW generation, WatchLoaded(e.known, generation)
      PROVE Stays(ui')
  <2> DEFINE f == [enabled |-> server.following, paused |-> ui.follow.paused,
                   watched |-> generation,
                   pending |-> IF server.following THEN generation ELSE 0]
             next == [ui EXCEPT !.follow = f]
  <2>1. \/ ui' = ui
        \/ ui' = next
        \/ ui' = Loading(next, ui.route, "none", FALSE)
    BY <1>1, <1>3 DEF WatchLoaded, Step, UiStates
  <2> HIDE DEF f
  <2>2. next.snapshot = ui.snapshot /\ next.view = ui.view /\ DOMAIN next = DOMAIN ui
    BY <1>1 DEF UiStates
  <2>3. \A route, history :
          /\ Loading(next, route, history, FALSE).snapshot = ui.snapshot
          /\ Loading(next, route, history, FALSE).view = ui.view
    BY <1>1 DEF Loading, UiStates
  <2> HIDE DEF next
  <2>4. QED
    BY <2>1, <2>2, <2>3 DEF Stays
<1>4. CASE WatchFailed(e.known)
  <2>1. /\ [ui EXCEPT !.follow.pending = 0].snapshot = ui.snapshot
        /\ [ui EXCEPT !.follow.pending = 0].view = ui.view
    BY <1>1 DEF UiStates
  <2>2. QED
    BY <1>4, <2>1, NothingShownStays DEF WatchFailed
<1>5. QED
  BY <1>2, <1>3, <1>4

LEMMA EnrichAnswerStays ==
    ASSUME BrowserType, EnrichAnswer, ui.follow.paused, ui.snapshot # 0
    PROVE Stays(ui')
<1>1. ui \in UiStates
  BY DEF BrowserType
<1> DEFINE e == flying["enrichment"].effect
           same == [ui EXCEPT !.snapshot = ui.snapshot]
<1>2. \/ KeepPaused
      \/ Step(ui, <<>>)
      \/ LoadRoute(same, e.route, e.history, FALSE)
      \/ Step([ui EXCEPT !.error = TRUE], <<>>)
      \/ LoadRoute(ui, e.fallback, "replace", FALSE)
  BY DEF EnrichAnswer, KeepsGeneration, EnrichmentLoaded, EnrichmentFailed
<1>3. same = ui
  BY <1>1 DEF UiStates
<1>4. CASE KeepPaused
  <2>1. [ui EXCEPT !.kept = TRUE].snapshot = ui.snapshot /\ [ui EXCEPT !.kept = TRUE].view = ui.view
    BY <1>1 DEF UiStates
  <2>2. QED
    BY <1>4, <2>1, NothingShownStays DEF KeepPaused
<1>5. CASE Step([ui EXCEPT !.error = TRUE], <<>>)
  <2>1. [ui EXCEPT !.error = TRUE].snapshot = ui.snapshot /\ [ui EXCEPT !.error = TRUE].view = ui.view
    BY <1>1 DEF UiStates
  <2>2. QED
    BY <1>5, <2>1, NothingShownStays
<1>6. CASE LoadRoute(same, e.route, e.history, FALSE) \/ LoadRoute(ui, e.fallback, "replace", FALSE)
  <2> HIDE DEF same
  <2>1. QED
    BY <1>1, <1>3, <1>6, LoadRouteStays
<1>7. CASE Step(ui, <<>>)
  BY <1>7, NothingShownStays
<1>8. QED
  BY <1>2, <1>4, <1>5, <1>6, <1>7

\* A paused viewer's generation does not change, and what it shows can at most catch up with it.
THEOREM PausedStays == BrowserSpec => PausedGenerationStays
<1> DEFINE Kept == (ui.follow.paused /\ ui'.follow.paused /\ ui.snapshot # 0) =>
                     /\ ui'.snapshot = ui.snapshot
                     /\ ui'.view.generation \in {ui.view.generation, ui.snapshot}
<1>1. BrowserInv /\ [BrowserNext]_browserVars => [Kept]_browserVars
  <2> SUFFICES ASSUME BrowserInv, [BrowserNext]_browserVars,
                      ui.follow.paused, ui'.follow.paused, ui.snapshot # 0
               PROVE Stays(ui')
    BY DEF Stays
  <2>1. BrowserType /\ ui \in UiStates /\ ui.follow \in Follows
    BY UiFields DEF BrowserInv, BrowserType
  <2>2. CASE ui' = ui
    BY <2>2 DEF Stays
  <2>3. CASE RouteAnswer \/ BatchAnswer \/ WatchAnswer \/ EnrichAnswer
    BY <2>1, <2>3, RouteAnswerStays, BatchAnswerStays, WatchAnswerStays, EnrichAnswerStays
  <2>4. ASSUME NEW known, DelayEnds(known) PROVE Stays(ui')
    <3>1. /\ [ui EXCEPT !.follow.pending = known].snapshot = ui.snapshot
          /\ [ui EXCEPT !.follow.pending = known].view = ui.view
      BY <2>1 DEF UiStates
    <3>2. QED
      BY <2>4, <3>1, NothingShownStays DEF DelayEnds, RetryWatch
  <2>5. ASSUME NEW route, Navigate(route) \/ PopState(route) PROVE Stays(ui')
    BY <2>1, <2>5, LoadRouteStays DEF Navigate, PopState
  <2>6. CASE MoreSectors
    <3>1. /\ [ui EXCEPT !.cursor = ui.view.generation].snapshot = ui.snapshot
          /\ [ui EXCEPT !.cursor = ui.view.generation].view = ui.view
      BY <2>1 DEF UiStates
    <3>2. QED
      BY <2>6, <3>1, NothingShownStays DEF MoreSectors, RequestMoreSectors
  <2>7. CASE Pause
    <3> DEFINE next == [ui EXCEPT !.follow.paused = ~@]
    <3>1. /\ [ui.follow EXCEPT !.paused = ~@] \in Follows
          /\ [ui.follow EXCEPT !.paused = ~@].paused = ~ui.follow.paused
      <4>1. (~ui.follow.paused) \in BOOLEAN
        OBVIOUS
      <4>2. QED
        BY <2>1, <4>1 DEF Follows
    <3>2. /\ next.snapshot = ui.snapshot /\ next.view = ui.view
          /\ next.follow = [ui.follow EXCEPT !.paused = ~@] /\ next \in UiStates
      BY <2>1, <3>1 DEF UiStates
    <3>3. Step(ui, <<>>) \/ LoadRoute(next, ui.route, "none", FALSE) \/ Step(next, <<>>)
      BY <2>7 DEF Pause, TogglePause
    <3> HIDE DEF next
    <3>4. QED
      BY <2>1, <3>2, <3>3, LoadRouteStays, NothingShownStays
  <2>8. CASE RequestEnrichment
    BY <2>8, NothingShownStays DEF RequestEnrichment
  <2>9. CASE Republish \/ Start \/ UNCHANGED browserVars
    BY <2>2, <2>9 DEF Republish, Start, browserVars
  <2>10. QED
    BY <2>3, <2>4, <2>5, <2>6, <2>7, <2>8, <2>9 DEF BrowserNext
<1>2. QED
  BY <1>1, BrowserIsSound, PTL DEF PausedGenerationStays, BrowserSpec
=============================================================================
