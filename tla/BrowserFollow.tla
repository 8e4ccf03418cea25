----------------------------- MODULE BrowserFollow -----------------------------
(*******************************************************************************)
(* The live viewer in the browser (web/src/model.ts, effects.ts, runtime.ts,   *)
(* foundation.tsx): a reducer that decides, effects it asks for, and answers   *)
(* that come back in any order to whatever state the viewer is in by then.     *)
(*                                                                             *)
(* The server is a generation number that grows and a window of retained ones. *)
(* A request is answered from any generation current while it was under way.   *)
(* What a view holds is its route and its generation; runtime observations are *)
(* BrowserObservation's.                                                       *)
(*******************************************************************************)
EXTENDS Integers, Sequences, FiniteSets

CONSTANTS
    MaxGeneration,  \* bounds the server's publications
    Retained,       \* how many generations it keeps
    MaxScope        \* bounds the loads a user, or a missing fact, sets off

ASSUME BrowserAssumption ==
    MaxGeneration \in Nat \ {0} /\ Retained \in Nat \ {0} /\ MaxScope \in Nat

VARIABLES
    server,   \* its generation, and whether it follows its input
    ui,       \* UiState
    queue,    \* UiState.effects: asked for and not yet started
    flying,   \* the request under way in each group of createRequestSignals
    timers,   \* the delays that run
    url       \* the address the browser shows

browserVars == <<server, ui, queue, flying, timers, url>>

\* A volume, a page and a slot of it; a slot may need its page to be read deeply.
Routes == {"volume", "page", "slot"}
Nowhere == "nowhere"
Fallback == [r \in Routes |-> IF r = "slot" THEN "page" ELSE Nowhere]

NoView == [route |-> Nowhere, generation |-> 0, more |-> FALSE]
NoEffect == [kind |-> "none"]
ReadRoute(scope, route, auto) ==
    [kind |-> "route", scope |-> scope, route |-> route, auto |-> auto]
ReadBatch(scope, cursor) == [kind |-> "collection", scope |-> scope, cursor |-> cursor]
Enrich(scope, route, history, fallback) ==
    [kind |-> "enrichment", scope |-> scope, route |-> route, history |-> history,
     fallback |-> fallback]
Watch(known) == [kind |-> "watch", known |-> known]
DelayWatch(known) == [kind |-> "delay", known |-> known]
WriteHistory(route) == [kind |-> "history", route |-> route]
Groups == {"route", "collection", "enrichment", "watch"}

Initially(route) ==
    [route |-> route, scope |-> 1, history |-> "restore", auto |-> FALSE, error |-> FALSE,
     kept |-> FALSE, snapshot |-> 0, view |-> NoView, cursor |-> 0,
     follow |-> [enabled |-> FALSE, paused |-> FALSE, watched |-> 0, pending |-> 0]]

-----------------------------------------------------------------------------
(* The reducer.  A step is the next UiState and the effects it appends. *)

Step(next, effects) == ui' = next /\ queue' = queue \o effects

Loading(s, route, history, auto) ==
    [s EXCEPT !.route = route, !.scope = @ + 1, !.history = history, !.auto = auto,
              !.error = FALSE, !.cursor = 0, !.kept = FALSE]

LoadRoute(s, route, history, auto) ==
    Step(Loading(s, route, history, auto), <<ReadRoute(s.scope + 1, route, auto)>>)

\* A paused viewer keeps its generation, whatever arrives.
KeepsGeneration(generation) ==
    ui.follow.paused /\ ui.snapshot # 0 /\ generation # ui.snapshot
KeepPaused == Step([ui EXCEPT !.kept = TRUE], <<>>)

RouteLoaded(scope, route, generation, deep) ==
    LET enabled == server.following
        watches == enabled /\ ui.follow.pending = 0
        enriches == ui.auto /\ route = "page" /\ ~deep
        history == IF ui.history = "none" THEN <<>> ELSE <<WriteHistory(route)>>
        watch == IF watches THEN <<Watch(generation)>> ELSE <<>>
        enrich == IF enriches THEN <<Enrich(scope, route, "none", Nowhere)>> ELSE <<>> IN
    IF scope # ui.scope THEN Step(ui, <<>>)
    ELSE Step([ui EXCEPT !.route = route, !.snapshot = generation, !.error = FALSE,
                         !.view = [route |-> route, generation |-> generation,
                                   more |-> route = "volume"],
                         !.cursor = 0, !.kept = FALSE,
                         !.follow = [enabled |-> enabled, paused |-> @.paused,
                                     watched |-> generation,
                                     pending |-> IF watches THEN generation ELSE @.pending]],
              history \o watch \o enrich)

RouteFailed(scope) ==
    Step(IF scope = ui.scope THEN [ui EXCEPT !.error = TRUE] ELSE ui, <<>>)

RouteNeedsEnrichment(scope, route) ==
    Step(ui, IF scope # ui.scope THEN <<>>
             ELSE <<Enrich(scope, route, "replace", Fallback[route])>>)

RequestMoreSectors ==
    IF ui.view.route = "volume" /\ ui.view.more /\ ui.cursor = 0
    THEN Step([ui EXCEPT !.cursor = ui.view.generation],
              <<ReadBatch(ui.scope, ui.view.generation)>>)
    ELSE Step(ui, <<>>)

\* A plausible mistake: whichever listing is shown, the batch is of it.
SectorBatchLoadedUnscoped(scope, cursor) ==
    IF ui.view.route # "volume" THEN Step(ui, <<>>)
    ELSE Step([ui EXCEPT !.snapshot = cursor, !.cursor = 0, !.view.more = FALSE], <<>>)

SectorBatchLoaded(scope, cursor) ==
    IF scope # ui.scope \/ ui.view.route # "volume" \/ ui.cursor # cursor THEN Step(ui, <<>>)
    ELSE Step([ui EXCEPT !.snapshot = cursor, !.cursor = 0, !.view.more = FALSE], <<>>)

SectorBatchFailed(scope, cursor, evicted) ==
    IF scope # ui.scope \/ ui.cursor # cursor THEN Step(ui, <<>>)
    ELSE IF evicted /\ ~ui.follow.paused THEN LoadRoute(ui, ui.route, "none", FALSE)
    ELSE Step([ui EXCEPT !.cursor = 0], <<>>)

WatchLoaded(known, generation) ==
    LET advanced == generation # known /\ generation # ui.snapshot
        enabled == server.following
        next == [ui EXCEPT !.follow = [enabled |-> enabled, paused |-> @.paused,
                                       watched |-> generation,
                                       pending |-> IF enabled THEN generation ELSE 0]]
        watch == IF enabled THEN <<Watch(generation)>> ELSE <<>> IN
    IF ui.follow.pending # known THEN Step(ui, <<>>)
    ELSE IF advanced /\ ~ui.follow.paused
    THEN Step(Loading(next, ui.route, "none", FALSE),
              Append(watch, ReadRoute(ui.scope + 1, ui.route, FALSE)))
    ELSE Step(next, watch)

WatchFailed(known) ==
    IF ui.follow.pending # known THEN Step(ui, <<>>)
    ELSE Step([ui EXCEPT !.follow.pending = 0], <<DelayWatch(known)>>)

\* A plausible mistake: a delay that ends polls, whatever has been asked for meanwhile.
RetryWatchAlways(known) ==
    IF ~ui.follow.enabled THEN Step(ui, <<>>)
    ELSE Step([ui EXCEPT !.follow.pending = known], <<Watch(known)>>)

RetryWatch(known) ==
    IF ~ui.follow.enabled \/ ui.follow.pending # 0 \/ ui.follow.watched # known
    THEN Step(ui, <<>>)
    ELSE Step([ui EXCEPT !.follow.pending = known], <<Watch(known)>>)

TogglePause ==
    LET next == [ui EXCEPT !.follow.paused = ~@] IN
    IF ~ui.follow.enabled THEN Step(ui, <<>>)
    ELSE IF ui.follow.paused THEN LoadRoute(next, ui.route, "none", FALSE)
    ELSE Step(next, <<>>)

\* A plausible mistake: only routes are kept from a paused viewer.
EnrichmentLoadedPaused(scope, generation, route, history) ==
    IF scope # ui.scope THEN Step(ui, <<>>)
    ELSE LoadRoute([ui EXCEPT !.snapshot = generation], route, history, FALSE)

EnrichmentLoaded(scope, generation, route, history) ==
    IF KeepsGeneration(generation) THEN KeepPaused
    ELSE IF scope # ui.scope THEN Step(ui, <<>>)
    ELSE LoadRoute([ui EXCEPT !.snapshot = generation], route, history, FALSE)

EnrichmentFailed(scope, fallback) ==
    IF scope # ui.scope THEN Step(ui, <<>>)
    ELSE IF fallback = Nowhere THEN Step([ui EXCEPT !.error = TRUE], <<>>)
    ELSE LoadRoute(ui, fallback, "replace", FALSE)

-----------------------------------------------------------------------------
(* Effects and answers. *)

QueuedOf(kind) == {i \in DOMAIN queue : queue[i].kind = kind}
LastOf(places) == queue[CHOOSE i \in places : \A j \in places : j <= i]

\* A request of a group aborts the one before it, which then never answers.
Start ==
    /\ queue # <<>>
    /\ flying' = [g \in Groups |->
          IF QueuedOf(g) = {} THEN flying[g]
          ELSE [effect |-> LastOf(QueuedOf(g)), since |-> server.generation]]
    /\ timers' = timers \cup {queue[i].known : i \in QueuedOf("delay")}
    /\ url' = IF QueuedOf("history") = {} THEN url ELSE LastOf(QueuedOf("history")).route
    /\ queue' = <<>>
    /\ UNCHANGED <<server, ui>>

NothingFlies == [effect |-> NoEffect, since |-> 0]
InFlight(g) == flying[g] # NothingFlies
Ends(g) == flying' = [flying EXCEPT ![g] = NothingFlies]
Room == ui.scope < MaxScope

\* The generation an answer is of.
Answered(g) == flying[g].since .. server.generation

RouteAnswer ==
    /\ InFlight("route") /\ Ends("route")
    /\ LET e == flying["route"].effect IN
       \/ \E generation \in Answered("route"), deep \in BOOLEAN :
            IF KeepsGeneration(generation) THEN KeepPaused
            ELSE RouteLoaded(e.scope, e.route, generation, deep)
       \/ RouteFailed(e.scope)
       \/ e.route = "slot" /\ Room /\ RouteNeedsEnrichment(e.scope, e.route)
    /\ UNCHANGED <<server, timers, url>>

\* A listing's cursor is good for as long as its generation is retained.
BatchAnswer ==
    /\ InFlight("collection") /\ Ends("collection")
    /\ LET e == flying["collection"].effect IN
       \/ IF KeepsGeneration(e.cursor) THEN KeepPaused ELSE SectorBatchLoaded(e.scope, e.cursor)
       \/ /\ Room
          /\ \E evicted \in {FALSE, e.cursor + Retained <= server.generation} :
               SectorBatchFailed(e.scope, e.cursor, evicted)
    /\ UNCHANGED <<server, timers, url>>

WatchAnswer ==
    /\ InFlight("watch") /\ Ends("watch")
    /\ LET e == flying["watch"].effect IN
       \/ \E generation \in Answered("watch") : WatchLoaded(e.known, generation)
       \/ WatchFailed(e.known)
    /\ UNCHANGED <<server, timers, url>>

EnrichAnswer ==
    /\ InFlight("enrichment") /\ Ends("enrichment") /\ Room
    /\ LET e == flying["enrichment"].effect IN
       \/ \E generation \in Answered("enrichment") :
            EnrichmentLoaded(e.scope, generation, e.route, e.history)
       \/ EnrichmentFailed(e.scope, e.fallback)
    /\ UNCHANGED <<server, timers, url>>

DelayEnds(known) ==
    /\ known \in timers
    /\ timers' = timers \ {known}
    /\ RetryWatch(known)
    /\ UNCHANGED <<server, flying, url>>

-----------------------------------------------------------------------------
(* The user, who acts on a rendered viewer: its effects have been started (React runs them *)
(* before it renders again), while answers may be reduced together in one batch.           *)

Rendered == queue = <<>>

Navigate(route) ==
    /\ Rendered /\ Room /\ route # ui.route
    /\ LoadRoute(ui, route, "push", route = "page")
    /\ UNCHANGED <<server, flying, timers, url>>

\* The browser's own back and forward: the address has changed already.
PopState(route) ==
    /\ Rendered /\ Room /\ route # url
    /\ url' = route
    /\ LoadRoute(ui, route, "none", FALSE)
    /\ UNCHANGED <<server, flying, timers>>

MoreSectors == Rendered /\ RequestMoreSectors /\ UNCHANGED <<server, flying, timers, url>>

Pause == Rendered /\ Room /\ TogglePause /\ UNCHANGED <<server, flying, timers, url>>

RequestEnrichment ==
    /\ Rendered /\ Room /\ ui.view.route = "slot"
    /\ Step(ui, <<Enrich(ui.scope, ui.route, "none", Nowhere)>>)
    /\ UNCHANGED <<server, flying, timers, url>>

Republish ==
    /\ server.following /\ server.generation < MaxGeneration
    /\ server' = [server EXCEPT !.generation = @ + 1]
    /\ UNCHANGED <<ui, queue, flying, timers, url>>

BrowserInit ==
    /\ server \in [generation : {1}, following : BOOLEAN]
    /\ \E route \in Routes :
         /\ ui = Initially(route) /\ url = route
         /\ queue = <<ReadRoute(1, route, FALSE)>>
    /\ flying = [g \in Groups |-> NothingFlies]
    /\ timers = {}

BrowserNext ==
    \/ Republish \/ Start
    \/ RouteAnswer \/ BatchAnswer \/ WatchAnswer \/ EnrichAnswer
    \/ \E known \in timers : DelayEnds(known)
    \/ \E route \in Routes : Navigate(route) \/ PopState(route)
    \/ MoreSectors \/ Pause \/ RequestEnrichment

BrowserSpec == BrowserInit /\ [][BrowserNext]_browserVars

-----------------------------------------------------------------------------
(* Properties *)

Outstanding(kind) ==
    {queue[i] : i \in QueuedOf(kind)}
      \cup (IF InFlight(kind) THEN {flying[kind].effect} ELSE {})

Settled == ~\E e \in Outstanding("route") \cup Outstanding("enrichment") : e.scope = ui.scope

\* When nothing more is to come, what is shown is of the route the viewer is at and of the
\* generation its header names, or the viewer says why not: an error, or a newer generation
\* that a paused viewer was kept from (route-loaded, enrichment-loaded, loadRoute).
ViewIsOfItsRoute ==
    (Settled /\ ~ui.error /\ ~ui.kept) =>
        ui.view.generation = ui.snapshot /\ ui.view.route = ui.route

\* There is never more than one poll, and it is the one whose answer will be taken
\* (watch-generation effects, pendingGeneration).
PollIsSingle ==
    /\ Cardinality(QueuedOf("watch")) + (IF InFlight("watch") THEN 1 ELSE 0) =
         (IF ui.follow.pending = 0 THEN 0 ELSE 1)
    /\ \A e \in Outstanding("watch") : e.known = ui.follow.pending

\* A paused viewer's generation does not change, and what it shows can at most catch up
\* with it (the gate before every answer; toggle-pause).
PausedGenerationStays ==
    [][(ui.follow.paused /\ ui'.follow.paused /\ ui.snapshot # 0) =>
         /\ ui'.snapshot = ui.snapshot
         /\ ui'.view.generation \in {ui.view.generation, ui.snapshot}]_browserVars

\* A viewer that follows is polling, or a delay runs whose retry will be taken, or a route is
\* being read that will poll again (model.test.ts: a failed generation watch backs off
\* before retrying).
FailedPollIsRetried ==
    ui.follow.enabled /\ ui.follow.pending = 0 =>
      \/ ui.follow.watched \in timers \cup {queue[i].known : i \in QueuedOf("delay")}
      \/ \E e \in Outstanding("route") : e.scope = ui.scope
=============================================================================
