----------------------------- MODULE TerminalHost -----------------------------
(********************************************************************************)
(* The terminal host around the session (tui/focused/terminal.rs): the lease on *)
(* the terminal's modes, the event loop, and one worker thread for deep reads.  *)
(* The loop handles one event at a time and looks at the worker only when there *)
(* is none; the thread runs beside it.                                          *)
(********************************************************************************)
EXTENDS TerminalSession

CONSTANT Mouse  \* whether the terminal has a mouse

VARIABLES
    lease,   \* the modes that are on, how far enter came, what would not go off
    loop,    \* the phase of run_with_host and how the session ended
    screen,  \* the surface, the committed frame and an event kept by a resize
    job,     \* the worker's thread and channel
    ses      \* the session

hostVars == <<lease, loop, screen, job, ses>>

TooSmall == [columns |-> 0, rows |-> 0, list |-> 0, attributes |-> 0]
NoCommit == [scene |-> FreshSession, hits |-> {0}, valid |-> FALSE]
NoJob == [state |-> "none", request |-> NoRequest, base |-> BaseView, cancelled |-> FALSE,
          result |-> "none", view |-> BaseView]
NoScreen == [surface |-> TooSmall, committed |-> NoCommit, kept |-> "none"]
Modes == {"raw", "alternate", "mouse", "hidden"}

-----------------------------------------------------------------------------
(* The lease: which modes enter turned on, and what close turns off for each *)
(* state enter can have been left in.                                        *)

Entering == IF Mouse THEN <<"raw", "alternate", "mouse", "hidden">>
            ELSE <<"raw", "alternate", "hidden">>

Lifecycle(n) ==  \* after n operations
    CASE n = 0 -> "new" [] n = 1 -> "raw" [] n = 2 -> "alternate"
      [] n = 3 /\ Mouse -> "mouse"
      [] OTHER -> IF Mouse THEN "hidden-with-mouse" ELSE "hidden-without-mouse"

Undone(state) ==
    (IF state \in {"hidden-with-mouse", "hidden-without-mouse"} THEN {"hidden"} ELSE {})
      \cup (IF state \in {"mouse", "hidden-with-mouse"} THEN {"mouse"} ELSE {})
      \cup (IF state \notin {"new", "raw", "closed"} THEN {"alternate"} ELSE {})
      \cup (IF state \notin {"new", "closed"} THEN {"raw"} ELSE {})

\* Every operation is tried, whichever of them fail.
\* (A plausible mistake first: the first failure ends the cleanup.)
CloseUntilFailure(failing) ==
    lease' = [on |-> IF failing = {} THEN lease.on \ Undone(lease.state) ELSE lease.on,
              stuck |-> failing \cap Undone(lease.state), state |-> "closed"]

Close(failing) ==
    lease' = [on |-> lease.on \ (Undone(lease.state) \ failing),
              stuck |-> failing \cap Undone(lease.state), state |-> "closed"]

\* A terminal without its modes: n operations succeed, the next fails or there is none.
EnterTerminal(n) ==
    /\ loop.phase = "enter"
    /\ lease' = [on |-> {Entering[i] : i \in 1..n}, stuck |-> {}, state |-> Lifecycle(n)]
    /\ loop' = IF n = Len(Entering) THEN [loop EXCEPT !.phase = "start"]
               ELSE [phase |-> "close", outcome |-> "host"]
    /\ UNCHANGED <<screen, job, ses>>

-----------------------------------------------------------------------------
(* Frames. *)

\* What of the session a frame shows (the members of FocusedState).
Visible(s) == [s EXCEPT !.active = NoRequest, !.pending = NoRequest]

\* What each renderer draws where a pointer can hit it.
SectorHits(s, l) == s.top .. (LowerOf(s.top + Capacity(l), TotalSectors(s)) - 1)
PageHits == Grid
RowHits(s, l) ==
    IF s.interp # Closed \/ s.shown = NoPage THEN {}
    ELSE s.topItem .. LowerOf(s.topItem + l.list - 1, Len(Items))

Hits(s, l) ==
    IF s.help \/ l = TooSmall THEN {}
    ELSE IF s.mode = "volume" THEN SectorHits(s, l)
    ELSE IF s.mode = "sector" THEN PageHits
    ELSE RowHits(s, l)

Commit(s, l) == [scene |-> Visible(s), hits |-> Hits(s, l), valid |-> TRUE]

\* A plausible mistake: only a change of mode is worth a frame.
RenderOnModeChange(s) ==
    screen' = IF s.mode # ses.mode THEN [screen EXCEPT !.committed = Commit(s, screen.surface)]
              ELSE screen

RenderIfChanged(s) ==
    screen' = IF Visible(s) # Visible(ses)
              THEN [screen EXCEPT !.committed = Commit(s, screen.surface)] ELSE screen

StartLoop(l) ==
    /\ loop.phase = "start"
    /\ screen' = [surface |-> l, committed |-> Commit(ses, l), kept |-> "none"]
    /\ loop' = [loop EXCEPT !.phase = "loop"]
    /\ UNCHANGED <<lease, job, ses>>

-----------------------------------------------------------------------------
(* The worker. *)

\* The cancel token is shared with the request: cancelling reaches the thread.
Cancelled(s) == IF ses.active # NoRequest /\ s.active # ses.active
                THEN [job EXCEPT !.cancelled = TRUE] ELSE job

JobOf(s) == [state |-> "running", request |-> s.pending, base |-> s.view,
             cancelled |-> FALSE, result |-> "none", view |-> BaseView]

\* dispatch_request: a request taken from the session starts a thread, unless one is
\* still there, which ends the session.
Dispatch(s) ==
    IF s.quit
    THEN loop' = [phase |-> "close", outcome |-> "quit"] /\ job' = Cancelled(s) /\ ses' = s
    ELSE IF s.pending = NoRequest
    THEN job' = (IF job.state = "none" THEN job ELSE Cancelled(s)) /\ ses' = s /\ UNCHANGED loop
    ELSE /\ ses' = [s EXCEPT !.pending = NoRequest]
         /\ IF job.state # "none"
            THEN job' = Cancelled(s) /\ loop' = [phase |-> "close", outcome |-> "busy"]
            ELSE job' = JobOf(s) /\ UNCHANGED loop

\* The thread ends: with a candidate that has the fact, or not (the input changed), or
\* with an error; a cancelled one may still have got to its end.
JobEnds(result) ==
    /\ job.state = "running"
    /\ job.request.item = 0 => result # "limited"
    /\ LET p == job.request.page
           record == <<p, job.request.item>> IN
       job' = [job EXCEPT !.state = "done", !.result = result,
                 !.view = CASE result = "invalidated" -> [job.base EXCEPT !.valid = FALSE]
                            [] result = "limited" -> [job.base EXCEPT !.limited = @ \cup {record}]
                            [] result = "facts" /\ job.request.item = 0 ->
                                  [job.base EXCEPT !.deep = @ \cup {p}]
                            [] result = "facts" /\ job.request.item # 0 ->
                                  [job.base EXCEPT !.ready = @ \cup {record}]
                            [] OTHER -> job.base]
    /\ UNCHANGED <<lease, loop, screen, ses>>

-----------------------------------------------------------------------------
(* drive: one turn of the loop. *)

\* A surface that is too small leaves only quitting.
Handle(event) ==
    LET l == screen.surface
        s == IF l = TooSmall
             THEN IF event = [kind |-> "act", what |-> "quit"] THEN Quit(ses) ELSE ses
             ELSE CASE event.kind = "act" -> Advance(ses, event.what, l)
                    [] event.kind = "point" -> PointAt(ses, event.what, l)
                    [] OTHER -> ses IN
    /\ RenderIfChanged(s)
    /\ Dispatch(s)
    /\ UNCHANGED lease

InLoop == loop.phase = "loop" /\ screen.kept = "none"

Key(k) == InLoop /\ Handle([kind |-> "act", what |-> k])

Wheel(w) == InLoop /\ screen.committed.valid /\ Handle([kind |-> "act", what |-> w])

Click == InLoop /\ \E hit \in screen.committed.hits : Handle([kind |-> "point", what |-> hit])

\* An event read while resizes were coalesced comes first; a pointer among them carries
\* no generation and is dropped.
KeptEvent ==
    /\ loop.phase = "loop" /\ screen.kept # "none"
    /\ LET s == IF screen.kept = "pointer" \/ (screen.surface = TooSmall /\ screen.kept # "quit")
                THEN ses ELSE IF screen.surface = TooSmall THEN Quit(ses)
                ELSE Advance(ses, screen.kept, screen.surface) IN
       /\ screen' = [surface |-> screen.surface, kept |-> "none",
                     committed |-> IF Visible(s) # Visible(ses) THEN Commit(s, screen.surface)
                                   ELSE screen.committed]
       /\ Dispatch(s)
    /\ UNCHANGED lease

Resize(l, kept) ==
    /\ InLoop
    /\ screen' = [surface |-> l, committed |-> Commit(ses, l), kept |-> kept]
    /\ UNCHANGED <<lease, loop, job, ses>>

\* No event within INPUT_WAIT: the worker's answer is taken and perhaps adopted.
Completed ==
    IF job.cancelled \/ ~StillWanted(ses, job.request) THEN ses
    ELSE IF job.result = "error" THEN Failed(ses, job.request)
    ELSE IF Adoptable(job.request, job.view) THEN Adopted(ses, job.request, job.view)
    ELSE [ses EXCEPT !.quit = TRUE]

Idle ==
    /\ InLoop /\ job.state = "done"
    /\ IF Completed.quit
       THEN /\ loop' = [phase |-> "close", outcome |-> "adoption"]
            /\ UNCHANGED <<screen, ses>>
       ELSE RenderIfChanged(Completed) /\ ses' = Completed /\ UNCHANGED loop
    /\ job' = NoJob
    /\ UNCHANGED lease

\* Polling, reading or presenting fails: the session and its frame are of no more use.
HostFails ==
    /\ loop.phase \in {"start", "loop"}
    /\ loop' = [phase |-> "close", outcome |-> "host"]
    /\ screen' = NoScreen /\ ses' = FreshSession
    /\ UNCHANGED <<lease, job>>

\* The worker is joined before the terminal is given back.
Shutdown(failing) ==
    /\ loop.phase = "close" /\ job.state # "running"
    /\ Close(failing)
    /\ loop' = [loop EXCEPT !.phase = "ended"]
    /\ job' = NoJob /\ screen' = NoScreen /\ ses' = FreshSession

HostInit ==
    /\ lease = [on |-> {}, stuck |-> {}, state |-> "new"]
    /\ loop = [phase |-> "enter", outcome |-> "none"]
    /\ screen = NoScreen
    /\ job = NoJob
    /\ ses = FreshSession

Surfaces == Layouts \cup {TooSmall}

HostNext ==
    \/ \E n \in 0..Len(Entering) : EnterTerminal(n)
    \/ \E l \in Surfaces : StartLoop(l)
    \/ \E k \in Keys : Key(k)
    \/ \E w \in Wheels : Wheel(w)
    \/ Click
    \/ \E l \in Surfaces, kept \in {"none", "pointer", "next-sector"} :
         Resize(l, kept)
    \/ KeptEvent
    \/ \E result \in {"facts", "limited", "error", "invalidated"} : JobEnds(result)
    \/ Idle
    \/ HostFails
    \/ \E failing \in SUBSET Modes : Shutdown(failing)

HostSpec == HostInit /\ [][HostNext]_hostVars

-----------------------------------------------------------------------------
(* Properties *)

\* What a page shows belongs to the page in focus, and whatever is shown as loading is
\* really being read: an uncancelled job of this very request is with the worker, and
\* nothing is once the page or the record is left (focused.rs prepare_focused_page,
\* leave_page, complete_enrichment; terminal.rs dispatch_request).
PageOnDisplay ==
    /\ ses.mode # "page" => /\ ses.shown = NoPage /\ ses.interp = Closed
                            /\ ses.load = "idle" /\ ses.active = NoRequest
    /\ ses.mode = "page" /\ ~ses.quit =>
         /\ ses.load # "idle"
         /\ (ses.load = "ready") = (ses.shown = Focused(ses))
         /\ ses.shown \in {NoPage} \cup (ses.view.deep \cap {Focused(ses)})
         /\ (ses.active # NoRequest) = (ses.load = "loading" \/ ses.interp.load = "loading")
         /\ (ses.active # NoRequest /\ loop.phase = "loop") =>
               /\ ses.active.page = Focused(ses)
               /\ job.state # "none" /\ ~job.cancelled /\ job.request = ses.active

\* The frame on the screen, and with it what a pointer can hit, is always that of the
\* session as it is now (terminal.rs handle_event, render, coalesce_resize).
ScreenShowsTheSession ==
    loop.phase = "loop" => screen.committed = Commit(ses, screen.surface)

\* A selection moved by a key or a click is on the screen afterwards: the sector on the
\* map, the row of the page; only scrolling and resizing may take it out of sight
\* (focused.rs reveal_focus, clamp_top, reveal_distribution_focus).
MovedFocusIsVisible ==
    [][(loop'.phase = "loop" /\ screen'.surface # TooSmall /\ ~ses'.help) =>
         /\ ses'.mode = "volume" /\ <<ses.volume, ses.sector>> # <<ses'.volume, ses'.sector>> =>
              ses'.sector \in screen'.committed.hits
         /\ ses'.mode = "page" /\ ses'.interp = Closed /\ ses'.selected \notin {0, ses.selected} =>
              ses'.selected \in screen'.committed.hits]_hostVars

\* Whatever ends the session, the terminal gets back every mode but those whose own
\* operation failed (terminal.rs close, run_with_host).
TerminalIsRestored ==
    loop.phase = "ended" => lease.on \subseteq lease.stuck

\* Moving on from a page that is still being read is ordinary input: it does not end the
\* session (focused.rs tests: input comes before a ready completion, and a cancelled
\* result is only never adopted).
LeavingAPageGoesOn == loop.outcome # "busy"
=============================================================================
