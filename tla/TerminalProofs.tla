---------------------------- MODULE TerminalProofs ----------------------------
(********************************************************************************)
(* Proofs about the terminal viewer, for every number of volumes and sectors,   *)
(* every grid, page content, number of rows and surface: the session's focus is *)
(* on a page there is, what a page shows is what was read of it, the frame on   *)
(* the screen is the session's, a moved selection is in it, and the terminal is *)
(* given back.                                                                  *)
(********************************************************************************)
EXTENDS TerminalHost, TLAPS

(* Sessions. *)

Requests == [page : PageSet \cup {NoPage}, item : Nat]
Interps == [item : Nat, load : {"closed", "loading", "ready", "failed", "unavailable"}, top : Int]
ViewSet == [deep : SUBSET PageSet, ready : SUBSET (PageSet \X Nat),
            limited : SUBSET (PageSet \X Nat), valid : BOOLEAN]
Sessions ==
    [volume : Volumes, sector : Nat, top : Nat, mode : {"volume", "sector", "page"},
     page : Grid, load : {"idle", "loading", "ready", "failed", "unavailable"},
     shown : PageSet \cup {NoPage}, selected : Nat, topItem : Int, interp : Interps,
     help : BOOLEAN, quit : BOOLEAN, active : Requests, pending : Requests, view : ViewSet]

\* The focus is on a sector of its volume.
Focuses(s) == s \in Sessions /\ s.sector < TotalSectors(s)

Blank(s) ==
    /\ s.load = "idle" /\ s.shown = NoPage /\ s.interp = Closed
    /\ s.active = NoRequest /\ s.pending = NoRequest

\* What a page shows is what has been read of it, and what is asked for is what it lacks.
PageIsRead(s) ==
    /\ s.load # "idle"
    /\ s.shown = IF s.load = "ready" THEN Focused(s) ELSE NoPage
    /\ s.load = "ready" => Focused(s) \in s.view.deep
    /\ s.interp # Closed => /\ s.load = "ready" /\ s.interp.load # "closed"
                            /\ s.interp.item # 0 /\ s.interp.item = s.selected
    /\ s.active = IF s.load = "loading" THEN PageRequest(Focused(s))
                  ELSE IF s.interp.load = "loading"
                  THEN [page |-> Focused(s), item |-> s.interp.item] ELSE NoRequest

Sound(s) ==
    /\ Focuses(s)
    /\ IF s.quit \/ s.mode # "page" THEN Blank(s) ELSE PageIsRead(s)

-----------------------------------------------------------------------------
(* The loop's phases, and the terminal's modes. *)

LoopInv == loop \in [phase : {"enter", "start", "loop", "close", "ended"},
                     outcome : {"none", "host", "quit", "busy", "adoption"}]

LEMMA LoopInitially == HostInit => LoopInv
BY DEF HostInit, LoopInv

LEMMA PhaseMoves ==
    ASSUME LoopInv, NEW p \in {"start", "loop", "ended"}
    PROVE [loop EXCEPT !.phase = p] \in [phase : {"enter", "start", "loop", "close", "ended"},
                                       outcome : {"none", "host", "quit", "busy", "adoption"}]
BY DEF LoopInv

LEMMA LoopStep == LoopInv /\ [HostNext]_hostVars => LoopInv'
<1> SUFFICES ASSUME LoopInv, [HostNext]_hostVars PROVE LoopInv'
  OBVIOUS
<1>1. \/ loop' = loop
      \/ \E p \in {"start", "loop", "ended"} : loop' = [loop EXCEPT !.phase = p]
      \/ loop' \in [phase : {"close"}, outcome : {"host", "quit", "busy", "adoption"}]
  <2>1. ASSUME NEW event, Handle(event) PROVE \E s : Dispatch(s)
    BY <2>1 DEF Handle
  <2>2. ASSUME NEW s, Dispatch(s)
        PROVE loop' = loop \/ loop' \in [phase : {"close"}, outcome : {"quit", "busy"}]
    BY <2>2 DEF Dispatch
  <2>3. CASE \E s : Dispatch(s)
    BY <2>2, <2>3
  <2>4. CASE \/ \E k \in Keys : Key(k)
             \/ \E w \in Wheels : Wheel(w)
             \/ Click
             \/ KeptEvent
    BY <2>1, <2>3, <2>4 DEF Key, Wheel, Click, KeptEvent
  <2>5. CASE \/ \E n \in 0 .. Len(Entering) : EnterTerminal(n)
             \/ \E l \in Surfaces : StartLoop(l)
             \/ \E failing \in SUBSET Modes : Shutdown(failing)
    BY <2>5 DEF EnterTerminal, StartLoop, Shutdown
  <2>6. CASE \/ \E l \in Surfaces, kept \in {"none", "pointer", "next-sector"} : Resize(l, kept)
             \/ \E result \in {"facts", "limited", "error", "invalidated"} : JobEnds(result)
             \/ Idle
             \/ HostFails
             \/ UNCHANGED hostVars
    BY <2>6 DEF Resize, JobEnds, Idle, HostFails, hostVars
  <2>7. QED
    BY <2>4, <2>5, <2>6 DEF HostNext
<1>2. QED
  BY <1>1, PhaseMoves DEF LoopInv

LEMMA LoopIsTyped == HostSpec => []LoopInv
BY LoopInitially, LoopStep, PTL DEF HostSpec

LeaseInv ==
    /\ loop.phase = "enter" => lease.on = {}
    /\ loop.phase \in {"start", "loop", "close"} => lease.on \subseteq Undone(lease.state)
    /\ loop.phase = "ended" => lease.on \subseteq lease.stuck
    /\ loop.phase \in {"enter", "start", "loop", "close", "ended"}

\* However far entering came, its cleanup knows of every mode that is on.
LEMMA EnteredIsUndone ==
    ASSUME NEW n \in 0 .. Len(Entering)
    PROVE {Entering[i] : i \in 1 .. n} \subseteq Undone(Lifecycle(n))
<1>1. CASE Mouse
  <2>1. Entering = <<"raw", "alternate", "mouse", "hidden">> /\ n \in 0 .. 4
    BY <1>1 DEF Entering
  <2>2. \A i \in 1 .. n : i \in {1, 2, 3, 4}
    BY <2>1
  <2>3. CASE n = 0
    BY <2>3
  <2>4. CASE n = 1
    BY <2>1, <2>4 DEF Undone, Lifecycle
  <2>5. CASE n = 2
    BY <2>1, <2>5 DEF Undone, Lifecycle
  <2>6. CASE n = 3
    BY <1>1, <2>1, <2>6 DEF Undone, Lifecycle
  <2>7. CASE n = 4
    BY <1>1, <2>1, <2>7 DEF Undone, Lifecycle
  <2>8. QED
    BY <2>1, <2>3, <2>4, <2>5, <2>6, <2>7
<1>2. CASE ~Mouse
  <2>1. Entering = <<"raw", "alternate", "hidden">> /\ n \in 0 .. 3
    BY <1>2 DEF Entering
  <2>2. CASE n = 0
    BY <2>2
  <2>3. CASE n \in {1, 2}
    BY <2>1, <2>3 DEF Undone, Lifecycle
  <2>4. CASE n = 3
    BY <1>2, <2>1, <2>4 DEF Undone, Lifecycle
  <2>5. QED
    BY <2>1, <2>2, <2>3, <2>4
<1>3. QED
  BY <1>1, <1>2

LEMMA LeaseInitially == HostInit => LeaseInv
BY DEF HostInit, LeaseInv

\* What an event leaves of the loop.
LEMMA DispatchLeaves ==
    ASSUME NEW s, Dispatch(s), loop.phase = "loop"
    PROVE loop' = loop \/ loop' \in [phase : {"close"}, outcome : {"quit", "busy"}]
BY DEF Dispatch

LEMMA LeaseStep == LeaseInv /\ LoopInv /\ [HostNext]_hostVars => LeaseInv'
<1> SUFFICES ASSUME LeaseInv, LoopInv, [HostNext]_hostVars PROVE LeaseInv'
  OBVIOUS
<1>1. ASSUME NEW n \in 0 .. Len(Entering), EnterTerminal(n) PROVE LeaseInv'
  <2>1. /\ lease'.on = {Entering[i] : i \in 1 .. n} /\ lease'.state = Lifecycle(n)
        /\ loop'.phase \in {"start", "close"}
    BY <1>1 DEF EnterTerminal, LoopInv
  <2>2. QED
    BY <2>1, EnteredIsUndone DEF LeaseInv
<1>2. ASSUME UNCHANGED lease, loop.phase \in {"start", "loop"},
             loop' = loop \/ loop'.phase \in {"loop", "close"}
      PROVE LeaseInv'
  BY <1>2 DEF LeaseInv
<1>3. ASSUME NEW l, StartLoop(l) PROVE LeaseInv'
  BY <1>3 DEF StartLoop, LeaseInv, LoopInv
<1>4. ASSUME NEW s, Dispatch(s), loop.phase = "loop", UNCHANGED lease PROVE LeaseInv'
  BY <1>2, <1>4, DispatchLeaves
<1>5. ASSUME NEW event, Handle(event), loop.phase = "loop" PROVE LeaseInv'
  BY <1>4, <1>5 DEF Handle
<1>6. CASE \/ \E k \in Keys : Key(k)
           \/ \E w \in Wheels : Wheel(w)
           \/ Click
  BY <1>5, <1>6 DEF Key, Wheel, Click, InLoop
<1>7. CASE KeptEvent
  BY <1>4, <1>7 DEF KeptEvent
<1>8. CASE Idle \/ HostFails
  BY <1>2, <1>8 DEF Idle, HostFails, InLoop
<1>9. ASSUME NEW failing, Shutdown(failing) PROVE LeaseInv'
  BY <1>9 DEF Shutdown, Close, LeaseInv, LoopInv
<1>10. CASE UNCHANGED <<lease, loop>>
  BY <1>10 DEF LeaseInv
<1>11. QED
  BY <1>1, <1>3, <1>6, <1>7, <1>8, <1>9, <1>10 DEF HostNext, hostVars, Resize, JobEnds

\* Whatever ends the session, and however far it had come to be entered, the terminal gets
\* back every mode but those whose own operation failed.
THEOREM TerminalComesBack == HostSpec => []TerminalIsRestored
<1>1. LeaseInv => TerminalIsRestored
  BY DEF LeaseInv, TerminalIsRestored
<1>2. QED
  BY <1>1, LeaseInitially, LeaseStep, LoopIsTyped, PTL DEF HostSpec

-----------------------------------------------------------------------------
(* Moves of the focus. *)

LEMMA RemainderIs ==
    ASSUME NEW k \in Nat, NEW c \in Nat \ {0}
    PROVE k % c \in 0 .. (c - 1) /\ k % c <= k
<1>1. k % c \in 0 .. (c - 1) /\ k = c * (k \div c) + (k % c) /\ k \div c \in Int
  OBVIOUS
<1>2. k \div c >= 0
  BY <1>1
<1>3. QED
  BY <1>1, <1>2

\* A surface that shows something.
Shows(l) == {l.columns, l.rows, l.list, l.attributes} \subseteq Nat \ {0}

LEMMA CapacityIs ==
    ASSUME NEW l, Shows(l)
    PROVE /\ Capacity(l) \in Nat \ {0} /\ (l.rows - 1) * l.columns \in Nat
          /\ l.columns \in Nat \ {0} /\ l.rows \in Nat \ {0} /\ l.list \in Nat \ {0}
          /\ l.attributes \in Nat \ {0}
          /\ Capacity(l) = (l.rows - 1) * l.columns + l.columns
<1>1. l.columns \in Nat \ {0} /\ l.rows \in Nat \ {0} /\ l.list \in Nat \ {0}
        /\ l.attributes \in Nat \ {0}
  BY DEF Shows
<1>2. \A c \in Nat \ {0}, r \in Nat \ {0} :
        c * r \in Nat \ {0} /\ (r - 1) * c \in Nat /\ c * r = (r - 1) * c + c
  OBVIOUS
<1>3. QED
  BY <1>1, <1>2 DEF Capacity

LEMMA TotalIs ==
    ASSUME NEW s \in Sessions
    PROVE TotalSectors(s) \in Nat \ {0} /\ s.volume \in 1 .. Len(SectorCounts)
BY TerminalAssumption DEF Sessions, Volumes, TotalSectors

LEMMA FocusedIsAPage ==
    ASSUME NEW s, Focuses(s)
    PROVE Focused(s) \in PageSet /\ Focused(s) # NoPage
<1>1. s.volume \in Volumes /\ s.sector \in 0 .. (SectorCounts[s.volume] - 1) /\ s.page \in Grid
  BY TotalIs DEF Focuses, Sessions, TotalSectors
<1>2. <<s.volume, s.sector>> \in Sectors
  BY <1>1 DEF Sectors
<1>3. Focused(s) \in PageSet
  BY <1>1, <1>2 DEF Focused, PageSet
<1>4. s.volume # 0
  BY TotalIs DEF Focuses
<1>5. QED
  BY <1>3, <1>4 DEF Focused, NoPage

\* What a move leaves as it was.
Keeps(s, t) ==
    /\ t.mode = s.mode /\ t.load = s.load /\ t.shown = s.shown /\ t.interp = s.interp
    /\ t.active = s.active /\ t.pending = s.pending /\ t.view = s.view
    /\ t.quit = s.quit /\ t.help = s.help /\ t.selected = s.selected /\ t.topItem = s.topItem

LEMMA TopMoves ==
    ASSUME NEW s \in Sessions, NEW n \in Nat
    PROVE /\ [s EXCEPT !.top = n] \in Sessions
          /\ [s EXCEPT !.top = n].top = n /\ [s EXCEPT !.top = n].volume = s.volume
          /\ [s EXCEPT !.top = n].sector = s.sector /\ [s EXCEPT !.top = n].page = s.page
          /\ Keeps(s, [s EXCEPT !.top = n])
          /\ \A m : [[s EXCEPT !.top = n] EXCEPT !.top = m] = [s EXCEPT !.top = m]
BY DEF Sessions, Keeps

LEMMA SectorMoves ==
    ASSUME NEW s \in Sessions, NEW k \in Nat
    PROVE /\ [s EXCEPT !.sector = k] \in Sessions
          /\ [s EXCEPT !.sector = k].top = s.top /\ [s EXCEPT !.sector = k].volume = s.volume
          /\ [s EXCEPT !.sector = k].sector = k /\ [s EXCEPT !.sector = k].page = s.page
          /\ Keeps(s, [s EXCEPT !.sector = k])
BY DEF Sessions, Keeps

LEMMA PageMoves ==
    ASSUME NEW s \in Sessions, NEW p \in Grid
    PROVE /\ [s EXCEPT !.page = p] \in Sessions
          /\ [s EXCEPT !.page = p].top = s.top /\ [s EXCEPT !.page = p].volume = s.volume
          /\ [s EXCEPT !.page = p].sector = s.sector /\ [s EXCEPT !.page = p].page = p
          /\ Keeps(s, [s EXCEPT !.page = p])
BY DEF Sessions, Keeps

LEMMA VolumeMoves ==
    ASSUME NEW s \in Sessions, NEW v \in Volumes
    PROVE /\ AtVolume(s, v) \in Sessions
          /\ AtVolume(s, v).top = 0 /\ AtVolume(s, v).volume = v
          /\ AtVolume(s, v).sector = 0 /\ AtVolume(s, v).page = s.page
          /\ Keeps(s, AtVolume(s, v))
BY DEF Sessions, Keeps, AtVolume

InFrame(s, l) == s.sector \in SectorHits(s, l)

\* A move of the focus on the map: where it goes is shown.
Moves(s, t, l) ==
    /\ Focuses(t) /\ Keeps(s, t)
    /\ <<s.volume, s.sector>> # <<t.volume, t.sector>> => InFrame(t, l)

LEMMA NoMove ==
    ASSUME NEW s, NEW l, Focuses(s)
    PROVE Moves(s, s, l)
BY DEF Moves, Keeps

LEMMA MovesFollow ==
    ASSUME NEW s, NEW t, NEW u, NEW l, Keeps(s, t), Moves(t, u, l), InFrame(u, l)
    PROVE Moves(s, u, l)
BY DEF Moves, Keeps

LEMMA TopOnly ==
    ASSUME NEW s, NEW n \in Nat, NEW l, Focuses(s)
    PROVE Focuses([s EXCEPT !.top = n]) /\ Moves(s, [s EXCEPT !.top = n], l)
BY TopMoves DEF Focuses, Moves, TotalSectors

LEMMA ClampTopIs ==
    ASSUME NEW s, NEW l, Focuses(s), Shows(l)
    PROVE \E n \in Nat : /\ ClampTop(s, l) = [s EXCEPT !.top = n]
                         /\ n = LowerOf(s.top, Minus(TotalSectors(s), Capacity(l)))
<1>1. s.top \in Nat /\ TotalSectors(s) \in Nat /\ Capacity(l) \in Nat
  BY TotalIs, CapacityIs DEF Focuses, Sessions
<1>2. LowerOf(s.top, Minus(TotalSectors(s), Capacity(l))) \in Nat
  BY <1>1 DEF LowerOf, Minus
<1>3. QED
  BY <1>2 DEF ClampTop

\* The focus is revealed by the frame that starts where revealFocus puts it.
LEMMA RevealedTop ==
    ASSUME NEW s, NEW l, NEW n \in Nat, Focuses(s), Shows(l),
           n <= s.sector, s.sector < n + Capacity(l)
    PROVE InFrame([s EXCEPT !.top = n], l)
<1> DEFINE t == [s EXCEPT !.top = n]
<1>1. t.top = n /\ t.sector = s.sector /\ t.volume = s.volume
  BY TopMoves DEF Focuses
<1>2. TotalSectors(t) = TotalSectors(s) /\ s.sector < TotalSectors(s)
  BY <1>1 DEF TotalSectors, Focuses
<1>3. s.sector \in Nat /\ TotalSectors(s) \in Nat /\ Capacity(l) \in Nat
  BY TotalIs, CapacityIs DEF Focuses, Sessions
<1> HIDE DEF t
<1>4. t.sector \in t.top .. (LowerOf(t.top + Capacity(l), TotalSectors(t)) - 1)
  BY <1>1, <1>2, <1>3 DEF LowerOf
<1>5. QED
  BY <1>4 DEF t, InFrame, SectorHits

LEMMA RevealFocusMoves ==
    ASSUME NEW s, NEW l, Focuses(s), Shows(l)
    PROVE Moves(s, RevealFocus(s, l), l) /\ InFrame(RevealFocus(s, l), l)
<1> DEFINE total == TotalSectors(s)
           capacity == Capacity(l)
           row == s.sector - (s.sector % l.columns)
           rows == (l.rows - 1) * l.columns
<1>1. /\ s \in Sessions /\ s.sector \in Nat /\ s.top \in Nat /\ total \in Nat \ {0}
      /\ s.sector < total /\ capacity \in Nat \ {0} /\ l.columns \in Nat \ {0}
      /\ rows \in Nat /\ capacity = rows + l.columns
  BY TotalIs, CapacityIs DEF Focuses, Sessions
<1>2. row \in Nat /\ row <= s.sector /\ s.sector < row + l.columns
  <2>1. (s.sector % l.columns) \in 0 .. (l.columns - 1) /\ s.sector % l.columns <= s.sector
    BY <1>1, RemainderIs
  <2>2. QED
    BY <1>1, <2>1
<1>3. \E n \in Nat : /\ RevealFocus(s, l) = [s EXCEPT !.top = n]
                     /\ n <= s.sector /\ s.sector < n + capacity
  <2>1. CASE s.sector < s.top
    <3>1. RevealFocus(s, l) = [s EXCEPT !.top = s.sector]
      BY <2>1 DEF RevealFocus
    <3>2. QED
      BY <1>1, <3>1
  <2>2. CASE ~(s.sector < s.top) /\ s.sector >= s.top + capacity
    <3> DEFINE t == [s EXCEPT !.top = Minus(row, rows)]
    <3>1. RevealFocus(s, l) = ClampTop(t, l)
      BY <2>2 DEF RevealFocus
    <3> HIDE DEF row, rows, total, capacity
    <3>2. Minus(row, rows) \in Nat /\ Minus(row, rows) <= s.sector
            /\ s.sector < Minus(row, rows) + capacity
      BY <1>1, <1>2 DEF Minus
    <3>3. Focuses(t) /\ t.top = Minus(row, rows) /\ TotalSectors(t) = total
            /\ \A m : [t EXCEPT !.top = m] = [s EXCEPT !.top = m]
      BY <1>1, <3>2, TopMoves, TopOnly DEF TotalSectors, total
    <3> HIDE DEF t
    <3>4. PICK n \in Nat : /\ ClampTop(t, l) = [t EXCEPT !.top = n]
                           /\ n = LowerOf(t.top, Minus(TotalSectors(t), Capacity(l)))
      BY <3>3, ClampTopIs
    <3>5. n <= s.sector /\ s.sector < n + capacity
      BY <1>1, <3>2, <3>3, <3>4 DEF LowerOf, Minus, capacity
    <3>6. QED
      BY <3>1, <3>3, <3>4, <3>5
  <2>3. CASE ~(s.sector < s.top) /\ ~(s.sector >= s.top + capacity)
    <3>1. RevealFocus(s, l) = ClampTop(s, l)
      BY <2>3 DEF RevealFocus
    <3>2. PICK n \in Nat : /\ ClampTop(s, l) = [s EXCEPT !.top = n]
                           /\ n = LowerOf(s.top, Minus(TotalSectors(s), Capacity(l)))
      BY ClampTopIs
    <3> HIDE DEF row, rows
    <3>3. n <= s.sector /\ s.sector < n + capacity
      BY <1>1, <2>3, <3>2 DEF LowerOf, Minus
    <3>4. QED
      BY <3>1, <3>2, <3>3
  <2>4. QED
    BY <2>1, <2>2, <2>3
<1>4. PICK n \in Nat : /\ RevealFocus(s, l) = [s EXCEPT !.top = n]
                       /\ n <= s.sector /\ s.sector < n + capacity
  BY <1>3
<1>5. QED
  BY <1>4, TopOnly, RevealedTop

LEMMA FocusSectorMoves ==
    ASSUME NEW s, NEW l, NEW k \in Nat, Focuses(s), Shows(l), k < TotalSectors(s)
    PROVE Moves(s, FocusSector(s, k, l), l) /\ InFrame(FocusSector(s, k, l), l)
<1> DEFINE t == [s EXCEPT !.sector = k]
<1>1. Focuses(t) /\ Keeps(s, t)
  BY SectorMoves DEF Focuses, TotalSectors
<1>2. FocusSector(s, k, l) = RevealFocus(t, l)
  BY DEF FocusSector
<1> HIDE DEF t
<1>3. QED
  BY <1>1, <1>2, RevealFocusMoves, MovesFollow

LEMMA StepsMove ==
    ASSUME NEW s, NEW l, NEW n \in Nat, Focuses(s), Shows(l)
    PROVE Moves(s, MoveForward(s, n, l), l) /\ Moves(s, MoveBack(s, n, l), l)
<1>1. s.sector \in Nat /\ s.sector < TotalSectors(s) /\ TotalSectors(s) \in Nat
  BY TotalIs DEF Focuses, Sessions
<1>2. Moves(s, MoveForward(s, n, l), l)
  <2>1. CASE s.sector + n < TotalSectors(s)
    <3>1. s.sector + n \in Nat
      BY <1>1
    <3>2. QED
      BY <2>1, <3>1, FocusSectorMoves DEF MoveForward
  <2>2. CASE ~(s.sector + n < TotalSectors(s))
    BY <2>2, NoMove DEF MoveForward
  <2>3. QED
    BY <2>1, <2>2
<1>3. Moves(s, MoveBack(s, n, l), l)
  <2>1. CASE s.sector >= n
    <3>1. s.sector - n \in Nat /\ s.sector - n < TotalSectors(s)
      BY <1>1, <2>1
    <3>2. QED
      BY <2>1, <3>1, FocusSectorMoves DEF MoveBack
  <2>2. CASE ~(s.sector >= n)
    BY <2>2, NoMove DEF MoveBack
  <2>3. QED
    BY <2>1, <2>2
<1>4. QED
  BY <1>2, <1>3

\* The first sector of a volume is the first on the map.
LEMMA AtVolumeMoves ==
    ASSUME NEW s, NEW l, NEW v \in Volumes, Focuses(s), Shows(l)
    PROVE Moves(s, AtVolume(s, v), l)
<1> DEFINE t == AtVolume(s, v)
<1>1. /\ t \in Sessions /\ t.top = 0 /\ t.sector = 0 /\ Keeps(s, t)
  BY VolumeMoves DEF Focuses
<1> HIDE DEF t
<1>2. TotalSectors(t) \in Nat \ {0} /\ Capacity(l) \in Nat \ {0}
  BY <1>1, TotalIs, CapacityIs
<1>3. Focuses(t) /\ t.sector \in t.top .. (LowerOf(t.top + Capacity(l), TotalSectors(t)) - 1)
  BY <1>1, <1>2 DEF Focuses, LowerOf
<1>4. QED
  BY <1>1, <1>3 DEF t, Moves, InFrame, SectorHits

LEMMA ScrollRowsMoves ==
    ASSUME NEW s, NEW l, NEW n \in {-1, 1}, Focuses(s), Shows(l)
    PROVE Moves(s, ScrollRows(s, n, l), l)
<1>1. s.top \in Nat /\ l.columns \in Nat
  BY CapacityIs DEF Focuses, Sessions
<1> DEFINE k == IF n < 0 THEN Minus(s.top, -n * l.columns) ELSE s.top + n * l.columns
           t == [s EXCEPT !.top = k]
<1>2. k \in Nat
  <2>1. CASE n = 1
    BY <1>1, <2>1
  <2>2. CASE n = -1
    BY <1>1, <2>2 DEF Minus
  <2>3. QED
    BY <2>1, <2>2
<1>3. ScrollRows(s, n, l) = ClampTop(t, l)
  BY DEF ScrollRows
<1> HIDE DEF k
<1>4. Focuses(t) /\ \A m : [t EXCEPT !.top = m] = [s EXCEPT !.top = m]
  BY <1>2, TopMoves, TopOnly DEF Focuses
<1> HIDE DEF t
<1>5. PICK m \in Nat : ClampTop(t, l) = [t EXCEPT !.top = m]
  BY <1>4, ClampTopIs
<1>6. ScrollRows(s, n, l) = [s EXCEPT !.top = m]
  BY <1>3, <1>4, <1>5
<1>7. QED
  BY <1>6, TopOnly

LEMMA VolumeActionMoves ==
    ASSUME NEW s, NEW a, NEW l, Focuses(s), Shows(l)
    PROVE Moves(s, VolumeAction(s, a, l), l)
<1>1. \/ VolumeAction(s, a, l) \in {s, MoveBack(s, 1, l), MoveForward(s, 1, l),
                                   MoveBack(s, l.columns, l), MoveForward(s, l.columns, l),
                                   ScrollRows(s, -1, l), ScrollRows(s, 1, l)}
      \/ s.volume > 1 /\ VolumeAction(s, a, l) = AtVolume(s, s.volume - 1)
      \/ s.volume < Len(SectorCounts) /\ VolumeAction(s, a, l) = AtVolume(s, s.volume + 1)
  BY DEF VolumeAction
<1>2. s.volume \in 1 .. Len(SectorCounts) /\ Volumes = 1 .. Len(SectorCounts)
        /\ Len(SectorCounts) \in Nat /\ l.columns \in Nat
  BY TotalIs, CapacityIs, TerminalAssumption DEF Focuses, Volumes
<1>3. CASE s.volume > 1 /\ VolumeAction(s, a, l) = AtVolume(s, s.volume - 1)
  <2>1. s.volume - 1 \in Volumes
    BY <1>2, <1>3
  <2>2. QED
    BY <1>3, <2>1, AtVolumeMoves
<1>4. CASE s.volume < Len(SectorCounts) /\ VolumeAction(s, a, l) = AtVolume(s, s.volume + 1)
  <2>1. s.volume + 1 \in Volumes
    BY <1>2, <1>4
  <2>2. QED
    BY <1>4, <2>1, AtVolumeMoves
<1>5. CASE VolumeAction(s, a, l) \in {s, MoveBack(s, 1, l), MoveForward(s, 1, l),
                                     MoveBack(s, l.columns, l), MoveForward(s, l.columns, l),
                                     ScrollRows(s, -1, l), ScrollRows(s, 1, l)}
  <2>1. /\ Moves(s, s, l)
        /\ Moves(s, MoveBack(s, 1, l), l) /\ Moves(s, MoveForward(s, 1, l), l)
        /\ Moves(s, MoveBack(s, l.columns, l), l) /\ Moves(s, MoveForward(s, l.columns, l), l)
        /\ Moves(s, ScrollRows(s, -1, l), l) /\ Moves(s, ScrollRows(s, 1, l), l)
    BY <1>2, NoMove, StepsMove, ScrollRowsMoves
  <2>2. QED
    BY <1>5, <2>1
<1>6. QED
  BY <1>1, <1>3, <1>4, <1>5

-----------------------------------------------------------------------------
(* Moves on the grid of a sector's pages. *)

LEMMA GridSteps ==
    ASSUME NEW p \in Grid
    PROVE /\ p % GridSide > 0 => p - 1 \in Grid
          /\ p % GridSide < GridSide - 1 => p + 1 \in Grid
          /\ p \div GridSide > 0 => p - GridSide \in Grid
          /\ p \div GridSide < GridSide - 1 => p + GridSide \in Grid
<1> DEFINE G == GridSide
           q == p \div G
           r == p % G
<1>1. G \in Nat \ {0}
  BY TerminalAssumption
<1>2. p \in 0 .. (G * G - 1)
  BY DEF Grid
<1>3. r \in 0 .. (G - 1) /\ p = G * q + r /\ q \in Int
  BY <1>1, <1>2
<1> HIDE DEF G, q, r
<1>4. q >= 0 /\ q <= G - 1
  BY <1>1, <1>2, <1>3
<1>5. r > 0 => p - 1 \in 0 .. (G * G - 1)
  <2>1. G * q >= 0
    BY <1>1, <1>3, <1>4
  <2>2. QED
    BY <1>1, <1>2, <1>3, <2>1
<1>6. r < G - 1 => p + 1 \in 0 .. (G * G - 1)
  <2>1. G * q <= G * (G - 1)
    BY <1>1, <1>3, <1>4
  <2>2. QED
    BY <1>1, <1>2, <1>3, <2>1
<1>7. q > 0 => p - G \in 0 .. (G * G - 1)
  <2>1. q > 0 => G * q >= G
    BY <1>1, <1>3, <1>4
  <2>2. QED
    BY <1>1, <1>2, <1>3, <2>1
<1>8. q < G - 1 => p + G \in 0 .. (G * G - 1)
  <2>1. q < G - 1 => G * q <= G * (G - 2)
    BY <1>1, <1>3, <1>4
  <2>2. QED
    BY <1>1, <1>2, <1>3, <2>1
<1>9. QED
  BY <1>5, <1>6, <1>7, <1>8 DEF Grid, G, q, r

LEMMA MovePageMoves ==
    ASSUME NEW s, NEW a, NEW l, Focuses(s)
    PROVE Moves(s, MovePage(s, a), l)
<1>1. \E p \in Grid : MovePage(s, a) = [s EXCEPT !.page = p]
  <2>1. s.page \in Grid
    BY DEF Focuses, Sessions
  <2>2. \/ MovePage(s, a) = [s EXCEPT !.page = s.page]
        \/ s.page % GridSide > 0 /\ MovePage(s, a) = [s EXCEPT !.page = s.page - 1]
        \/ s.page % GridSide < GridSide - 1 /\ MovePage(s, a) = [s EXCEPT !.page = s.page + 1]
        \/ s.page \div GridSide > 0 /\ MovePage(s, a) = [s EXCEPT !.page = s.page - GridSide]
        \/ /\ s.page \div GridSide < GridSide - 1
           /\ MovePage(s, a) = [s EXCEPT !.page = s.page + GridSide]
    BY DEF MovePage
  <2>3. QED
    BY <2>1, <2>2, GridSteps
<1>2. PICK p \in Grid : MovePage(s, a) = [s EXCEPT !.page = p]
  BY <1>1
<1>3. QED
  BY <1>2, PageMoves DEF Focuses, Moves, TotalSectors

-----------------------------------------------------------------------------
(* Pages. *)

LEMMA SessionFields ==
    ASSUME NEW s \in Sessions
    PROVE /\ s.volume \in Volumes /\ s.sector \in Nat /\ s.top \in Nat /\ s.page \in Grid
          /\ s.mode \in {"volume", "sector", "page"} /\ s.selected \in Nat /\ s.topItem \in Int
          /\ s.load \in {"idle", "loading", "ready", "failed", "unavailable"}
          /\ s.shown \in PageSet \cup {NoPage} /\ s.interp \in Interps
          /\ s.help \in BOOLEAN /\ s.quit \in BOOLEAN
          /\ s.active \in Requests /\ s.pending \in Requests /\ s.view \in ViewSet
BY DEF Sessions

\* Where the focus is, and what the session holds of the database.
Place(s, t) ==
    /\ t.volume = s.volume /\ t.sector = s.sector /\ t.top = s.top /\ t.page = s.page
    /\ t.view = s.view /\ t.help = s.help

LEMMA PlaceKept ==
    ASSUME NEW s, NEW t \in Sessions, Focuses(s), Place(s, t)
    PROVE Focuses(t) /\ Focused(t) = Focused(s) /\ TotalSectors(t) = TotalSectors(s)
BY DEF Focuses, Place, Focused, TotalSectors

LEMMA NoRequestIs == NoRequest \in Requests /\ Closed \in Interps /\ NoPage \in PageSet \cup {NoPage}
BY DEF NoRequest, Requests, Closed, Interps

LEMMA LeavePageIs ==
    ASSUME NEW s \in Sessions
    PROVE /\ LeavePage(s) \in Sessions /\ Blank(LeavePage(s)) /\ Place(s, LeavePage(s))
          /\ LeavePage(s).mode = s.mode /\ LeavePage(s).quit = s.quit
          /\ LeavePage(s).selected = 0
<1> DEFINE t == CancelEnrichment(s)
           n == NoRequest
           c == Closed
           none == NoPage
<1>1. n \in Requests /\ c \in Interps /\ none \in PageSet \cup {NoPage}
  BY NoRequestIs
<1>2. n = NoRequest /\ c = Closed /\ none = NoPage
  OBVIOUS
<1> HIDE DEF n, c, none
<1>3. /\ t \in Sessions /\ Place(s, t) /\ t.mode = s.mode /\ t.quit = s.quit
      /\ t.active = n /\ t.pending = n
  BY <1>1, <1>2 DEF CancelEnrichment, Sessions, Place
<1>4. LeavePage(s) = [t EXCEPT !.load = "idle", !.shown = none, !.selected = 0, !.topItem = 0,
                               !.interp = c]
  BY <1>2 DEF LeavePage
<1> HIDE DEF t
<1> DEFINE u == [t EXCEPT !.load = "idle", !.shown = none, !.selected = 0, !.topItem = 0,
                          !.interp = c]
<1>5. /\ u \in Sessions
      /\ Place(t, u) /\ u.mode = t.mode /\ u.quit = t.quit
      /\ u.active = t.active /\ u.pending = t.pending /\ u.load = "idle" /\ u.shown = none
      /\ u.selected = 0 /\ u.interp = c
  <2>1. 0 \in Nat /\ 0 \in Int /\ "idle" \in {"idle", "loading", "ready", "failed", "unavailable"}
    OBVIOUS
  <2>2. u \in Sessions
    BY <1>1, <1>3, <2>1, Zenon DEF Sessions
  <2>3. QED
    BY <1>3, <2>2 DEF Sessions, Place
<1> HIDE DEF u
<1>6. LeavePage(s) = u
  BY <1>4 DEF u
<1>7. QED
  BY <1>2, <1>3, <1>5, <1>6 DEF Blank, Place

LEMMA QuitIs ==
    ASSUME NEW s, Sound(s)
    PROVE Sound(Quit(s)) /\ Quit(s).view = s.view /\ Blank(Quit(s)) /\ Quit(s).quit
<1> DEFINE t == IF s.mode = "page" THEN LeavePage(s) ELSE s
<1>1. s \in Sessions /\ Focuses(s)
  BY DEF Sound, Focuses
<1>2. t \in Sessions /\ Focuses(t) /\ Blank(t) /\ t.view = s.view
  <2>1. CASE s.mode = "page"
    BY <1>1, <2>1, LeavePageIs, PlaceKept DEF Place
  <2>2. CASE s.mode # "page"
    BY <1>1, <2>2 DEF Sound
  <2>3. QED
    BY <2>1, <2>2
<1> HIDE DEF t
<1>3. /\ [t EXCEPT !.quit = TRUE] \in Sessions /\ [t EXCEPT !.quit = TRUE].quit
      /\ [t EXCEPT !.quit = TRUE].sector = t.sector /\ [t EXCEPT !.quit = TRUE].volume = t.volume
      /\ [t EXCEPT !.quit = TRUE].view = t.view /\ Blank([t EXCEPT !.quit = TRUE])
  BY <1>2 DEF Sessions, Blank
<1>4. Quit(s) = [t EXCEPT !.quit = TRUE]
  BY DEF Quit, t
<1>5. QED
  BY <1>2, <1>3, <1>4 DEF Sound, Focuses, TotalSectors

\* A row that was just selected is in the frame.
RowInFrame(s, l) == s.selected \in RowHits(s, l)

LEMMA FirstRowInFrame ==
    ASSUME NEW s, NEW l, Shows(l), s.interp = Closed, s.shown # NoPage, s.selected = 1,
           s.topItem = 1
    PROVE RowInFrame(s, l)
<1>1. l.list \in Nat \ {0} /\ Len(Items) \in Nat \ {0}
  BY CapacityIs, TerminalAssumption
<1>2. QED
  BY <1>1 DEF RowInFrame, RowHits, LowerOf

\* A page is opened: it shows what has been read, or asks for it.
LEMMA PreparePageIs ==
    ASSUME NEW s, NEW l, Shows(l), Focuses(s), Blank(s), s.mode = "page", ~s.quit
    PROVE /\ Sound(PreparePage(s)) /\ Place(s, PreparePage(s)) /\ PreparePage(s).mode = "page"
          /\ PreparePage(s).quit = s.quit /\ PreparePage(s).interp = Closed
          /\ PreparePage(s).active = PreparePage(s).pending
          /\ PreparePage(s).selected # 0 => RowInFrame(PreparePage(s), l)
<1> DEFINE p == Focused(s)
           none == NoPage
           blank == [s EXCEPT !.shown = none, !.selected = 0, !.topItem = 0]
           ready == [blank EXCEPT !.selected = 1, !.topItem = 1, !.shown = p, !.load = "ready"]
           other == [blank EXCEPT !.load = "unavailable"]
           r == PageRequest(p)
           asks == [[blank EXCEPT !.active = r, !.pending = r] EXCEPT !.load = "loading"]
<1>1. /\ s \in Sessions /\ s.active = NoRequest /\ s.pending = NoRequest /\ s.interp = Closed
      /\ s.mode = "page" /\ ~s.quit
  BY DEF Focuses, Blank
<1>2. p \in PageSet /\ p # NoPage /\ none \in PageSet \cup {NoPage} /\ none = NoPage
  BY FocusedIsAPage
<1>3. r \in Requests /\ r # NoRequest
  BY <1>2 DEF PageRequest, Requests, NoRequest
<1> HIDE DEF none, r
<1>4. /\ blank \in Sessions /\ Place(s, blank) /\ blank.mode = "page" /\ ~blank.quit
      /\ blank.interp = Closed /\ blank.active = NoRequest /\ blank.pending = NoRequest
      /\ blank.shown = none /\ blank.selected = 0
  <2>1. 0 \in Nat /\ 0 \in Int
    OBVIOUS
  <2>2. blank \in Sessions
    BY <1>1, <1>2, <2>1, Zenon DEF Sessions
  <2>3. QED
    BY <1>1, <2>2 DEF Sessions, Place
<1>5. \/ p \in s.view.deep /\ PreparePage(s) = ready
      \/ PreparePage(s) = other
      \/ PreparePage(s) = asks
  BY <1>1, <1>2, <1>4 DEF PreparePage, Install, StartEnrichment, r, none
<1> HIDE DEF p, blank
<1>6. CASE p \in s.view.deep /\ PreparePage(s) = ready
  <2>1. /\ ready \in Sessions /\ Place(blank, ready) /\ ready.mode = "page" /\ ~ready.quit
        /\ ready.interp = Closed /\ ready.active = NoRequest /\ ready.pending = NoRequest
        /\ ready.shown = p /\ ready.load = "ready" /\ ready.selected = 1 /\ ready.topItem = 1
    <3>1. /\ 1 \in Nat /\ 1 \in Int /\ p \in PageSet \cup {NoPage}
          /\ "ready" \in {"idle", "loading", "ready", "failed", "unavailable"}
      BY <1>2
    <3>2. ready \in Sessions
      BY <1>4, <3>1, Zenon DEF Sessions
    <3>3. QED
      BY <1>4, <3>2 DEF Sessions, Place
  <2> HIDE DEF ready
  <2>2. Place(s, ready)
    BY <1>4, <2>1 DEF Place
  <2>3. Focuses(ready) /\ Focused(ready) = p /\ ready.view = s.view
    BY <2>1, <2>2, PlaceKept DEF p, Place
  <2>4. PageIsRead(ready)
    BY <1>2, <1>6, <2>1, <2>3 DEF PageIsRead, Closed
  <2>5. RowInFrame(ready, l)
    BY <1>2, <2>1, FirstRowInFrame
  <2>6. QED
    <3>1. PreparePage(s) = ready
      BY <1>6
    <3>2. Sound(ready)
      BY <2>1, <2>3, <2>4 DEF Sound
    <3>3. ready.quit = s.quit
      BY <1>1, <2>1, SessionFields
    <3>4. QED
      BY <3>1, <3>2, <3>3, <2>1, <2>2, <2>5, Zenon
<1>7. CASE PreparePage(s) = other
  <2>1. /\ other \in Sessions /\ Place(blank, other) /\ other.mode = "page" /\ ~other.quit
        /\ other.interp = Closed /\ other.active = NoRequest /\ other.pending = NoRequest
        /\ other.shown = none /\ other.load = "unavailable" /\ other.selected = 0
    BY <1>4 DEF Sessions, Place
  <2> HIDE DEF other
  <2>2. Place(s, other)
    BY <1>4, <2>1 DEF Place
  <2>3. Focuses(other)
    BY <2>1, <2>2, PlaceKept
  <2>4. PageIsRead(other)
    BY <1>2, <2>1 DEF PageIsRead, Closed
  <2>5. QED
    <3>1. PreparePage(s) = other
      BY <1>7
    <3>2. Sound(other)
      BY <2>1, <2>3, <2>4 DEF Sound
    <3>3. other.quit = s.quit
      BY <1>1, <2>1, SessionFields
    <3>4. QED
      BY <3>1, <3>2, <3>3, <2>1, <2>2, Zenon
<1>8. CASE PreparePage(s) = asks
  <2>1. /\ asks \in Sessions /\ Place(blank, asks) /\ asks.mode = "page" /\ ~asks.quit
        /\ asks.interp = Closed /\ asks.active = r /\ asks.pending = r
        /\ asks.shown = none /\ asks.load = "loading" /\ asks.selected = 0
    BY <1>3, <1>4 DEF Sessions, Place
  <2> HIDE DEF asks
  <2>2. Place(s, asks)
    BY <1>4, <2>1 DEF Place
  <2>3. Focuses(asks) /\ Focused(asks) = p
    BY <2>1, <2>2, PlaceKept DEF p
  <2>4. PageIsRead(asks)
    BY <1>2, <2>1, <2>3 DEF PageIsRead, Closed, r
  <2>5. QED
    <3>1. PreparePage(s) = asks
      BY <1>8
    <3>2. Sound(asks)
      BY <2>1, <2>3, <2>4 DEF Sound
    <3>3. asks.quit = s.quit
      BY <1>1, <2>1, SessionFields
    <3>4. QED
      BY <3>1, <3>2, <3>3, <2>1, <2>2, Zenon
<1>9. QED
  BY <1>5, <1>6, <1>7, <1>8

LEMMA OpenPageIs ==
    ASSUME NEW s, NEW l, Shows(l), Focuses(s), Blank(s), ~s.quit
    PROVE /\ Sound(OpenPage(s)) /\ Place(s, OpenPage(s)) /\ OpenPage(s).mode = "page"
          /\ OpenPage(s).quit = s.quit /\ OpenPage(s).interp = Closed
          /\ OpenPage(s).active = OpenPage(s).pending
          /\ OpenPage(s).selected # 0 => RowInFrame(OpenPage(s), l)
<1> DEFINE t == [s EXCEPT !.mode = "page"]
<1>1. /\ t \in Sessions /\ Place(s, t) /\ Blank(t) /\ t.mode = "page" /\ t.quit = s.quit
  BY DEF Focuses, Sessions, Place, Blank
<1>2. OpenPage(s) = PreparePage(t)
  BY DEF OpenPage
<1> HIDE DEF t
<1>3. Focuses(t)
  BY <1>1, PlaceKept
<1>4. QED
  BY <1>1, <1>2, <1>3, PreparePageIs DEF Place

-----------------------------------------------------------------------------
(* What an action does to a session in the loop: it stays sound, keeps what has *)
(* been read, asks for at most one thing and only where nothing is being read,  *)
(* and what it selects is in the frame.                                         *)

Acts(s, t, l) ==
    /\ Sound(t) /\ t.view = s.view
    /\ IF t.pending = NoRequest THEN t.active \in {NoRequest, s.active} ELSE t.active = t.pending
    /\ t.mode = "volume" /\ <<s.volume, s.sector>> # <<t.volume, t.sector>> => InFrame(t, l)
    /\ t.mode = "page" /\ t.interp = Closed /\ t.selected \notin {0, s.selected} =>
         RowInFrame(t, l)

LEMMA Stays ==
    ASSUME NEW s, NEW l, Sound(s), s.pending = NoRequest
    PROVE Acts(s, s, l)
BY DEF Acts

LEMMA MovesAct ==
    ASSUME NEW s, NEW t, NEW l, Sound(s), s.pending = NoRequest, s.mode # "page",
           Moves(s, t, l)
    PROVE Acts(s, t, l)
BY DEF Acts, Moves, Keeps, Sound, Blank

\* What is left alone by a change of mode, of the rows shown or of the interpreted record.
Rest(s, t) ==
    /\ Place(s, t) /\ t.quit = s.quit /\ t.load = s.load /\ t.shown = s.shown
    /\ t.active = s.active /\ t.pending = s.pending

LEMMA ModeMoves ==
    ASSUME NEW s \in Sessions, NEW m \in {"volume", "sector", "page"}
    PROVE /\ [s EXCEPT !.mode = m] \in Sessions /\ Rest(s, [s EXCEPT !.mode = m])
          /\ [s EXCEPT !.mode = m].mode = m /\ [s EXCEPT !.mode = m].interp = s.interp
          /\ [s EXCEPT !.mode = m].selected = s.selected
BY DEF Sessions, Place, Rest

LEMMA HelpMoves ==
    ASSUME NEW s \in Sessions, NEW b \in BOOLEAN
    PROVE /\ [s EXCEPT !.help = b] \in Sessions
          /\ [s EXCEPT !.help = b].volume = s.volume /\ [s EXCEPT !.help = b].sector = s.sector
          /\ [s EXCEPT !.help = b].page = s.page /\ [s EXCEPT !.help = b].load = s.load
          /\ [s EXCEPT !.help = b].shown = s.shown /\ [s EXCEPT !.help = b].interp = s.interp
          /\ [s EXCEPT !.help = b].active = s.active /\ [s EXCEPT !.help = b].pending = s.pending
          /\ [s EXCEPT !.help = b].view = s.view /\ [s EXCEPT !.help = b].mode = s.mode
          /\ [s EXCEPT !.help = b].quit = s.quit /\ [s EXCEPT !.help = b].selected = s.selected
BY DEF Sessions

LEMMA SelectedMoves ==
    ASSUME NEW s \in Sessions, NEW i \in Nat
    PROVE /\ [s EXCEPT !.selected = i] \in Sessions /\ Rest(s, [s EXCEPT !.selected = i])
          /\ [s EXCEPT !.selected = i].mode = s.mode /\ [s EXCEPT !.selected = i].interp = s.interp
          /\ [s EXCEPT !.selected = i].selected = i
          /\ [s EXCEPT !.selected = i].topItem = s.topItem
BY DEF Sessions, Place, Rest

LEMMA TopItemMoves ==
    ASSUME NEW s \in Sessions, NEW i \in Int
    PROVE /\ [s EXCEPT !.topItem = i] \in Sessions /\ Rest(s, [s EXCEPT !.topItem = i])
          /\ [s EXCEPT !.topItem = i].mode = s.mode /\ [s EXCEPT !.topItem = i].interp = s.interp
          /\ [s EXCEPT !.topItem = i].selected = s.selected
          /\ [s EXCEPT !.topItem = i].topItem = i
BY DEF Sessions, Place, Rest

LEMMA InterpMoves ==
    ASSUME NEW s \in Sessions, NEW i \in Interps
    PROVE /\ [s EXCEPT !.interp = i] \in Sessions /\ Rest(s, [s EXCEPT !.interp = i])
          /\ [s EXCEPT !.interp = i].mode = s.mode /\ [s EXCEPT !.interp = i].interp = i
          /\ [s EXCEPT !.interp = i].selected = s.selected
BY DEF Sessions, Place, Rest

LEMMA RequestMoves ==
    ASSUME NEW s \in Sessions, NEW a \in Requests, NEW b \in Requests
    PROVE LET t == [s EXCEPT !.active = a, !.pending = b]
          IN  /\ t \in Sessions /\ Place(s, t) /\ t.quit = s.quit /\ t.load = s.load
              /\ t.shown = s.shown /\ t.mode = s.mode /\ t.interp = s.interp
              /\ t.selected = s.selected /\ t.topItem = s.topItem
              /\ t.active = a /\ t.pending = b
BY DEF Sessions, Place

LEMMA CancelIs ==
    ASSUME NEW s \in Sessions
    PROVE LET t == CancelEnrichment(s)
          IN  /\ t \in Sessions /\ Place(s, t) /\ t.quit = s.quit /\ t.load = s.load
              /\ t.shown = s.shown /\ t.mode = s.mode /\ t.interp = s.interp
              /\ t.selected = s.selected /\ t.topItem = s.topItem
              /\ t.active = NoRequest /\ t.pending = NoRequest
<1> DEFINE n == NoRequest
           t == [s EXCEPT !.active = n, !.pending = n]
<1>1. n \in Requests /\ CancelEnrichment(s) = t /\ n = NoRequest
  BY NoRequestIs DEF CancelEnrichment
<1> HIDE DEF n
<1>2. /\ t \in Sessions /\ Place(s, t) /\ t.quit = s.quit /\ t.load = s.load
      /\ t.shown = s.shown /\ t.mode = s.mode /\ t.interp = s.interp
      /\ t.selected = s.selected /\ t.topItem = s.topItem
      /\ t.active = n /\ t.pending = n
  BY <1>1 DEF Sessions, Place
<1> HIDE DEF t
<1>3. QED
  BY <1>1, <1>2, Zenon

LEMMA RestFocuses ==
    ASSUME NEW s, NEW t \in Sessions, Focuses(s), Rest(s, t)
    PROVE Focuses(t) /\ Focused(t) = Focused(s) /\ t.view = s.view
BY PlaceKept DEF Rest, Place

\* A page whose rows or interpreted record change in ways its reads do not depend on.
LEMMA PageActs ==
    ASSUME NEW s, NEW t \in Sessions, NEW l, Sound(s), s.pending = NoRequest,
           s.mode = "page", ~s.quit, Rest(s, t), t.mode = "page",
           \/ t.interp = s.interp
           \/ s.interp # Closed /\ t.interp # Closed /\ t.interp.item = s.interp.item
                /\ t.interp.load = s.interp.load,
           s.interp = Closed \/ t.selected = s.selected,
           t.interp = Closed /\ t.selected \notin {0, s.selected} => RowInFrame(t, l)
    PROVE Acts(s, t, l)
<1>1. Focuses(s) /\ PageIsRead(s)
  BY DEF Sound
<1>2. Focuses(t) /\ Focused(t) = Focused(s) /\ t.view = s.view
  BY <1>1, RestFocuses
<1>3. PageIsRead(t)
  BY <1>1, <1>2 DEF PageIsRead, Rest
<1>4. Sound(t)
  BY <1>2, <1>3 DEF Sound, Rest
<1>5. QED
  BY <1>2, <1>4 DEF Acts, Rest

LEMMA RowsAre ==
    ASSUME NEW s
    PROVE Rows(s) \in Nat /\ (Rows(s) # 0 => s.shown # NoPage /\ Rows(s) = Len(Items))
BY TerminalAssumption DEF Rows

\* A row that is selected is brought into the frame.
LEMMA RevealedItem ==
    ASSUME NEW s \in Sessions, NEW l, Shows(l), s.interp = Closed, s.shown # NoPage,
           s.selected \in 1 .. Len(Items)
    PROVE /\ RevealItem(s, l) \in Sessions /\ Rest(s, RevealItem(s, l))
          /\ RevealItem(s, l).mode = s.mode /\ RevealItem(s, l).interp = s.interp
          /\ RowInFrame(RevealItem(s, l), l)
<1> DEFINE k == IF s.selected < s.topItem THEN s.selected
                ELSE IF s.selected >= s.topItem + l.list THEN s.selected + 1 - l.list
                ELSE s.topItem
           t == [s EXCEPT !.topItem = k]
<1>1. s.topItem \in Int /\ s.selected \in Int /\ l.list \in Nat \ {0} /\ Len(Items) \in Nat
  BY SessionFields, CapacityIs, TerminalAssumption
<1>2. k \in Int /\ k <= s.selected /\ s.selected <= k + l.list - 1
  BY <1>1, SMTT(30)
<1>3. RevealItem(s, l) = t
  BY DEF RevealItem
<1> HIDE DEF k
<1>4. /\ t \in Sessions /\ Rest(s, t) /\ t.mode = s.mode /\ t.interp = s.interp
      /\ t.selected = s.selected /\ t.topItem = k /\ t.shown = s.shown
  BY <1>2, TopItemMoves DEF Rest
<1> HIDE DEF t
<1>5. t.selected \in t.topItem .. LowerOf(t.topItem + l.list - 1, Len(Items))
  BY <1>1, <1>2, <1>4 DEF LowerOf
<1>6. RowInFrame(t, l)
  BY <1>4, <1>5 DEF RowInFrame, RowHits
<1>7. QED
  BY <1>3, <1>4, <1>6

LEMMA SelectItemActs ==
    ASSUME NEW s, NEW i, NEW l, Shows(l), Sound(s), s.pending = NoRequest, s.mode = "page",
           ~s.quit, s.interp = Closed
    PROVE Acts(s, SelectItem(s, i, l), l)
<1>1. CASE i \in 1 .. Rows(s)
  <2> DEFINE t == [s EXCEPT !.selected = i]
             u == RevealItem(t, l)
  <2>1. i \in Nat /\ i \in 1 .. Len(Items) /\ s.shown # NoPage
    BY <1>1, RowsAre
  <2>2. s \in Sessions
    BY DEF Sound, Focuses
  <2>3. /\ t \in Sessions /\ Rest(s, t) /\ t.mode = s.mode /\ t.interp = s.interp
        /\ t.selected = i /\ t.shown # NoPage
    BY <2>1, <2>2, SelectedMoves DEF Rest
  <2>4. SelectItem(s, i, l) = u
    BY <1>1 DEF SelectItem
  <2> HIDE DEF t
  <2>5. /\ u \in Sessions /\ Rest(t, u) /\ u.mode = t.mode /\ u.interp = t.interp
        /\ RowInFrame(u, l)
    BY <2>1, <2>3, RevealedItem
  <2> HIDE DEF u
  <2>6. Rest(s, u)
    BY <2>3, <2>5 DEF Rest, Place
  <2>7. QED
    BY <2>3, <2>4, <2>5, <2>6, PageActs
<1>2. CASE i \notin 1 .. Rows(s)
  BY <1>2, Stays DEF SelectItem
<1>3. QED
  BY <1>1, <1>2

LEMMA ScrollItemsActs ==
    ASSUME NEW s, NEW n \in {-1, 1}, NEW l, Shows(l), Sound(s), s.pending = NoRequest,
           s.mode = "page", ~s.quit
    PROVE Acts(s, ScrollItems(s, n, l), l)
<1>1. CASE Rows(s) = 0
  BY <1>1, Stays DEF ScrollItems
<1>2. CASE Rows(s) # 0
  <2> DEFINE k == IF n < 0 THEN Minus(s.topItem - 1, -n) + 1
                  ELSE LowerOf(s.topItem - 1 + n, Minus(Rows(s), l.list)) + 1
             t == [s EXCEPT !.topItem = k]
  <2>1. s \in Sessions
    BY DEF Sound, Focuses
  <2>2. s.topItem \in Int /\ Rows(s) \in Int /\ l.list \in Int
    BY <2>1, SessionFields, RowsAre, CapacityIs
  <2>3. k \in Int
    BY <2>2 DEF Minus, LowerOf
  <2>4. ScrollItems(s, n, l) = t
    BY <1>2 DEF ScrollItems
  <2> HIDE DEF k
  <2>5. /\ t \in Sessions /\ Rest(s, t) /\ t.mode = s.mode /\ t.interp = s.interp
        /\ t.selected = s.selected
    BY <2>1, <2>3, TopItemMoves
  <2> HIDE DEF t
  <2>6. QED
    BY <2>4, <2>5, PageActs
<1>3. QED
  BY <1>1, <1>2

LEMMA ScrollAttributesActs ==
    ASSUME NEW s, NEW n \in {-1, 1}, NEW l, Shows(l), Sound(s), s.pending = NoRequest,
           s.mode = "page", ~s.quit, s.interp # Closed
    PROVE Acts(s, ScrollAttributes(s, n, l), l)
<1> DEFINE maximum == Minus(AttributeCount(s), l.attributes)
           current == LowerOf(s.interp.top, maximum)
           k == IF n < 0 THEN Minus(current, -n) ELSE LowerOf(current + n, maximum)
           i == [s.interp EXCEPT !.top = k]
           t == [s EXCEPT !.interp = i]
<1>1. s \in Sessions /\ PageIsRead(s)
  BY DEF Sound, Focuses
<1>2. s.interp \in Interps
  BY <1>1, SessionFields
<1>3. s.interp.top \in Int /\ AttributeCount(s) \in Nat /\ l.attributes \in Nat
  BY <1>2, CapacityIs, TerminalAssumption DEF Interps, AttributeCount
<1>4. k \in Int
  BY <1>3 DEF Minus, LowerOf
<1>5. ScrollAttributes(s, n, l) = t
  BY DEF ScrollAttributes
<1> HIDE DEF k
<1>6. i \in Interps /\ i.item = s.interp.item /\ i.load = s.interp.load
  BY <1>2, <1>4 DEF Interps
<1> HIDE DEF i
<1>7. i # Closed
  BY <1>1, <1>6 DEF PageIsRead, Closed
<1>8. /\ t \in Sessions /\ Rest(s, t) /\ t.mode = s.mode /\ t.interp = i
      /\ t.selected = s.selected
  BY <1>1, <1>6, InterpMoves
<1> HIDE DEF t
<1>9. QED
  BY <1>5, <1>6, <1>7, <1>8, PageActs

\* A record is interpreted: from what has been read, or by asking for it.
LEMMA ActivateSelectionActs ==
    ASSUME NEW s, NEW l, Shows(l), Sound(s), s.pending = NoRequest, s.mode = "page", ~s.quit
    PROVE Acts(s, ActivateSelection(s), l)
<1> DEFINE r == [page |-> Focused(s), item |-> s.selected]
           asking == [s EXCEPT !.active = r, !.pending = r]
           opened(load) == [item |-> s.selected, load |-> load, top |-> 0]
<1>1. Focuses(s) /\ s \in Sessions /\ PageIsRead(s)
  BY DEF Sound, Focuses
<1>2. \/ ActivateSelection(s) = s
      \/ /\ s.interp = Closed /\ s.active = NoRequest /\ s.selected \in 1 .. Rows(s)
         /\ \/ \E load \in {"unavailable", "ready"} :
                 ActivateSelection(s) = [s EXCEPT !.interp = opened(load)]
            \/ ActivateSelection(s) = [asking EXCEPT !.interp = [item |-> asking.selected,
                                                                 load |-> "loading", top |-> 0]]
  BY DEF ActivateSelection, Interpreting, StartEnrichment
<1>3. CASE ActivateSelection(s) = s
  BY <1>3, Stays
<1>4. ASSUME s.interp = Closed, s.active = NoRequest, s.selected \in 1 .. Rows(s)
      PROVE /\ s.load = "ready" /\ s.shown = Focused(s) /\ s.selected \in Nat /\ s.selected # 0
            /\ Focused(s) \in s.view.deep
  BY <1>1, <1>4, RowsAre DEF PageIsRead
<1>5. ASSUME NEW load \in {"unavailable", "ready"}, s.interp = Closed, s.active = NoRequest,
             s.selected \in 1 .. Rows(s),
             ActivateSelection(s) = [s EXCEPT !.interp = opened(load)]
      PROVE Acts(s, ActivateSelection(s), l)
  <2> DEFINE i == opened(load)
             t == [s EXCEPT !.interp = i]
  <2>1. i \in Interps /\ i.item = s.selected /\ i.load = load /\ i # Closed
    BY <1>4, <1>5 DEF Interps, Closed
  <2>2. ActivateSelection(s) = t
    BY <1>5
  <2> HIDE DEF i
  <2>3. /\ t \in Sessions /\ Rest(s, t) /\ t.mode = s.mode /\ t.interp = i
        /\ t.selected = s.selected
    BY <1>1, <2>1, InterpMoves
  <2> HIDE DEF t
  <2>4. Focuses(t) /\ Focused(t) = Focused(s) /\ t.view = s.view
    BY <1>1, <2>3, RestFocuses
  <2>5. PageIsRead(t)
    BY <1>4, <1>5, <2>1, <2>3, <2>4 DEF PageIsRead, Rest
  <2>6. Sound(t)
    BY <2>3, <2>4, <2>5 DEF Sound, Rest
  <2>7. QED
    BY <1>5, <2>1, <2>2, <2>3, <2>4, <2>6 DEF Acts, Rest
<1>6. ASSUME s.interp = Closed, s.active = NoRequest, s.selected \in 1 .. Rows(s),
             ActivateSelection(s) = [asking EXCEPT !.interp = [item |-> asking.selected,
                                                               load |-> "loading", top |-> 0]]
      PROVE Acts(s, ActivateSelection(s), l)
  <2> DEFINE i == [item |-> asking.selected, load |-> "loading", top |-> 0]
             t == [asking EXCEPT !.interp = i]
  <2>1. r \in Requests /\ r.page = Focused(s) /\ r.item = s.selected /\ r # NoRequest
    BY <1>1, <1>4, <1>6, FocusedIsAPage DEF Requests, NoRequest
  <2>2. ActivateSelection(s) = t
    BY <1>6
  <2> HIDE DEF r
  <2>3. /\ asking \in Sessions /\ Place(s, asking) /\ asking.quit = s.quit
        /\ asking.load = s.load /\ asking.shown = s.shown /\ asking.mode = s.mode
        /\ asking.selected = s.selected /\ asking.active = r /\ asking.pending = r
    BY <1>1, <2>1, RequestMoves, ZenonT(60)
  <2> HIDE DEF asking
  <2>4. i \in Interps /\ i.item = s.selected /\ i.load = "loading" /\ i # Closed
    BY <1>4, <1>6, <2>3 DEF Interps, Closed
  <2> HIDE DEF i
  <2>5. /\ t \in Sessions /\ Rest(asking, t) /\ t.mode = asking.mode /\ t.interp = i
        /\ t.selected = asking.selected
    BY <2>3, <2>4, InterpMoves
  <2> HIDE DEF t
  <2>6. Focuses(asking) /\ Focused(asking) = Focused(s) /\ asking.view = s.view
    BY <1>1, <2>3, PlaceKept DEF Place
  <2>7. Focuses(t) /\ Focused(t) = Focused(s) /\ t.view = s.view
    BY <2>5, <2>6, RestFocuses
  <2>8. t.active = r /\ t.pending = r /\ t.load = "ready" /\ t.shown = Focused(s) /\ ~t.quit
    BY <1>4, <1>6, <2>3, <2>5 DEF Rest
  <2>9. t.active = [page |-> Focused(t), item |-> t.interp.item]
    BY <2>4, <2>5, <2>7, <2>8 DEF r
  <2>10. PageIsRead(t)
    BY <1>4, <1>6, <2>3, <2>4, <2>5, <2>7, <2>8, <2>9 DEF PageIsRead
  <2>11. Sound(t)
    BY <2>7, <2>8, <2>10, <2>3, <2>5 DEF Sound
  <2>12. QED
    BY <2>1, <2>2, <2>3, <2>4, <2>5, <2>7, <2>8, <2>11 DEF Acts
<1>7. QED
  BY <1>2, <1>3, <1>5, <1>6

-----------------------------------------------------------------------------
(* The actions of the three modes. *)

\* Opening a page from a session that shows none.
LEMMA OpenActs ==
    ASSUME NEW s, NEW u, NEW l, Shows(l), Focuses(u), Blank(u), ~u.quit, u.view = s.view
    PROVE Acts(s, OpenPage(u), l)
<1>1. /\ Sound(OpenPage(u)) /\ OpenPage(u).view = s.view /\ OpenPage(u).mode = "page"
      /\ OpenPage(u).active = OpenPage(u).pending
      /\ OpenPage(u).selected # 0 => RowInFrame(OpenPage(u), l)
  BY OpenPageIs DEF Place
<1>2. QED
  BY <1>1 DEF Acts

LEMMA MovePageActs ==
    ASSUME NEW s, NEW u, NEW l, Shows(l), Sound(s), ~s.quit, Moves(LeavePage(s), u, l)
    PROVE Acts(s, OpenPage(u), l)
<1>1. s \in Sessions
  BY DEF Sound, Focuses
<1>2. LeavePage(s).quit = s.quit /\ Blank(LeavePage(s)) /\ LeavePage(s).view = s.view
  BY <1>1, LeavePageIs DEF Place
<1>3. Focuses(u) /\ Blank(u) /\ ~u.quit /\ u.view = s.view
  BY <1>2 DEF Moves, Keeps, Blank
<1>4. QED
  BY <1>3, OpenActs

LEMMA LeavePageFocuses ==
    ASSUME NEW s, Focuses(s)
    PROVE Focuses(LeavePage(s)) /\ TotalSectors(LeavePage(s)) = TotalSectors(s)
BY LeavePageIs, PlaceKept DEF Focuses

LEMMA MovePageToSectorActs ==
    ASSUME NEW s, NEW k \in Nat, NEW l, Shows(l), Sound(s), ~s.quit, k < TotalSectors(s)
    PROVE Acts(s, MovePageToSector(s, k, l), l)
<1>1. Focuses(LeavePage(s)) /\ k < TotalSectors(LeavePage(s))
  BY LeavePageFocuses DEF Sound
<1>2. Moves(LeavePage(s), FocusSector(LeavePage(s), k, l), l)
  BY <1>1, FocusSectorMoves
<1>3. QED
  BY <1>2, MovePageActs DEF MovePageToSector

LEMMA MovePageToVolumeActs ==
    ASSUME NEW s, NEW v \in Volumes, NEW l, Shows(l), Sound(s), ~s.quit
    PROVE Acts(s, MovePageToVolume(s, v), l)
<1>1. Focuses(LeavePage(s))
  BY LeavePageFocuses DEF Sound
<1>2. Moves(LeavePage(s), AtVolume(LeavePage(s), v), l)
  BY <1>1, AtVolumeMoves
<1>3. QED
  BY <1>2, MovePageActs DEF MovePageToVolume

\* A session on the maps goes into a mode of them.
LEMMA EnterModeActs ==
    ASSUME NEW s, NEW t \in Sessions, NEW l, Sound(s), s.pending = NoRequest, ~s.quit,
           s.mode # "page", t.mode # "page", t.view = s.view, Blank(t), Focuses(t), ~t.quit,
           t.mode = "volume" => InFrame(t, l) \/ <<s.volume, s.sector>> = <<t.volume, t.sector>>
    PROVE Acts(s, t, l)
BY DEF Acts, Sound, Blank

LEMMA InVolumeActs ==
    ASSUME NEW s, NEW a, NEW l, Shows(l), Sound(s), s.pending = NoRequest, ~s.quit,
           s.mode = "volume"
    PROVE Acts(s, InVolume(s, a, l), l)
<1>1. Focuses(s) /\ s \in Sessions /\ Blank(s)
  BY DEF Sound, Focuses
<1>2. CASE a = "enter"
  <2> DEFINE t == [s EXCEPT !.mode = "sector"]
             u == [t EXCEPT !.page = 0]
  <2>1. /\ t \in Sessions /\ Rest(s, t) /\ t.mode = "sector" /\ t.interp = s.interp
    BY <1>1, ModeMoves
  <2>2. 0 \in Grid
    BY TerminalAssumption DEF Grid
  <2>3. InVolume(s, a, l) = u
    BY <1>2 DEF InVolume
  <2> HIDE DEF t
  <2>4. /\ u \in Sessions /\ u.volume = t.volume /\ u.sector = t.sector /\ Keeps(t, u)
    BY <2>1, <2>2, PageMoves
  <2> HIDE DEF u
  <2>5. Focuses(u) /\ Blank(u) /\ u.view = s.view /\ u.mode = "sector" /\ ~u.quit
    BY <1>1, <2>1, <2>4 DEF Focuses, Blank, Keeps, Rest, Place, TotalSectors
  <2>6. QED
    BY <2>3, <2>4, <2>5, EnterModeActs
<1>3. CASE a # "enter"
  BY <1>1, <1>3, VolumeActionMoves, MovesAct DEF InVolume
<1>4. QED
  BY <1>2, <1>3

LEMMA InSectorActs ==
    ASSUME NEW s, NEW a, NEW l, Shows(l), Sound(s), s.pending = NoRequest, ~s.quit,
           s.mode = "sector"
    PROVE Acts(s, InSector(s, a, l), l)
<1>1. Focuses(s) /\ s \in Sessions /\ Blank(s)
  BY DEF Sound, Focuses
<1>2. \/ InSector(s, a, l) \in {s, MovePage(s, a), VolumeAction(s, "previous-sector", l),
                               VolumeAction(s, "next-sector", l)}
      \/ InSector(s, a, l) = OpenPage(s)
      \/ InSector(s, a, l) = [s EXCEPT !.mode = "volume"]
  BY DEF InSector
<1>3. CASE InSector(s, a, l) \in {s, MovePage(s, a), VolumeAction(s, "previous-sector", l),
                                 VolumeAction(s, "next-sector", l)}
  <2>1. Moves(s, s, l) /\ Moves(s, MovePage(s, a), l)
          /\ Moves(s, VolumeAction(s, "previous-sector", l), l)
          /\ Moves(s, VolumeAction(s, "next-sector", l), l)
    BY <1>1, NoMove, MovePageMoves, VolumeActionMoves
  <2>2. Moves(s, InSector(s, a, l), l)
    BY <1>3, <2>1
  <2>3. QED
    BY <2>2, MovesAct
<1>4. CASE InSector(s, a, l) = OpenPage(s)
  BY <1>1, <1>4, OpenActs
<1>5. CASE InSector(s, a, l) = [s EXCEPT !.mode = "volume"]
  <2> DEFINE t == [s EXCEPT !.mode = "volume"]
  <2>1. t \in Sessions /\ Rest(s, t) /\ t.mode = "volume" /\ t.interp = s.interp
    BY <1>1, ModeMoves
  <2> HIDE DEF t
  <2>2. Focuses(t) /\ Blank(t) /\ ~t.quit /\ t.view = s.view
          /\ t.volume = s.volume /\ t.sector = s.sector
    BY <1>1, <2>1, RestFocuses DEF Blank, Rest, Place
  <2>3. Acts(s, t, l)
    BY <2>1, <2>2, EnterModeActs
  <2>4. QED
    BY <1>5, <2>3 DEF t
<1>6. QED
  BY <1>2, <1>3, <1>4, <1>5

\* From a page back to its sector, and from a record back to its page.
LEMMA AscendPageActs ==
    ASSUME NEW s, NEW l, Sound(s), s.pending = NoRequest, ~s.quit, s.mode = "page"
    PROVE Acts(s, [LeavePage(s) EXCEPT !.mode = "sector"], l)
<1> DEFINE t == LeavePage(s)
           u == [t EXCEPT !.mode = "sector"]
<1>1. t \in Sessions /\ Blank(t) /\ Place(s, t) /\ t.quit = s.quit /\ Focuses(t)
  BY LeavePageIs, LeavePageFocuses DEF Sound, Focuses
<1> HIDE DEF t
<1>2. u \in Sessions /\ Rest(t, u) /\ u.mode = "sector" /\ u.interp = t.interp
  BY <1>1, ModeMoves
<1> HIDE DEF u
<1>3. Focuses(u) /\ Blank(u) /\ ~u.quit /\ u.view = s.view
  BY <1>1, <1>2, RestFocuses DEF Blank, Rest, Place
<1>4. Acts(s, u, l)
  BY <1>2, <1>3 DEF Acts, Sound, Blank
<1>5. QED
  BY <1>4 DEF t, u

LEMMA AscendRecordActs ==
    ASSUME NEW s, NEW l, Sound(s), s.pending = NoRequest, ~s.quit, s.mode = "page",
           s.interp # Closed
    PROVE Acts(s, [CancelEnrichment(s) EXCEPT !.interp = Closed], l)
<1> DEFINE t == CancelEnrichment(s)
           c == Closed
           u == [t EXCEPT !.interp = c]
<1>1. s \in Sessions /\ Focuses(s) /\ PageIsRead(s)
  BY DEF Sound, Focuses
<1>2. /\ t \in Sessions /\ Place(s, t) /\ t.quit = s.quit /\ t.load = s.load
      /\ t.shown = s.shown /\ t.mode = s.mode /\ t.selected = s.selected
      /\ t.active = NoRequest /\ t.pending = NoRequest
  BY <1>1, CancelIs
<1> HIDE DEF t
<1>3. c \in Interps /\ c = Closed
  BY NoRequestIs
<1> HIDE DEF c
<1>4. u \in Sessions /\ Rest(t, u) /\ u.mode = t.mode /\ u.interp = c /\ u.selected = t.selected
  BY <1>2, <1>3, InterpMoves
<1>5. u = [t EXCEPT !.interp = Closed]
  BY <1>3
<1> HIDE DEF u
<1>6. Focuses(t) /\ Focused(t) = Focused(s) /\ t.view = s.view
  BY <1>1, <1>2, PlaceKept DEF Place
<1>7. Focuses(u) /\ Focused(u) = Focused(s) /\ u.view = s.view
  BY <1>4, <1>6, RestFocuses
<1>8. s.load = "ready"
  BY <1>1 DEF PageIsRead
<1>9. u.load = "ready" /\ u.shown = s.shown /\ ~u.quit /\ u.mode = "page"
        /\ u.selected = s.selected /\ u.active = NoRequest /\ u.pending = NoRequest
  BY <1>2, <1>4, <1>8 DEF Rest
<1>10. PageIsRead(u)
  BY <1>1, <1>3, <1>4, <1>7, <1>8, <1>9 DEF PageIsRead, Closed
<1>11. Acts(s, u, l)
  BY <1>7, <1>9, <1>10 DEF Acts, Sound
<1>12. QED
  BY <1>5, <1>11 DEF t

LEMMA InPageActs ==
    ASSUME NEW s, NEW a, NEW l, Shows(l), Sound(s), s.pending = NoRequest, ~s.quit,
           s.mode = "page"
    PROVE Acts(s, InPage(s, a, l), l)
<1>1. Focuses(s) /\ s \in Sessions
  BY DEF Sound, Focuses
<1>2. /\ s.sector \in Nat /\ s.sector < TotalSectors(s) /\ TotalSectors(s) \in Nat
      /\ s.volume \in 1 .. Len(SectorCounts) /\ Volumes = 1 .. Len(SectorCounts)
      /\ Len(SectorCounts) \in Nat
  BY <1>1, TotalIs, TerminalAssumption DEF Focuses, Sessions, Volumes
<1>3. \/ s.interp = Closed /\ \E i : InPage(s, a, l) = SelectItem(s, i, l)
      \/ \E n \in {-1, 1} : InPage(s, a, l) = ScrollItems(s, n, l)
      \/ s.interp # Closed /\ \E n \in {-1, 1} : InPage(s, a, l) = ScrollAttributes(s, n, l)
      \/ InPage(s, a, l) = ActivateSelection(s)
      \/ InPage(s, a, l) = [LeavePage(s) EXCEPT !.mode = "sector"]
      \/ s.interp # Closed /\ InPage(s, a, l) = [CancelEnrichment(s) EXCEPT !.interp = Closed]
      \/ s.sector > 0 /\ InPage(s, a, l) = MovePageToSector(s, s.sector - 1, l)
      \/ s.sector + 1 < TotalSectors(s) /\ InPage(s, a, l) = MovePageToSector(s, s.sector + 1, l)
      \/ s.volume > 1 /\ InPage(s, a, l) = MovePageToVolume(s, s.volume - 1)
      \/ s.volume < Len(SectorCounts) /\ InPage(s, a, l) = MovePageToVolume(s, s.volume + 1)
      \/ InPage(s, a, l) = s
  BY ZenonT(60) DEF InPage
<1>4. ASSUME s.interp = Closed, NEW i, InPage(s, a, l) = SelectItem(s, i, l)
      PROVE Acts(s, InPage(s, a, l), l)
  BY <1>4, SelectItemActs
<1>5. ASSUME NEW n \in {-1, 1}, InPage(s, a, l) = ScrollItems(s, n, l)
      PROVE Acts(s, InPage(s, a, l), l)
  BY <1>5, ScrollItemsActs
<1>6. ASSUME s.interp # Closed, NEW n \in {-1, 1}, InPage(s, a, l) = ScrollAttributes(s, n, l)
      PROVE Acts(s, InPage(s, a, l), l)
  BY <1>6, ScrollAttributesActs
<1>7. CASE InPage(s, a, l) = ActivateSelection(s)
  BY <1>7, ActivateSelectionActs
<1>8. CASE InPage(s, a, l) = [LeavePage(s) EXCEPT !.mode = "sector"]
  BY <1>8, AscendPageActs, ZenonT(60)
<1>9. CASE s.interp # Closed /\ InPage(s, a, l) = [CancelEnrichment(s) EXCEPT !.interp = Closed]
  BY <1>9, AscendRecordActs, ZenonT(60)
<1>10. CASE s.sector > 0 /\ InPage(s, a, l) = MovePageToSector(s, s.sector - 1, l)
  <2>1. s.sector - 1 \in Nat /\ s.sector - 1 < TotalSectors(s)
    BY <1>2, <1>10
  <2>2. QED
    BY <1>10, <2>1, MovePageToSectorActs
<1>11. CASE s.sector + 1 < TotalSectors(s)
              /\ InPage(s, a, l) = MovePageToSector(s, s.sector + 1, l)
  <2>1. s.sector + 1 \in Nat
    BY <1>2
  <2>2. QED
    BY <1>11, <2>1, MovePageToSectorActs
<1>12. CASE s.volume > 1 /\ InPage(s, a, l) = MovePageToVolume(s, s.volume - 1)
  <2>1. s.volume - 1 \in Volumes
    BY <1>2, <1>12
  <2>2. QED
    BY <1>12, <2>1, MovePageToVolumeActs
<1>13. CASE s.volume < Len(SectorCounts) /\ InPage(s, a, l) = MovePageToVolume(s, s.volume + 1)
  <2>1. s.volume + 1 \in Volumes
    BY <1>2, <1>13
  <2>2. QED
    BY <1>13, <2>1, MovePageToVolumeActs
<1>14. CASE InPage(s, a, l) = s
  BY <1>14, Stays
<1>15. QED
  BY <1>3, <1>4, <1>5, <1>6, <1>7, <1>8, <1>9, <1>10, <1>11, <1>12, <1>13, <1>14

LEMMA HelpActs ==
    ASSUME NEW s, NEW b \in BOOLEAN, NEW l, Sound(s), s.pending = NoRequest
    PROVE Acts(s, [s EXCEPT !.help = b], l)
<1> DEFINE t == [s EXCEPT !.help = b]
<1>1. s \in Sessions
  BY DEF Sound, Focuses
<1>2. /\ t \in Sessions /\ t.volume = s.volume /\ t.sector = s.sector /\ t.page = s.page
      /\ t.load = s.load /\ t.shown = s.shown /\ t.interp = s.interp
      /\ t.active = s.active /\ t.pending = s.pending /\ t.view = s.view /\ t.mode = s.mode
      /\ t.quit = s.quit /\ t.selected = s.selected
  BY <1>1, HelpMoves
<1> HIDE DEF t
<1>3. Focuses(t) /\ Focused(t) = Focused(s) /\ Blank(t) = Blank(s)
  BY <1>2 DEF Sound, Focuses, Focused, TotalSectors, Blank
<1>4. PageIsRead(s) => PageIsRead(t)
  BY <1>2, <1>3 DEF PageIsRead
<1>5. Acts(s, t, l)
  BY <1>2, <1>3, <1>4 DEF Acts, Sound
<1>6. QED
  BY <1>5 DEF t

LEMMA QuitActs ==
    ASSUME NEW s, NEW l, Sound(s), s.pending = NoRequest
    PROVE Acts(s, Quit(s), l)
<1> DEFINE t == IF s.mode = "page" THEN LeavePage(s) ELSE s
           u == [t EXCEPT !.quit = TRUE]
<1>1. s \in Sessions
  BY DEF Sound, Focuses
<1>2. t \in Sessions /\ t.volume = s.volume /\ t.sector = s.sector /\ t.selected \in {0, s.selected}
  BY <1>1, LeavePageIs DEF Place
<1> HIDE DEF t
<1>3. u.volume = s.volume /\ u.sector = s.sector /\ u.selected \in {0, s.selected}
  BY <1>2 DEF Sessions
<1>4. Quit(s) = u
  BY DEF Quit, t
<1> HIDE DEF u
<1>5. Sound(u) /\ u.view = s.view /\ Blank(u)
  BY <1>4, QuitIs
<1>6. QED
  BY <1>3, <1>4, <1>5 DEF Acts, Blank

LEMMA AdvanceActs ==
    ASSUME NEW s, NEW a, NEW l, Shows(l), Sound(s), s.pending = NoRequest, ~s.quit
    PROVE Acts(s, Advance(s, a, l), l)
<1>1. s.mode \in {"volume", "sector", "page"}
  BY SessionFields DEF Sound, Focuses
<1>2. CASE a = "quit"
  BY <1>2, QuitActs DEF Advance
<1>3. CASE a # "quit" /\ s.help
  <2>1. Advance(s, a, l) = [s EXCEPT !.help = a \notin {"help", "ascend"}]
    BY <1>3 DEF Advance
  <2>2. (a \notin {"help", "ascend"}) \in BOOLEAN
    OBVIOUS
  <2> DEFINE b == a \notin {"help", "ascend"}
  <2>3. b \in BOOLEAN /\ Advance(s, a, l) = [s EXCEPT !.help = b]
    BY <2>1, <2>2
  <2> HIDE DEF b
  <2>4. QED
    BY <2>3, HelpActs
<1>4. CASE a = "help" /\ ~s.help
  BY <1>4, HelpActs DEF Advance
<1>5. CASE a \notin {"quit", "help"} /\ ~s.help
  BY <1>1, <1>5, InVolumeActs, InSectorActs, InPageActs DEF Advance
<1>6. QED
  BY <1>2, <1>3, <1>4, <1>5

LEMMA ActsFollow ==
    ASSUME NEW s, NEW t, NEW u, NEW l, Acts(t, u, l), t.view = s.view, t.active = s.active,
           u.mode # "volume",
           u.mode # "page" \/ s.selected = t.selected
    PROVE Acts(s, u, l)
BY DEF Acts

LEMMA PointAtActs ==
    ASSUME NEW s, NEW l, NEW hit \in Hits(s, l), Shows(l), Sound(s), s.pending = NoRequest, ~s.quit
    PROVE Acts(s, PointAt(s, hit, l), l)
<1>1. Focuses(s) /\ s \in Sessions /\ s.mode \in {"volume", "sector", "page"} /\ l # TooSmall
  BY SessionFields, CapacityIs DEF Sound, Focuses, TooSmall
<1>2. CASE s.help
  BY <1>2, Stays DEF PointAt
<1>3. CASE ~s.help /\ s.mode = "volume"
  <2> DEFINE t == FocusSector(s, hit, l)
             u == InVolume(t, "enter", l)
  <2>1. s.top \in Nat /\ TotalSectors(s) \in Nat /\ Capacity(l) \in Nat
    BY <1>1, SessionFields, TotalIs, CapacityIs
  <2>2. hit \in s.top .. (LowerOf(s.top + Capacity(l), TotalSectors(s)) - 1)
    BY <1>1, <1>3 DEF Hits, SectorHits
  <2>3. hit \in Nat /\ hit < TotalSectors(s)
    BY <2>1, <2>2 DEF LowerOf
  <2>4. Moves(s, t, l)
    BY <1>1, <2>3, FocusSectorMoves
  <2>5. Acts(s, t, l)
    BY <1>3, <2>4, MovesAct
  <2> HIDE DEF t
  <2>6. /\ Sound(t) /\ t.pending = NoRequest /\ ~t.quit /\ t.mode = "volume"
        /\ t.view = s.view /\ t.active = s.active
    BY <1>3, <2>4, <2>5 DEF Acts, Moves, Keeps
  <2>7. Acts(t, u, l)
    BY <2>6, InVolumeActs
  <2>8. u.mode = "sector"
    <3>1. t \in Sessions /\ u = [[t EXCEPT !.mode = "sector"] EXCEPT !.page = 0]
      BY <2>6 DEF Sound, Focuses, InVolume
    <3>2. QED
      BY <3>1 DEF Sessions
  <2>9. PointAt(s, hit, l) = u
    BY <1>3 DEF PointAt, t
  <2> HIDE DEF u
  <2>10. QED
    BY <2>6, <2>7, <2>8, <2>9, ActsFollow
<1>4. CASE ~s.help /\ s.mode = "sector"
  <2> DEFINE t == [s EXCEPT !.page = hit]
  <2>1. hit \in Grid
    BY <1>1, <1>4 DEF Hits, PageHits
  <2>2. t \in Sessions /\ t.volume = s.volume /\ t.sector = s.sector /\ Keeps(s, t)
    BY <1>1, <2>1, PageMoves
  <2>3. PointAt(s, hit, l) = OpenPage(t)
    BY <1>4 DEF PointAt
  <2> HIDE DEF t
  <2>4. Focuses(t) /\ Blank(t) /\ ~t.quit /\ t.view = s.view
    BY <1>1, <1>4, <2>2 DEF Sound, Focuses, Blank, Keeps, TotalSectors
  <2>5. QED
    BY <2>3, <2>4, OpenActs
<1>5. CASE ~s.help /\ s.mode = "page"
  BY <1>5, SelectItemActs, Stays DEF PointAt
<1>6. QED
  BY <1>1, <1>2, <1>3, <1>4, <1>5

-----------------------------------------------------------------------------
(* A completed read: only the request still wanted is adopted.                  *)

Results == {"none", "facts", "limited", "error", "invalidated"}
Jobs == [state : {"none", "running", "done"}, request : Requests, base : ViewSet,
         cancelled : BOOLEAN, result : Results, view : ViewSet]

LEMMA ViewMoves ==
    ASSUME NEW s \in Sessions, NEW v \in ViewSet
    PROVE LET t == [s EXCEPT !.view = v]
          IN  /\ t \in Sessions /\ t.volume = s.volume /\ t.sector = s.sector /\ t.page = s.page
              /\ t.quit = s.quit /\ t.load = s.load /\ t.shown = s.shown /\ t.mode = s.mode
              /\ t.interp = s.interp /\ t.selected = s.selected /\ t.topItem = s.topItem
              /\ t.active = s.active /\ t.pending = s.pending /\ t.view = v
BY DEF Sessions

\* Whoever waits for a read is on the page, and at the record, that it was asked for.
LEMMA WaitingIsWanted ==
    ASSUME NEW s, Sound(s), s.active # NoRequest
    PROVE /\ StillWanted(s, s.active) /\ ~s.quit /\ s.active.page = Focused(s)
          /\ s.active.page \in PageSet
<1>1. ~s.quit /\ s.mode = "page" /\ PageIsRead(s) /\ Focuses(s)
  BY DEF Sound, Blank
<1>2. Focused(s) \in PageSet
  BY <1>1, FocusedIsAPage
<1>3. CASE s.load = "loading"
  BY <1>1, <1>2, <1>3 DEF PageIsRead, StillWanted, PageRequest
<1>4. CASE s.load # "loading"
  BY <1>1, <1>2, <1>4 DEF PageIsRead, StillWanted, Closed
<1>5. QED
  BY <1>3, <1>4

LEMMA AdoptedIs ==
    ASSUME NEW s, NEW l, NEW v \in ViewSet, Sound(s), s.active # NoRequest,
           s.view.deep \subseteq v.deep, Adoptable(s.active, v)
    PROVE LET t == Adopted(s, s.active, v)
          IN  /\ Sound(t) /\ t.active = NoRequest /\ t.pending = NoRequest /\ ~t.quit
              /\ t.mode = "page"
              /\ Shows(l) /\ t.interp = Closed /\ t.selected \notin {0, s.selected} =>
                   RowInFrame(t, l)
<1> DEFINE r == s.active
           c == CancelEnrichment(s)
           w == [c EXCEPT !.view = v]
           t == Adopted(s, r, v)
<1>1. /\ s \in Sessions /\ PageIsRead(s) /\ s.mode = "page" /\ Focuses(s)
  BY DEF Sound, Focuses, Blank
<1>2. /\ ~s.quit /\ r.page = Focused(s) /\ r.page \in PageSet /\ r.page # NoPage
      /\ StillWanted(s, r) /\ r \in Requests
  BY <1>1, WaitingIsWanted, FocusedIsAPage, SessionFields
<1>3. r.item \in Nat
  BY <1>2 DEF Requests
<1>4. /\ c \in Sessions /\ Place(s, c) /\ c.quit = s.quit /\ c.load = s.load /\ c.mode = s.mode
      /\ c.interp = s.interp /\ c.selected = s.selected /\ c.topItem = s.topItem
      /\ c.active = NoRequest /\ c.pending = NoRequest
  BY <1>1, CancelIs
<1>5. t = IF r.item # 0
          THEN [w EXCEPT !.load = "ready", !.shown = r.page,
                         !.interp = [item |-> r.item, top |-> 0,
                                     load |-> IF <<r.page, r.item>> \in v.ready
                                              THEN "ready" ELSE "unavailable"]]
          ELSE IF Content[r.page] = "slotted"
          THEN [w EXCEPT !.selected = 1, !.topItem = 1, !.shown = r.page, !.load = "ready"]
          ELSE [w EXCEPT !.load = "unavailable", !.shown = NoPage, !.selected = 0,
                         !.topItem = 0]
  BY DEF Adopted, Install
<1> HIDE DEF c, r
<1>6. /\ w \in Sessions /\ w.volume = s.volume /\ w.sector = s.sector /\ w.page = s.page
      /\ ~w.quit /\ w.load = s.load /\ w.mode = "page" /\ w.interp = s.interp
      /\ w.selected = s.selected /\ w.topItem = s.topItem /\ w.active = NoRequest
      /\ w.pending = NoRequest /\ w.view = v
  BY <1>1, <1>2, <1>4, ViewMoves DEF Place
<1> HIDE DEF w, t
<1>7. Adoptable(r, v) /\ s.view.deep \subseteq v.deep
  BY DEF r
<1>8. ASSUME t \in Sessions, t.volume = w.volume, t.sector = w.sector, t.page = w.page
      PROVE Focuses(t) /\ Focused(t) = Focused(s)
  BY <1>1, <1>6, <1>8 DEF Focuses, Focused, TotalSectors
<1>9. CASE r.item # 0
  <2> DEFINE x == [item |-> r.item, top |-> 0,
                   load |-> IF <<r.page, r.item>> \in v.ready THEN "ready" ELSE "unavailable"]
  <2>1. /\ x \in Interps /\ x.item = r.item /\ x.load \notin {"closed", "loading"}
        /\ x # Closed
    BY <1>3, <1>9 DEF Interps, Closed
  <2>2. t = [w EXCEPT !.load = "ready", !.shown = r.page, !.interp = x]
    BY <1>5, <1>9
  <2> HIDE DEF x
  <2>3. /\ "ready" \in {"idle", "loading", "ready", "failed", "unavailable"}
        /\ r.page \in PageSet \cup {NoPage}
    BY <1>2
  <2>4. t \in Sessions
    BY <1>6, <2>1, <2>2, <2>3, Zenon DEF Sessions
  <2>5. /\ t.volume = w.volume /\ t.sector = w.sector /\ t.page = w.page /\ ~t.quit
        /\ t.mode = "page" /\ t.active = NoRequest /\ t.pending = NoRequest /\ t.view = v
        /\ t.load = "ready" /\ t.shown = r.page /\ t.interp = x /\ t.selected = s.selected
    BY <1>6, <2>2 DEF Sessions
  <2>6. s.interp.item = r.item /\ s.interp # Closed
    BY <1>2, <1>9 DEF StillWanted, Closed
  <2>7. Focuses(t) /\ Focused(t) = Focused(s)
    BY <1>8, <2>4, <2>5
  <2>8. s.selected = r.item /\ Focused(s) \in v.deep
    BY <1>1, <1>7, <2>6 DEF PageIsRead
  <2>9. PageIsRead(t)
    BY <1>2, <1>9, <2>1, <2>5, <2>7, <2>8 DEF PageIsRead
  <2>10. Sound(t)
    BY <2>5, <2>7, <2>9 DEF Sound
  <2>11. QED
    BY <2>1, <2>5, <2>10 DEF t, r
<1>10. CASE r.item = 0 /\ Content[r.page] = "slotted"
  <2>1. t = [w EXCEPT !.selected = 1, !.topItem = 1, !.shown = r.page, !.load = "ready"]
    BY <1>5, <1>10
  <2>2. /\ "ready" \in {"idle", "loading", "ready", "failed", "unavailable"}
        /\ r.page \in PageSet \cup {NoPage} /\ 1 \in Nat /\ 1 \in Int
    BY <1>2
  <2>3. t \in Sessions
    BY <1>6, <2>1, <2>2, Zenon DEF Sessions
  <2>4. /\ t.volume = w.volume /\ t.sector = w.sector /\ t.page = w.page /\ ~t.quit
        /\ t.mode = "page" /\ t.active = NoRequest /\ t.pending = NoRequest /\ t.view = v
        /\ t.load = "ready" /\ t.shown = r.page /\ t.interp = w.interp /\ t.selected = 1
        /\ t.topItem = 1
    BY <1>6, <2>1 DEF Sessions
  <2>5. w.interp = Closed /\ r.page \in v.deep
    BY <1>2, <1>6, <1>7, <1>10 DEF StillWanted, Adoptable
  <2>6. Focuses(t) /\ Focused(t) = Focused(s)
    BY <1>8, <2>3, <2>4
  <2>7. PageIsRead(t)
    BY <1>2, <2>4, <2>5, <2>6 DEF PageIsRead, Closed
  <2>8. Sound(t)
    BY <2>4, <2>6, <2>7 DEF Sound
  <2>9. Shows(l) => RowInFrame(t, l)
    BY <1>2, <1>6, <2>4, <2>5, FirstRowInFrame
  <2>10. QED
    BY <2>4, <2>8, <2>9 DEF t, r
<1>11. CASE r.item = 0 /\ Content[r.page] # "slotted"
  <2> DEFINE none == NoPage
  <2>1. t = [w EXCEPT !.load = "unavailable", !.shown = none, !.selected = 0, !.topItem = 0]
    BY <1>5, <1>11
  <2>2. /\ "unavailable" \in {"idle", "loading", "ready", "failed", "unavailable"}
        /\ none \in PageSet \cup {NoPage} /\ 0 \in Nat /\ 0 \in Int /\ none = NoPage
    OBVIOUS
  <2> HIDE DEF none
  <2>3. t \in Sessions
    BY <1>6, <2>1, <2>2, Zenon DEF Sessions
  <2>4. /\ t.volume = w.volume /\ t.sector = w.sector /\ t.page = w.page /\ ~t.quit
        /\ t.mode = "page" /\ t.active = NoRequest /\ t.pending = NoRequest /\ t.view = v
        /\ t.load = "unavailable" /\ t.shown = none /\ t.interp = w.interp /\ t.selected = 0
    BY <1>6, <2>1 DEF Sessions
  <2>5. w.interp = Closed
    BY <1>2, <1>6, <1>11 DEF StillWanted
  <2>6. Focuses(t) /\ Focused(t) = Focused(s)
    BY <1>8, <2>3, <2>4
  <2>7. PageIsRead(t)
    BY <2>2, <2>4, <2>5, <2>6 DEF PageIsRead, Closed
  <2>8. Sound(t)
    BY <2>4, <2>6, <2>7 DEF Sound
  <2>9. QED
    BY <2>4, <2>8 DEF t, r
<1>12. QED
  BY <1>9, <1>10, <1>11

LEMMA FailedIs ==
    ASSUME NEW s, Sound(s), s.active # NoRequest
    PROVE LET t == Failed(s, s.active)
          IN  /\ Sound(t) /\ t.active = NoRequest /\ t.pending = NoRequest /\ ~t.quit
              /\ t.mode = "page" /\ t.selected = s.selected
<1> DEFINE r == s.active
           c == CancelEnrichment(s)
           t == Failed(s, r)
<1>1. /\ s \in Sessions /\ PageIsRead(s) /\ s.mode = "page" /\ Focuses(s)
  BY DEF Sound, Focuses, Blank
<1>2. /\ ~s.quit /\ StillWanted(s, r) /\ r \in Requests
  BY <1>1, WaitingIsWanted, SessionFields
<1>3. r.item \in Nat
  BY <1>2 DEF Requests
<1>4. /\ c \in Sessions /\ Place(s, c) /\ c.quit = s.quit /\ c.load = s.load /\ c.mode = s.mode
      /\ c.shown = s.shown /\ c.interp = s.interp /\ c.selected = s.selected
      /\ c.active = NoRequest /\ c.pending = NoRequest
  BY <1>1, CancelIs
<1>5. t = IF r.item = 0 THEN [c EXCEPT !.load = "failed"]
          ELSE [c EXCEPT !.interp = [item |-> r.item, load |-> "failed", top |-> 0]]
  BY DEF Failed
<1> HIDE DEF c, t
<1>6. CASE r.item = 0
  <2>1. t = [c EXCEPT !.load = "failed"] /\ s.interp = Closed
    BY <1>2, <1>5, <1>6 DEF StillWanted
  <2>2. s.load = "loading"
    BY <1>1, <1>6, <2>1 DEF PageIsRead, Closed, PageRequest
  <2>3. /\ t \in Sessions /\ Place(c, t) /\ t.quit = c.quit /\ t.load = "failed"
        /\ t.mode = c.mode /\ t.shown = c.shown /\ t.interp = c.interp
        /\ t.selected = c.selected /\ t.active = c.active /\ t.pending = c.pending
    BY <1>4, <2>1 DEF Sessions, Place
  <2>4. Place(s, t)
    BY <1>4, <2>3 DEF Place
  <2>5. Focuses(t)
    BY <1>1, <2>3, <2>4, PlaceKept
  <2>6. PageIsRead(t)
    BY <1>1, <1>4, <2>1, <2>2, <2>3 DEF PageIsRead, Closed
  <2>7. Sound(t)
    BY <1>1, <1>2, <1>4, <2>3, <2>5, <2>6 DEF Sound
  <2>8. QED
    BY <1>1, <1>2, <1>4, <2>3, <2>7 DEF t, r
<1>7. CASE r.item # 0
  <2> DEFINE x == [item |-> r.item, load |-> "failed", top |-> 0]
  <2>1. t = [c EXCEPT !.interp = x]
    BY <1>5, <1>7
  <2>2. s.interp # Closed /\ s.selected = r.item
    BY <1>2, <1>7 DEF StillWanted, Closed
  <2>3. x \in Interps /\ x # Closed /\ x.item = r.item /\ x.load = "failed"
    BY <1>3, <1>7 DEF Interps, Closed
  <2> HIDE DEF x
  <2>4. /\ t \in Sessions /\ Rest(c, t) /\ t.mode = c.mode /\ t.interp = x
        /\ t.selected = c.selected
    BY <1>4, <2>1, <2>3, InterpMoves
  <2>5. Place(s, t)
    BY <1>4, <2>4 DEF Place, Rest
  <2>6. Focuses(t) /\ Focused(t) = Focused(s) /\ t.view = s.view
    BY <1>1, <2>4, <2>5, PlaceKept DEF Place
  <2>7. t.load = s.load /\ t.shown = s.shown /\ t.active = NoRequest /\ t.pending = NoRequest
          /\ ~t.quit /\ t.mode = "page"
    BY <1>1, <1>2, <1>4, <2>4 DEF Rest
  <2>8. PageIsRead(t)
    BY <1>1, <1>4, <1>7, <2>2, <2>3, <2>4, <2>6, <2>7 DEF PageIsRead
  <2>9. Sound(t)
    BY <2>6, <2>7, <2>8 DEF Sound
  <2>10. QED
    BY <1>4, <2>4, <2>7, <2>9 DEF t, r
<1>8. QED
  BY <1>6, <1>7

-----------------------------------------------------------------------------
(* Frames. *)

LEMMA SameFrame ==
    ASSUME NEW s \in Sessions, NEW t \in Sessions, NEW l, Visible(s) = Visible(t)
    PROVE Commit(s, l) = Commit(t, l)
<1> DEFINE n == NoRequest
           u == [s EXCEPT !.active = n, !.pending = n]
           v == [t EXCEPT !.active = n, !.pending = n]
<1>1. u = v
  BY DEF Visible
<1> HIDE DEF n
<1>2. /\ u.help = s.help /\ u.mode = s.mode /\ u.top = s.top /\ u.volume = s.volume
      /\ u.interp = s.interp /\ u.shown = s.shown /\ u.topItem = s.topItem
  BY DEF Sessions
<1>3. /\ v.help = t.help /\ v.mode = t.mode /\ v.top = t.top /\ v.volume = t.volume
      /\ v.interp = t.interp /\ v.shown = t.shown /\ v.topItem = t.topItem
  BY DEF Sessions
<1> HIDE DEF u, v
<1>4. Hits(s, l) = Hits(t, l)
  BY <1>1, <1>2, <1>3 DEF Hits, SectorHits, RowHits, TotalSectors
<1>5. QED
  BY <1>4 DEF Commit

\* A request taken out of a session is not to be seen.
LEMMA TakenRequest ==
    ASSUME NEW s \in Sessions, NEW l
    PROVE LET t == [s EXCEPT !.pending = NoRequest]
          IN  /\ t \in Sessions /\ Commit(t, l) = Commit(s, l) /\ t.pending = NoRequest
              /\ t.volume = s.volume /\ t.sector = s.sector /\ t.page = s.page
              /\ t.quit = s.quit /\ t.load = s.load /\ t.shown = s.shown /\ t.mode = s.mode
              /\ t.interp = s.interp /\ t.selected = s.selected /\ t.active = s.active
              /\ t.view = s.view /\ t.help = s.help
<1> DEFINE n == NoRequest
           t == [s EXCEPT !.pending = n]
<1>1. n \in Requests /\ n = NoRequest /\ t = [s EXCEPT !.pending = NoRequest]
  BY NoRequestIs
<1> HIDE DEF n
<1>2. /\ t \in Sessions /\ t.pending = n
      /\ t.volume = s.volume /\ t.sector = s.sector /\ t.page = s.page
      /\ t.quit = s.quit /\ t.load = s.load /\ t.shown = s.shown /\ t.mode = s.mode
      /\ t.interp = s.interp /\ t.selected = s.selected /\ t.active = s.active
      /\ t.view = s.view /\ t.help = s.help
  BY <1>1 DEF Sessions
<1>3. [t EXCEPT !.active = n, !.pending = n] = [s EXCEPT !.active = n, !.pending = n]
  BY <1>1 DEF Sessions
<1>4. Visible(t) = Visible(s)
  BY <1>1, <1>3 DEF Visible
<1> HIDE DEF t
<1>5. Commit(t, l) = Commit(s, l)
  BY <1>2, <1>4, SameFrame
<1>6. QED
  BY <1>1, <1>2, <1>5, Zenon

LEMMA TakenIsSound ==
    ASSUME NEW s, Sound(s)
    PROVE Sound([s EXCEPT !.pending = NoRequest])
<1> DEFINE t == [s EXCEPT !.pending = NoRequest]
<1>1. s \in Sessions
  BY DEF Sound, Focuses
<1>2. /\ t \in Sessions /\ t.pending = NoRequest
      /\ t.volume = s.volume /\ t.sector = s.sector /\ t.page = s.page
      /\ t.quit = s.quit /\ t.load = s.load /\ t.shown = s.shown /\ t.mode = s.mode
      /\ t.interp = s.interp /\ t.selected = s.selected /\ t.active = s.active
      /\ t.view = s.view
  BY <1>1, TakenRequest
<1> HIDE DEF t
<1>3. Focuses(t) /\ Focused(t) = Focused(s)
  BY <1>2 DEF Sound, Focuses, Focused, TotalSectors
<1>4. Blank(s) => Blank(t)
  BY <1>2 DEF Blank
<1>5. PageIsRead(s) => PageIsRead(t)
  BY <1>2, <1>3 DEF PageIsRead
<1>6. Sound(t)
  BY <1>2, <1>3, <1>4, <1>5 DEF Sound
<1>7. QED
  BY <1>6 DEF t

-----------------------------------------------------------------------------
(* The inductive invariant of the host: the session is sound and has handed over  *)
(* its request; while the loop runs, the frame is the session's, and what the     *)
(* session waits for is with the worker, on the view the session has.             *)

JobIsWanted ==
    job.state # "none" /\ ~job.cancelled /\ job.request = ses.active /\ job.base = ses.view

JobSound ==
    /\ job \in Jobs
    /\ job.state # "none" => job.request.page \in PageSet
    /\ job.state = "done" => job.base.deep \subseteq job.view.deep

ScreenSound ==
    /\ screen = [surface |-> screen.surface, committed |-> screen.committed, kept |-> screen.kept]
    /\ screen.surface \in Surfaces
    /\ screen.committed = Commit(ses, screen.surface)

HostInv ==
    /\ Sound(ses) /\ ses.pending = NoRequest
    /\ JobSound
    /\ loop.phase \in {"enter", "start", "loop", "close", "ended"}
    /\ loop.phase \in {"enter", "start"} => ~ses.quit /\ ses.active = NoRequest
    /\ loop.phase = "loop" =>
         ~ses.quit /\ ScreenSound /\ (ses.active # NoRequest => JobIsWanted)

LEMMA SurfaceIs ==
    ASSUME NEW l \in Surfaces
    PROVE l = TooSmall \/ Shows(l)
BY TerminalAssumption DEF Surfaces, Shows

LEMMA FreshIs == Sound(FreshSession) /\ FreshSession.pending = NoRequest
                   /\ FreshSession.active = NoRequest /\ ~FreshSession.quit
<1> DEFINE n == NoRequest
           c == Closed
           none == NoPage
           b == BaseView
           s == [volume |-> 1, sector |-> 0, top |-> 0, mode |-> "volume", page |-> 0,
                 load |-> "idle", shown |-> none, selected |-> 0, topItem |-> 0,
                 interp |-> c, help |-> FALSE, quit |-> FALSE,
                 active |-> n, pending |-> n, view |-> b]
<1>1. /\ n \in Requests /\ c \in Interps /\ none \in PageSet \cup {NoPage}
      /\ n = NoRequest /\ c = Closed /\ none = NoPage
  BY NoRequestIs
<1>2. b \in ViewSet
  BY DEF BaseView, ViewSet
<1>3. s = FreshSession
  BY DEF FreshSession
<1>4. 1 \in Volumes /\ SectorCounts[1] \in Nat \ {0} /\ 0 \in Grid
  BY TerminalAssumption DEF Volumes, Grid
<1> HIDE DEF n, c, none, b
<1>5. s \in Sessions
  <2>1. 0 \in Nat /\ 0 \in Int /\ FALSE \in BOOLEAN /\ "volume" \in {"volume", "sector", "page"}
          /\ "idle" \in {"idle", "loading", "ready", "failed", "unavailable"}
    OBVIOUS
  <2>2. QED
    BY <1>1, <1>2, <1>4, <2>1, Zenon DEF Sessions
<1>6. s.sector < TotalSectors(s)
  BY <1>4 DEF TotalSectors
<1>7. Sound(s) /\ s.pending = NoRequest /\ s.active = NoRequest /\ ~s.quit
  BY <1>1, <1>5, <1>6 DEF Sound, Focuses, Blank
<1> HIDE DEF s
<1>8. QED
  BY <1>3, <1>7

LEMMA NoJobIs == NoJob \in Jobs /\ NoJob.state = "none"
<1>1. BaseView \in ViewSet
  BY DEF BaseView, ViewSet
<1>2. NoRequest \in Requests
  BY NoRequestIs
<1>3. /\ "none" \in {"none", "running", "done"} /\ "none" \in Results /\ FALSE \in BOOLEAN
  BY DEF Results
<1>4. NoJob \in Jobs
  BY <1>1, <1>2, <1>3, Zenon DEF NoJob, Jobs
<1>5. QED
  BY <1>4 DEF NoJob

LEMMA HostInitially == HostInit => HostInv
BY FreshIs, NoJobIs DEF HostInit, HostInv, JobSound

LEMMA CancelledIs ==
    ASSUME NEW s, job \in Jobs
    PROVE /\ Cancelled(s) \in Jobs /\ Cancelled(s).state = job.state
          /\ Cancelled(s).request = job.request /\ Cancelled(s).base = job.base
          /\ Cancelled(s).view = job.view
          /\ s.active = ses.active => Cancelled(s) = job
<1>1. CASE Cancelled(s) = job
  BY <1>1
<1>2. CASE Cancelled(s) = [job EXCEPT !.cancelled = TRUE] /\ s.active # ses.active
  <2> DEFINE j == [job EXCEPT !.cancelled = TRUE]
  <2>1. /\ j \in Jobs /\ j.state = job.state /\ j.request = job.request /\ j.base = job.base
        /\ j.view = job.view
    BY DEF Jobs
  <2> HIDE DEF j
  <2>2. Cancelled(s) = j
    BY <1>2 DEF j
  <2>3. QED
    BY <1>2, <2>1, <2>2
<1>3. QED
  BY <1>1, <1>2 DEF Cancelled

LEMMA JobOfIs ==
    ASSUME NEW s \in Sessions
    PROVE /\ JobOf(s) \in Jobs /\ JobOf(s).state = "running" /\ JobOf(s).request = s.pending
          /\ JobOf(s).base = s.view /\ ~JobOf(s).cancelled
<1>1. BaseView \in ViewSet /\ s.pending \in Requests /\ s.view \in ViewSet
  BY SessionFields DEF BaseView, ViewSet
<1>2. "running" \in {"none", "running", "done"} /\ "none" \in Results /\ FALSE \in BOOLEAN
  BY DEF Results
<1>3. JobOf(s) \in Jobs
  BY <1>1, <1>2, Zenon DEF JobOf, Jobs
<1>4. QED
  BY <1>3 DEF JobOf

\* What an event did is dispatched: the request it left is given to the worker.
LEMMA DispatchKeeps ==
    ASSUME HostInv, loop.phase = "loop", NEW s, Acts(ses, s, screen.surface), Dispatch(s),
           screen' = [surface |-> screen.surface, committed |-> Commit(s, screen.surface),
                      kept |-> screen'.kept]
    PROVE /\ HostInv'
          /\ ses' = s \/ ses' = [s EXCEPT !.pending = NoRequest]
<1>1. /\ Sound(s) /\ s \in Sessions /\ s.view = ses.view /\ s.active \in Requests
      /\ s.quit \in BOOLEAN
      /\ IF s.pending = NoRequest THEN s.active \in {NoRequest, ses.active}
         ELSE s.active = s.pending
  BY SessionFields DEF Acts, Sound, Focuses
<1>2. job \in Jobs /\ JobSound /\ screen.surface \in Surfaces
  BY DEF HostInv, JobSound, ScreenSound
<1>3. /\ Cancelled(s) \in Jobs /\ Cancelled(s).state = job.state
      /\ Cancelled(s).request = job.request /\ Cancelled(s).base = job.base
      /\ Cancelled(s).view = job.view
      /\ s.active = ses.active => Cancelled(s) = job
  BY <1>2, CancelledIs
<1>4. /\ screen'.surface = screen.surface /\ screen'.committed = Commit(s, screen.surface)
      /\ screen' = [surface |-> screen'.surface, committed |-> screen'.committed,
                    kept |-> screen'.kept]
  <2> DEFINE m == Commit(s, screen.surface)
  <2>1. screen' = [surface |-> screen.surface, committed |-> m, kept |-> screen'.kept]
    OBVIOUS
  <2> HIDE DEF m
  <2>2. screen'.surface = screen.surface /\ screen'.committed = m
    BY <2>1
  <2>3. QED
    BY <2>1, <2>2 DEF m
<1>5. CASE s.quit
  <2>1. ses' = s /\ loop'.phase = "close" /\ job' = Cancelled(s) /\ s.pending = NoRequest
    BY <1>1, <1>5 DEF Dispatch, Sound, Blank
  <2>2. JobSound'
    BY <1>2, <1>3, <2>1 DEF JobSound
  <2>3. QED
    BY <1>1, <2>1, <2>2 DEF HostInv
<1>6. CASE ~s.quit /\ s.pending = NoRequest
  <2>1. ses' = s /\ loop' = loop /\ job' \in {job, Cancelled(s)}
    BY <1>6 DEF Dispatch
  <2>2. JobSound'
    BY <1>2, <1>3, <2>1 DEF JobSound
  <2>3. ScreenSound'
    BY <1>2, <1>4, <2>1 DEF ScreenSound
  <2>4. s.active # NoRequest => JobIsWanted'
    <3>1. SUFFICES ASSUME s.active # NoRequest PROVE JobIsWanted'
      OBVIOUS
    <3>2. s.active = ses.active /\ job' = job
      BY <1>1, <1>3, <1>6, <2>1, <3>1
    <3>3. JobIsWanted
      BY <3>1, <3>2 DEF HostInv
    <3>4. QED
      BY <1>1, <2>1, <3>2, <3>3 DEF JobIsWanted
  <2>5. QED
    BY <1>1, <1>6, <2>1, <2>2, <2>3, <2>4 DEF HostInv
<1>7. CASE ~s.quit /\ s.pending # NoRequest
  <2> DEFINE t == [s EXCEPT !.pending = NoRequest]
  <2>1. /\ Sound(t) /\ Commit(t, screen.surface) = Commit(s, screen.surface)
        /\ t.pending = NoRequest /\ t.active = s.active /\ t.view = s.view /\ t.quit = s.quit
    BY <1>1, TakenRequest, TakenIsSound
  <2>2. ses' = t
    BY <1>7 DEF Dispatch
  <2> HIDE DEF t
  <2>3. CASE job.state # "none"
    <3>1. loop'.phase = "close" /\ job' = Cancelled(s)
      BY <1>7, <2>3 DEF Dispatch
    <3>2. JobSound'
      BY <1>2, <1>3, <3>1 DEF JobSound
    <3>3. QED
      BY <2>1, <2>2, <3>1, <3>2 DEF HostInv, t
  <2>4. CASE job.state = "none"
    <3>1. loop' = loop /\ job' = JobOf(s)
      BY <1>7, <2>4 DEF Dispatch
    <3>2. /\ job' \in Jobs /\ job'.state = "running" /\ job'.request = s.active
          /\ job'.base = s.view /\ ~job'.cancelled
      BY <1>1, <1>7, <3>1, JobOfIs
    <3>3. s.active # NoRequest => s.active.page \in PageSet
      BY <1>1, WaitingIsWanted
    <3>4. JobSound'
      BY <1>1, <1>7, <3>2, <3>3 DEF JobSound
    <3>5. ScreenSound'
      BY <1>2, <1>4, <2>1, <2>2 DEF ScreenSound
    <3>6. JobIsWanted'
      BY <2>1, <2>2, <3>2 DEF JobIsWanted
    <3>7. QED
      BY <1>7, <2>1, <2>2, <3>1, <3>4, <3>5, <3>6 DEF HostInv, t
  <2>5. QED
    BY <2>3, <2>4
<1>8. QED
  BY <1>1, <1>5, <1>6, <1>7

\* What one turn of the loop does, whatever the event was.
Turn ==
    \E s : /\ Acts(ses, s, screen.surface) /\ Dispatch(s)
           /\ screen' = [surface |-> screen.surface, committed |-> Commit(s, screen.surface),
                         kept |-> screen'.kept]

\* A frame is committed again when something of the session that can be seen changed.
LEMMA CommittedIs ==
    ASSUME HostInv, loop.phase = "loop", NEW s \in Sessions
    PROVE (IF Visible(s) # Visible(ses) THEN Commit(s, screen.surface) ELSE screen.committed)
             = Commit(s, screen.surface)
<1>1. ses \in Sessions /\ screen.committed = Commit(ses, screen.surface)
  BY DEF HostInv, ScreenSound, Sound, Focuses
<1>2. QED
  BY <1>1, SameFrame

LEMMA RenderedIs ==
    ASSUME HostInv, loop.phase = "loop", NEW s \in Sessions, RenderIfChanged(s)
    PROVE screen' = [surface |-> screen.surface, committed |-> Commit(s, screen.surface),
                     kept |-> screen'.kept]
<1> DEFINE m == Commit(s, screen.surface)
<1>1. screen = [surface |-> screen.surface, committed |-> screen.committed,
                kept |-> screen.kept]
  BY DEF HostInv, ScreenSound
<1>2. screen' = [screen EXCEPT !.committed = m] \/ (screen' = screen /\ screen.committed = m)
  <2>1. CASE Visible(s) # Visible(ses)
    BY <2>1 DEF RenderIfChanged
  <2>2. CASE Visible(s) = Visible(ses)
    <3>1. ses \in Sessions /\ screen.committed = Commit(ses, screen.surface)
      BY DEF HostInv, ScreenSound, Sound, Focuses
    <3>2. screen.committed = m
      BY <2>2, <3>1, SameFrame
    <3>3. QED
      BY <2>2, <3>2 DEF RenderIfChanged
  <2>3. QED
    BY <2>1, <2>2
<1> HIDE DEF m
<1>3. screen' = [surface |-> screen.surface, committed |-> m, kept |-> screen'.kept]
  BY <1>1, <1>2
<1>4. QED
  BY <1>3 DEF m

LEMMA ActsIsSession ==
    ASSUME NEW s, NEW t, NEW l, Acts(s, t, l)
    PROVE t \in Sessions
BY DEF Acts, Sound, Focuses

LEMMA HandleTurns ==
    ASSUME HostInv, loop.phase = "loop", NEW event, Handle(event),
           event.kind = "point" => event.what \in screen.committed.hits
    PROVE Turn
<1> DEFINE l == screen.surface
           s == IF l = TooSmall
                THEN IF event = [kind |-> "act", what |-> "quit"] THEN Quit(ses) ELSE ses
                ELSE CASE event.kind = "act" -> Advance(ses, event.what, l)
                       [] event.kind = "point" -> PointAt(ses, event.what, l)
                       [] OTHER -> ses
<1>1. /\ Sound(ses) /\ ses.pending = NoRequest /\ ~ses.quit /\ l \in Surfaces
      /\ screen.committed = Commit(ses, l)
  BY DEF HostInv, ScreenSound
<1>2. RenderIfChanged(s) /\ Dispatch(s)
  BY DEF Handle
<1>3. Acts(ses, s, l)
  <2>1. CASE l = TooSmall
    BY <1>1, <2>1, QuitActs, Stays
  <2>2. CASE l # TooSmall
    <3>1. Shows(l)
      BY <1>1, <2>2, SurfaceIs
    <3>2. event.kind = "point" => event.what \in Hits(ses, l)
      BY <1>1 DEF Commit
    <3>3. \/ s = Advance(ses, event.what, l)
          \/ event.kind = "point" /\ s = PointAt(ses, event.what, l)
          \/ s = ses
      BY <2>2
    <3> HIDE DEF s, l
    <3>4. QED
      BY <1>1, <3>1, <3>2, <3>3, AdvanceActs, PointAtActs, Stays
  <2>3. QED
    BY <2>1, <2>2
<1> HIDE DEF s
<1>4. s \in Sessions
  BY <1>3, ActsIsSession
<1>5. screen' = [surface |-> l, committed |-> Commit(s, l), kept |-> screen'.kept]
  BY <1>2, <1>4, RenderedIs
<1>6. QED
  BY <1>2, <1>3, <1>5 DEF Turn

LEMMA KeptEventTurns ==
    ASSUME HostInv, KeptEvent
    PROVE Turn
<1> DEFINE l == screen.surface
           s == IF screen.kept = "pointer" \/ (l = TooSmall /\ screen.kept # "quit")
                THEN ses ELSE IF l = TooSmall THEN Quit(ses)
                ELSE Advance(ses, screen.kept, l)
           m == IF Visible(s) # Visible(ses) THEN Commit(s, l) ELSE screen.committed
<1>1. /\ Sound(ses) /\ ses.pending = NoRequest /\ ~ses.quit /\ l \in Surfaces
      /\ loop.phase = "loop"
  BY DEF HostInv, ScreenSound, KeptEvent
<1>2. screen' = [surface |-> l, kept |-> "none", committed |-> m] /\ Dispatch(s)
  BY DEF KeptEvent
<1>3. Acts(ses, s, l)
  <2>1. s \in {ses, Quit(ses)} \/ (Shows(l) /\ s = Advance(ses, screen.kept, l))
    BY <1>1, SurfaceIs
  <2> HIDE DEF s, l
  <2>2. QED
    BY <1>1, <2>1, QuitActs, Stays, AdvanceActs
<1> HIDE DEF s
<1>4. s \in Sessions
  BY <1>3, ActsIsSession
<1>5. m = Commit(s, l)
  BY <1>1, <1>4, CommittedIs
<1> HIDE DEF m
<1>6. screen' = [surface |-> l, committed |-> m, kept |-> screen'.kept]
  BY <1>2
<1>7. QED
  BY <1>2, <1>3, <1>5, <1>6 DEF Turn

LEMMA EventTurns ==
    ASSUME HostInv,
           \/ \E k \in Keys : Key(k)
           \/ \E w \in Wheels : Wheel(w)
           \/ Click
           \/ KeptEvent
    PROVE loop.phase = "loop" /\ Turn
<1>1. ASSUME NEW k, Key(k) \/ Wheel(k) PROVE loop.phase = "loop" /\ Turn
  <2> DEFINE event == [kind |-> "act", what |-> k]
  <2>1. loop.phase = "loop" /\ Handle(event) /\ event.kind # "point"
    BY <1>1 DEF Key, Wheel, InLoop
  <2> HIDE DEF event
  <2>2. QED
    BY <2>1, HandleTurns
<1>2. CASE Click
  <2>1. PICK hit \in screen.committed.hits : Handle([kind |-> "point", what |-> hit])
    BY <1>2 DEF Click
  <2> DEFINE event == [kind |-> "point", what |-> hit]
  <2>2. loop.phase = "loop" /\ Handle(event) /\ event.what = hit
    BY <1>2, <2>1 DEF Click, InLoop
  <2> HIDE DEF event
  <2>3. QED
    BY <2>1, <2>2, HandleTurns
<1>3. CASE KeptEvent
  BY <1>3, KeptEventTurns DEF KeptEvent
<1>4. QED
  BY <1>1, <1>2, <1>3

LEMMA TurnKeeps ==
    ASSUME HostInv, loop.phase = "loop", Turn
    PROVE HostInv'
BY DispatchKeeps DEF Turn

\* The worker's answer has a view of its own, with all that was read before.
LEMMA JobEndsKeeps ==
    ASSUME HostInv, NEW result \in {"facts", "limited", "error", "invalidated"}, JobEnds(result)
    PROVE HostInv'
<1> DEFINE p == job.request.page
           record == <<p, job.request.item>>
           v == CASE result = "invalidated" -> [job.base EXCEPT !.valid = FALSE]
                  [] result = "limited" -> [job.base EXCEPT !.limited = @ \cup {record}]
                  [] result = "facts" /\ job.request.item = 0 -> [job.base EXCEPT !.deep = @ \cup {p}]
                  [] result = "facts" /\ job.request.item # 0 ->
                       [job.base EXCEPT !.ready = @ \cup {record}]
                  [] OTHER -> job.base
           j == [job EXCEPT !.state = "done", !.result = result, !.view = v]
<1>1. job \in Jobs /\ JobSound /\ job.state = "running"
  BY DEF HostInv, JobSound, JobEnds
<1>2. job.base \in ViewSet /\ job.request \in Requests /\ p \in PageSet
  BY <1>1 DEF Jobs, JobSound
<1>3. job.request.item \in Nat
  BY <1>2 DEF Requests
<1>4. job' = j
  BY DEF JobEnds
<1>5. v \in ViewSet /\ job.base.deep \subseteq v.deep
  <2>1. record \in PageSet \X Nat
    BY <1>2, <1>3
  <2> HIDE DEF record, p
  <2> DEFINE deep == job.base.deep \cup {p}
             limited == job.base.limited \cup {record}
             ready == job.base.ready \cup {record}
  <2>2. \/ v = [job.base EXCEPT !.valid = FALSE]
        \/ v = [job.base EXCEPT !.limited = limited]
        \/ v = [job.base EXCEPT !.deep = deep]
        \/ v = [job.base EXCEPT !.ready = ready]
        \/ v = job.base
    BY <1>3
  <2>3. /\ deep \in SUBSET PageSet /\ job.base.deep \subseteq deep
        /\ limited \in SUBSET (PageSet \X Nat) /\ ready \in SUBSET (PageSet \X Nat)
    BY <1>2, <2>1 DEF ViewSet
  <2> HIDE DEF v, deep, limited, ready
  <2> DEFINE b == job.base
  <2>4. ASSUME NEW d \in SUBSET PageSet, NEW q \in SUBSET (PageSet \X Nat)
        PROVE /\ [b EXCEPT !.valid = FALSE] \in ViewSet /\ [b EXCEPT !.valid = FALSE].deep = b.deep
              /\ [b EXCEPT !.limited = q] \in ViewSet /\ [b EXCEPT !.limited = q].deep = b.deep
              /\ [b EXCEPT !.ready = q] \in ViewSet /\ [b EXCEPT !.ready = q].deep = b.deep
              /\ [b EXCEPT !.deep = d] \in ViewSet /\ [b EXCEPT !.deep = d].deep = d
    BY <1>2 DEF ViewSet
  <2>5. CASE v = [job.base EXCEPT !.valid = FALSE]
    BY <2>4, <2>5
  <2>6. CASE v = [job.base EXCEPT !.limited = limited]
    BY <2>3, <2>4, <2>6, Zenon
  <2>7. CASE v = [job.base EXCEPT !.deep = deep]
    BY <2>3, <2>4, <2>7
  <2>8. CASE v = [job.base EXCEPT !.ready = ready]
    BY <2>3, <2>4, <2>8, Zenon
  <2>9. CASE v = job.base
    BY <1>2, <2>9
  <2>10. QED
    BY <2>2, <2>5, <2>6, <2>7, <2>8, <2>9
<1> HIDE DEF v
<1>6. /\ j \in Jobs /\ j.state = "done" /\ j.request = job.request /\ j.base = job.base
      /\ j.view = v /\ j.cancelled = job.cancelled
  <2>1. result \in Results /\ "done" \in {"none", "running", "done"}
    BY DEF Results
  <2>2. j \in Jobs
    BY <1>1, <1>5, <2>1, Zenon DEF Jobs
  <2>3. QED
    BY <1>1, <2>2 DEF Jobs
<1> HIDE DEF j, p
<1>7. JobSound'
  BY <1>1, <1>4, <1>5, <1>6 DEF JobSound
<1>8. UNCHANGED <<lease, loop, screen, ses>>
  BY DEF JobEnds
<1>9. JobIsWanted => JobIsWanted'
  BY <1>1, <1>4, <1>6, <1>8 DEF JobIsWanted
<1>10. ScreenSound => ScreenSound'
  BY <1>8 DEF ScreenSound
<1>11. QED
  BY <1>7, <1>8, <1>9, <1>10 DEF HostInv

\* The worker's answer is adopted, recorded as a failure, or of no more interest; whatever
\* it was, the session waits for nothing afterwards.
LEMMA CompletedIs ==
    ASSUME HostInv, loop.phase = "loop", job.state = "done", ~Completed.quit
    PROVE /\ Sound(Completed) /\ Completed.pending = NoRequest /\ Completed.active = NoRequest
          /\ \/ Completed = ses
             \/ /\ Completed.mode = "page"
                /\ Shows(screen.surface) /\ Completed.interp = Closed
                     /\ Completed.selected \notin {0, ses.selected} =>
                   RowInFrame(Completed, screen.surface)
<1>1. /\ Sound(ses) /\ ses.pending = NoRequest /\ JobSound
      /\ ses.active # NoRequest => JobIsWanted
  BY DEF HostInv
<1>2. CASE ses.active = NoRequest
  <2>1. job.request.page \in PageSet
    BY <1>1 DEF JobSound
  <2>2. job.request # NoRequest
    <3>1. NoPage \notin PageSet
      <4>1. \A x \in Sectors : x[1] # 0
        BY TerminalAssumption DEF Sectors, Volumes
      <4>2. QED
        BY <4>1 DEF PageSet, NoPage
    <3>2. QED
      BY <2>1, <3>1 DEF NoRequest
  <2>3. Completed = ses
    BY <1>2, <2>2 DEF Completed, StillWanted
  <2>4. QED
    BY <1>1, <1>2, <2>3
<1>3. CASE ses.active # NoRequest
  <2> DEFINE r == ses.active
             v == job.view
  <2>1. /\ StillWanted(ses, r) /\ ~job.cancelled /\ job.request = r /\ ~ses.quit
        /\ ses.view.deep \subseteq v.deep /\ v \in ViewSet
    BY <1>1, <1>3, WaitingIsWanted DEF JobIsWanted, JobSound, Jobs
  <2>2. \/ Completed = Failed(ses, r)
        \/ Adoptable(r, v) /\ Completed = Adopted(ses, r, v)
        \/ Completed = [ses EXCEPT !.quit = TRUE]
    BY <2>1 DEF Completed
  <2>3. Completed # [ses EXCEPT !.quit = TRUE]
    <3>1. ses \in Sessions
      BY <1>1 DEF Sound, Focuses
    <3>2. [ses EXCEPT !.quit = TRUE].quit
      BY <3>1 DEF Sessions
    <3>3. QED
      BY <3>2
  <2>4. CASE Completed = Failed(ses, r)
    BY <1>1, <1>3, <2>4, FailedIs
  <2>5. CASE Adoptable(r, v) /\ Completed = Adopted(ses, r, v)
    BY <1>1, <1>3, <2>1, <2>5, AdoptedIs
  <2>6. QED
    BY <2>2, <2>3, <2>4, <2>5
<1>4. QED
  BY <1>2, <1>3

LEMMA IdleKeeps ==
    ASSUME HostInv, Idle
    PROVE HostInv'
<1>1. loop.phase = "loop" /\ job.state = "done" /\ job' = NoJob
  BY DEF Idle, InLoop
<1>2. JobSound'
  BY <1>1, NoJobIs DEF JobSound
<1>3. CASE Completed.quit
  <2>1. loop'.phase = "close" /\ ses' = ses
    BY <1>3 DEF Idle
  <2>2. QED
    BY <1>2, <2>1 DEF HostInv
<1>4. CASE ~Completed.quit
  <2>1. /\ Sound(Completed) /\ Completed.pending = NoRequest /\ Completed.active = NoRequest
        /\ Completed \in Sessions
    BY <1>1, <1>4, CompletedIs DEF Sound, Focuses
  <2>2. RenderIfChanged(Completed) /\ ses' = Completed /\ loop' = loop
    BY <1>4 DEF Idle
  <2> DEFINE m == Commit(Completed, screen.surface)
  <2>3. screen' = [surface |-> screen.surface, committed |-> m, kept |-> screen'.kept]
    BY <1>1, <2>1, <2>2, RenderedIs
  <2>4. m = Commit(ses', screen.surface) /\ screen.surface \in Surfaces
    BY <1>1, <2>2 DEF HostInv, ScreenSound
  <2> HIDE DEF m
  <2>5. ScreenSound'
    BY <2>3, <2>4 DEF ScreenSound
  <2>6. QED
    BY <1>1, <1>2, <1>4, <2>1, <2>2, <2>5 DEF HostInv
<1>5. QED
  BY <1>3, <1>4

LEMMA ShownAnew ==
    ASSUME NEW l \in Surfaces, NEW kept, UNCHANGED ses,
           screen' = [surface |-> l, committed |-> Commit(ses, l), kept |-> kept]
    PROVE ScreenSound'
<1> DEFINE m == Commit(ses, l)
<1>1. screen' = [surface |-> l, committed |-> m, kept |-> kept] /\ m = Commit(ses', l)
  OBVIOUS
<1> HIDE DEF m
<1>2. QED
  BY <1>1 DEF ScreenSound

LEMMA HostStep == HostInv /\ LoopInv /\ [HostNext]_hostVars => HostInv'
<1> SUFFICES ASSUME HostInv, LoopInv, [HostNext]_hostVars PROVE HostInv'
  OBVIOUS
<1>1. ASSUME NEW n \in 0 .. Len(Entering), EnterTerminal(n) PROVE HostInv'
  <2>1. loop.phase = "enter" /\ loop'.phase \in {"start", "close"} /\ UNCHANGED <<screen, job, ses>>
    BY <1>1 DEF EnterTerminal, LoopInv
  <2>2. JobSound => JobSound'
    BY <2>1 DEF JobSound
  <2>3. QED
    BY <2>1, <2>2 DEF HostInv
<1>2. ASSUME NEW l \in Surfaces, StartLoop(l) PROVE HostInv'
  <2>1. /\ loop.phase = "start" /\ UNCHANGED <<job, ses>> /\ loop'.phase = "loop"
        /\ screen' = [surface |-> l, committed |-> Commit(ses, l), kept |-> "none"]
    BY <1>2 DEF StartLoop, LoopInv
  <2>2. JobSound => JobSound'
    BY <2>1 DEF JobSound
  <2>3. ScreenSound'
    BY <2>1, ShownAnew
  <2>4. QED
    BY <2>1, <2>2, <2>3 DEF HostInv
<1>3. CASE \/ \E k \in Keys : Key(k)
           \/ \E w \in Wheels : Wheel(w)
           \/ Click
           \/ KeptEvent
  BY <1>3, EventTurns, TurnKeeps
<1>4. ASSUME NEW l \in Surfaces, NEW kept, Resize(l, kept) PROVE HostInv'
  <2>1. /\ loop.phase = "loop" /\ UNCHANGED <<loop, job, ses>>
        /\ screen' = [surface |-> l, committed |-> Commit(ses, l), kept |-> kept]
    BY <1>4 DEF Resize, InLoop
  <2>2. (JobSound => JobSound') /\ (JobIsWanted => JobIsWanted')
    BY <2>1 DEF JobSound, JobIsWanted
  <2>3. ScreenSound'
    BY <2>1, ShownAnew
  <2>4. QED
    BY <2>1, <2>2, <2>3 DEF HostInv
<1>5. ASSUME NEW result \in {"facts", "limited", "error", "invalidated"}, JobEnds(result)
      PROVE HostInv'
  BY <1>5, JobEndsKeeps
<1>6. CASE Idle
  BY <1>6, IdleKeeps
<1>7. CASE HostFails
  <2>1. loop'.phase = "close" /\ ses' = FreshSession /\ job' = job
    BY <1>7 DEF HostFails
  <2>2. JobSound => JobSound'
    BY <2>1 DEF JobSound
  <2>3. QED
    BY <2>1, <2>2, FreshIs DEF HostInv
<1>8. ASSUME NEW failing, Shutdown(failing) PROVE HostInv'
  <2>1. loop'.phase = "ended" /\ ses' = FreshSession /\ job' = NoJob
    BY <1>8 DEF Shutdown, LoopInv
  <2>2. JobSound'
    BY <2>1, NoJobIs DEF JobSound
  <2>3. QED
    BY <2>1, <2>2, FreshIs DEF HostInv
<1>9. CASE UNCHANGED hostVars
  BY <1>9 DEF hostVars, HostInv, JobSound, ScreenSound, JobIsWanted
<1>10. QED
  BY <1>1, <1>2, <1>3, <1>4, <1>5, <1>6, <1>7, <1>8, <1>9 DEF HostNext

THEOREM HostIsSound == HostSpec => []HostInv
BY HostInitially, HostStep, LoopIsTyped, PTL DEF HostSpec

\* Outside a page nothing of one is shown, interpreted or being read; on a page, what is
\* shown has been read of that very page, and what is shown as loading is being read by an
\* uncancelled job of this very request.
THEOREM PageIsTheOneInFocus == HostSpec => []PageOnDisplay
<1>1. HostInv => PageOnDisplay
  <2> SUFFICES ASSUME HostInv PROVE PageOnDisplay
    OBVIOUS
  <2>1. /\ Sound(ses) /\ Focuses(ses) /\ Focused(ses) # NoPage
        /\ loop.phase = "loop" /\ ses.active # NoRequest => JobIsWanted
    BY FocusedIsAPage DEF HostInv, Sound
  <2>2. ses.mode # "page" => Blank(ses)
    BY <2>1 DEF Sound
  <2>3. ses.mode = "page" /\ ~ses.quit => PageIsRead(ses)
    BY <2>1 DEF Sound
  <2>4. ASSUME ses.mode = "page", ~ses.quit
        PROVE /\ ses.load # "idle"
              /\ (ses.load = "ready") = (ses.shown = Focused(ses))
              /\ ses.shown \in {NoPage} \cup (ses.view.deep \cap {Focused(ses)})
              /\ (ses.active # NoRequest) = (ses.load = "loading" \/ ses.interp.load = "loading")
              /\ ses.active # NoRequest => ses.active.page = Focused(ses)
    BY <2>1, <2>3, <2>4 DEF PageIsRead, PageRequest, NoRequest
  <2>5. QED
    BY <2>1, <2>2, <2>4 DEF PageOnDisplay, Blank, JobIsWanted
<1>2. QED
  BY <1>1, HostIsSound, PTL

\* The frame on the screen, and what of it a pointer can hit, is the session's.
THEOREM FrameIsTheSessions == HostSpec => []ScreenShowsTheSession
<1>1. HostInv => ScreenShowsTheSession
  BY DEF HostInv, ScreenSound, ScreenShowsTheSession
<1>2. QED
  BY <1>1, HostIsSound, PTL

\* Where a turn of the loop leaves the selection, a frame of a surface that is large enough
\* has it.
SelectionSeen(s, t, l) ==
    /\ t.mode = "volume" /\ <<s.volume, s.sector>> # <<t.volume, t.sector>> =>
         t.sector \in Hits(t, l)
    /\ t.mode = "page" /\ t.interp = Closed /\ t.selected \notin {0, s.selected} =>
         t.selected \in Hits(t, l)

LEMMA FrameHits ==
    ASSUME NEW t, NEW l, Shows(l), ~t.help
    PROVE /\ t.mode = "volume" /\ InFrame(t, l) => t.sector \in Hits(t, l)
          /\ t.mode = "page" /\ RowInFrame(t, l) => t.selected \in Hits(t, l)
<1>1. l # TooSmall
  BY CapacityIs DEF TooSmall
<1>2. QED
  BY <1>1 DEF Hits, InFrame, RowInFrame

LEMMA TurnIsSeen ==
    ASSUME HostInv, loop.phase = "loop", Turn, Shows(screen.surface), ~ses'.help
    PROVE SelectionSeen(ses, ses', screen.surface)
<1> DEFINE l == screen.surface
<1>1. PICK s : /\ Acts(ses, s, l) /\ Dispatch(s)
               /\ screen' = [surface |-> l, committed |-> Commit(s, l), kept |-> screen'.kept]
  BY DEF Turn
<1>2. ses' = s \/ ses' = [s EXCEPT !.pending = NoRequest]
  BY <1>1, DispatchKeeps
<1>3. s \in Sessions
  BY <1>1, ActsIsSession
<1>4. /\ ses'.volume = s.volume /\ ses'.sector = s.sector /\ ses'.mode = s.mode
      /\ ses'.interp = s.interp /\ ses'.selected = s.selected /\ ses'.help = s.help
      /\ Commit(ses', l) = Commit(s, l)
  <2>1. CASE ses' = s
    BY <2>1
  <2>2. CASE ses' = [s EXCEPT !.pending = NoRequest]
    BY <1>3, <2>2, TakenRequest
  <2>3. QED
    BY <1>2, <2>1, <2>2
<1>5. Hits(ses', l) = Hits(s, l)
  BY <1>4 DEF Commit
<1>6. /\ s.mode = "volume" /\ <<ses.volume, ses.sector>> # <<s.volume, s.sector>> =>
           InFrame(s, l)
      /\ s.mode = "page" /\ s.interp = Closed /\ s.selected \notin {0, ses.selected} =>
           RowInFrame(s, l)
  BY <1>1 DEF Acts
<1>7. /\ s.mode = "volume" /\ InFrame(s, l) => s.sector \in Hits(s, l)
      /\ s.mode = "page" /\ RowInFrame(s, l) => s.selected \in Hits(s, l)
  BY <1>4, FrameHits
<1>8. QED
  BY <1>4, <1>5, <1>6, <1>7 DEF SelectionSeen

LEMMA CompletedIsSeen ==
    ASSUME HostInv, Idle, loop'.phase = "loop", Shows(screen.surface), ~ses'.help
    PROVE SelectionSeen(ses, ses', screen.surface)
<1>1. loop.phase = "loop" /\ job.state = "done" /\ ~Completed.quit /\ ses' = Completed
  BY DEF Idle, InLoop
<1>2. \/ Completed = ses
      \/ /\ Completed.mode = "page"
         /\ Completed.interp = Closed /\ Completed.selected \notin {0, ses.selected} =>
              RowInFrame(Completed, screen.surface)
  BY <1>1, CompletedIs
<1>3. Completed.mode = "page" /\ RowInFrame(Completed, screen.surface) =>
        Completed.selected \in Hits(Completed, screen.surface)
  BY <1>1, FrameHits
<1>4. QED
  BY <1>1, <1>2, <1>3 DEF SelectionSeen

\* A selection moved by a key or a click, or made by the answer to a read, is on the screen
\* afterwards: the sector on the map, the row of the page.
THEOREM SelectionIsOnTheScreen == HostSpec => MovedFocusIsVisible
<1> DEFINE Step == loop'.phase = "loop" /\ screen'.surface # TooSmall /\ ~ses'.help =>
                     /\ ses'.mode = "volume" /\ <<ses.volume, ses.sector>> # <<ses'.volume, ses'.sector>> =>
                          ses'.sector \in screen'.committed.hits
                     /\ ses'.mode = "page" /\ ses'.interp = Closed /\ ses'.selected \notin {0, ses.selected} =>
                          ses'.selected \in screen'.committed.hits
<1>1. HostInv /\ LoopInv /\ [HostNext]_hostVars => [Step]_hostVars
  <2> SUFFICES ASSUME HostInv, LoopInv, [HostNext]_hostVars, loop'.phase = "loop",
                      screen'.surface # TooSmall, ~ses'.help
               PROVE Step
    OBVIOUS
  <2>1. HostInv'
    BY HostStep
  <2>2. Shows(screen'.surface) /\ screen'.committed.hits = Hits(ses', screen'.surface)
    <3>1. screen'.surface \in Surfaces /\ screen'.committed = Commit(ses', screen'.surface)
      BY <2>1 DEF HostInv, ScreenSound
    <3>2. screen'.surface = TooSmall \/ Shows(screen'.surface)
      BY <3>1, SurfaceIs
    <3>3. QED
      BY <3>1, <3>2 DEF Commit
  <2>3. SelectionSeen(ses, ses', screen'.surface) => Step
    BY <2>2 DEF SelectionSeen
  <2>4. UNCHANGED ses => Step
    OBVIOUS
  <2>5. CASE \/ \E k \in Keys : Key(k)
             \/ \E w \in Wheels : Wheel(w)
             \/ Click
             \/ KeptEvent
    <3>1. loop.phase = "loop" /\ Turn
      BY <2>5, EventTurns
    <3>2. screen'.surface = screen.surface
      BY <3>1 DEF Turn
    <3>3. QED
      BY <2>2, <2>3, <3>1, <3>2, TurnIsSeen
  <2>6. CASE Idle
    <3>1. screen'.surface = screen.surface
      <4>1. loop.phase = "loop" /\ job.state = "done" /\ ~Completed.quit
              /\ RenderIfChanged(Completed)
        BY <2>6 DEF Idle, InLoop
      <4>2. Completed \in Sessions
        BY <4>1, CompletedIs DEF Sound, Focuses
      <4>3. QED
        BY <4>1, <4>2, RenderedIs
    <3>2. QED
      BY <2>2, <2>3, <2>6, <3>1, CompletedIsSeen
  <2>7. CASE \/ \E n \in 0 .. Len(Entering) : EnterTerminal(n)
             \/ \E l \in Surfaces : StartLoop(l)
             \/ \E l \in Surfaces, kept \in {"none", "pointer", "next-sector"} : Resize(l, kept)
             \/ \E result \in {"facts", "limited", "error", "invalidated"} : JobEnds(result)
             \/ UNCHANGED hostVars
    BY <2>4, <2>7 DEF EnterTerminal, StartLoop, Resize, JobEnds, hostVars
  <2>8. ~HostFails
    BY DEF HostFails
  <2>9. ASSUME NEW failing, Shutdown(failing) PROVE FALSE
    <3>1. loop'.phase = "ended"
      BY <2>9 DEF Shutdown, LoopInv
    <3>2. QED
      BY <3>1
  <2>10. QED
    BY <2>5, <2>6, <2>7, <2>8, <2>9 DEF HostNext
<1>2. [Step]_hostVars => [(loop'.phase = "loop" /\ screen'.surface # TooSmall /\ ~ses'.help) =>
         /\ ses'.mode = "volume" /\ <<ses.volume, ses.sector>> # <<ses'.volume, ses'.sector>> =>
              ses'.sector \in screen'.committed.hits
         /\ ses'.mode = "page" /\ ses'.interp = Closed /\ ses'.selected \notin {0, ses.selected} =>
              ses'.selected \in screen'.committed.hits]_hostVars
  OBVIOUS
<1> HIDE DEF Step
<1>3. QED
  BY <1>1, <1>2, HostIsSound, LoopIsTyped, PTL DEF HostSpec, MovedFocusIsVisible
=============================================================================
