--------------------------- MODULE TerminalSession ---------------------------
(******************************************************************************)
(* The terminal viewer's semantic session (tui/focused.rs): where the focus   *)
(* is, what of a page is on display, and the one deep read it may have asked  *)
(* for.  A session is a record, an action an operator from a session and a    *)
(* layout to the next session; nothing here runs concurrently.                *)
(*                                                                            *)
(* Abstracted: a page is slotted, broken (its deep read records a violation)  *)
(* or plain; the rows of a slotted page are structure, an unsupported record  *)
(* or a record that can be interpreted.  Rendering is left out but for what a *)
(* pointer can hit.                                                           *)
(******************************************************************************)
EXTENDS Integers, Sequences

CONSTANTS
    SectorCounts,  \* the number of sectors of each volume
    GridSide,      \* SECTOR_GRID_COLUMNS, 8 pages a side
    Content,       \* what each page is: slotted, broken or plain
    Items,         \* the rows of a slotted page
    Attributes,    \* attributes of an interpreted record
    Layouts        \* surfaces: [columns, rows, list, attributes], as many as fit

Volumes == DOMAIN SectorCounts
Grid == 0..(GridSide * GridSide - 1)
Sectors == UNION {{<<v, k>> : k \in 0..(SectorCounts[v] - 1)} : v \in Volumes}
PageSet == {<<x[1], x[2], i>> : x \in Sectors, i \in Grid}

ASSUME TerminalAssumption ==
    /\ SectorCounts \in Seq(Nat \ {0}) /\ SectorCounts # <<>>
    /\ GridSide \in Nat \ {0} /\ Attributes \in Nat
    /\ Content \in [PageSet -> {"slotted", "broken", "plain"}]
    /\ Items \in Seq({"structure", "record", "unsupported"}) /\ Items # <<>>
    /\ \A l \in Layouts : {l.columns, l.rows, l.list, l.attributes} \subseteq Nat \ {0}

NoPage == <<0, 0, 0>>
Closed == [item |-> 0, load |-> "closed", top |-> 0]
NoRequest == [page |-> NoPage, item |-> 0]
PageRequest(p) == [page |-> p, item |-> 0]

\* A view: the pages read deeply, the records interpreted (and whether that gave
\* values or only a reason), and whether its snapshot is still valid.
BaseView == [deep |-> {}, ready |-> {}, limited |-> {}, valid |-> TRUE]

FreshSession ==
    [volume |-> 1, sector |-> 0, top |-> 0, mode |-> "volume", page |-> 0,
     load |-> "idle", shown |-> NoPage, selected |-> 0, topItem |-> 0,
     interp |-> Closed, help |-> FALSE, quit |-> FALSE,
     active |-> NoRequest, pending |-> NoRequest, view |-> BaseView]

LowerOf(a, b) == IF a < b THEN a ELSE b
Minus(a, b) == IF a > b THEN a - b ELSE 0

Focused(s) == <<s.volume, s.sector, s.page>>
TotalSectors(s) == SectorCounts[s.volume]
Capacity(l) == l.columns * l.rows

-----------------------------------------------------------------------------
(* The volume map: focus, and the first sector shown. *)

ClampTop(s, l) == [s EXCEPT !.top = LowerOf(@, Minus(TotalSectors(s), Capacity(l)))]

\* A plausible mistake: the last row that fits is forgotten, the focus is put below it.
RevealFocusOneLow(s, l) ==
    IF s.sector < s.top THEN [s EXCEPT !.top = s.sector]
    ELSE IF s.sector >= s.top + Capacity(l)
    THEN ClampTop([s EXCEPT !.top = Minus(s.sector - (s.sector % l.columns),
                                          l.rows * l.columns)], l)
    ELSE ClampTop(s, l)

RevealFocus(s, l) ==
    IF s.sector < s.top THEN [s EXCEPT !.top = s.sector]
    ELSE IF s.sector >= s.top + Capacity(l)
    THEN ClampTop([s EXCEPT !.top = Minus(s.sector - (s.sector % l.columns),
                                          (l.rows - 1) * l.columns)], l)
    ELSE ClampTop(s, l)

FocusSector(s, k, l) == RevealFocus([s EXCEPT !.sector = k], l)

MoveForward(s, n, l) ==
    IF s.sector + n < TotalSectors(s) THEN FocusSector(s, s.sector + n, l) ELSE s

MoveBack(s, n, l) == IF s.sector >= n THEN FocusSector(s, s.sector - n, l) ELSE s

Column(s, l) == Minus(s.sector, s.top) % l.columns

ScrollRows(s, n, l) ==
    ClampTop([s EXCEPT !.top = IF n < 0 THEN Minus(@, -n * l.columns) ELSE @ + n * l.columns], l)

AtVolume(s, v) == [s EXCEPT !.volume = v, !.sector = 0, !.top = 0]

VolumeAction(s, a, l) ==
    CASE a = "left" -> IF Column(s, l) # 0 THEN MoveBack(s, 1, l) ELSE s
      [] a = "right" -> IF Column(s, l) + 1 < l.columns THEN MoveForward(s, 1, l) ELSE s
      [] a = "up" -> MoveBack(s, l.columns, l)
      [] a = "down" -> MoveForward(s, l.columns, l)
      [] a = "previous-sector" -> MoveBack(s, 1, l)
      [] a = "next-sector" -> MoveForward(s, 1, l)
      [] a = "previous-volume" -> IF s.volume > 1 THEN AtVolume(s, s.volume - 1) ELSE s
      [] a = "next-volume" ->
            IF s.volume < Len(SectorCounts) THEN AtVolume(s, s.volume + 1) ELSE s
      [] a = "wheel-up" -> ScrollRows(s, -1, l)
      [] a = "wheel-down" -> ScrollRows(s, 1, l)
      [] OTHER -> s

-----------------------------------------------------------------------------
(* A deep read, asked for and cancelled. *)

StartEnrichment(s, r) ==
    IF s.active # NoRequest THEN s ELSE [s EXCEPT !.active = r, !.pending = r]

CancelEnrichment(s) == [s EXCEPT !.active = NoRequest, !.pending = NoRequest]

\* A plausible mistake: leaving a page forgets the read that was asked for it.
LeavePageReading(s) ==
    [s EXCEPT !.load = "idle", !.shown = NoPage, !.selected = 0, !.topItem = 0,
              !.interp = Closed]

LeavePage(s) ==
    [CancelEnrichment(s) EXCEPT !.load = "idle", !.shown = NoPage, !.selected = 0,
                                !.topItem = 0, !.interp = Closed]

Quit(s) == [(IF s.mode = "page" THEN LeavePage(s) ELSE s) EXCEPT !.quit = TRUE]

Install(s, p) == [s EXCEPT !.selected = 1, !.topItem = 1, !.shown = p, !.load = "ready"]

PreparePage(s) ==
    LET p == Focused(s)
        blank == [s EXCEPT !.shown = NoPage, !.selected = 0, !.topItem = 0] IN
    IF p \in s.view.deep /\ Content[p] = "slotted" THEN Install(blank, p)
    ELSE IF p \in s.view.deep \/ Content[p] = "plain" THEN [blank EXCEPT !.load = "unavailable"]
    ELSE IF s.active # NoRequest THEN blank
    ELSE [StartEnrichment(blank, PageRequest(p)) EXCEPT !.load = "loading"]

OpenPage(s) == PreparePage([s EXCEPT !.mode = "page"])

-----------------------------------------------------------------------------
(* The rows of a page and the record that is interpreted. *)

Rows(s) == IF s.shown = NoPage THEN 0 ELSE Len(Items)

RevealItem(s, l) ==
    [s EXCEPT !.topItem = IF s.selected < @ THEN s.selected
                          ELSE IF s.selected >= @ + l.list THEN s.selected + 1 - l.list ELSE @]

SelectItem(s, i, l) ==
    IF i \in 1..Rows(s) THEN RevealItem([s EXCEPT !.selected = i], l) ELSE s

ScrollItems(s, n, l) ==
    IF Rows(s) = 0 THEN s
    ELSE [s EXCEPT !.topItem = IF n < 0 THEN Minus(@ - 1, -n) + 1
                               ELSE LowerOf(@ - 1 + n, Minus(Rows(s), l.list)) + 1]

AttributeCount(s) ==
    IF <<Focused(s), s.interp.item>> \in s.view.ready THEN Attributes ELSE 0

ScrollAttributes(s, n, l) ==
    LET maximum == Minus(AttributeCount(s), l.attributes)
        current == LowerOf(s.interp.top, maximum) IN
    [s EXCEPT !.interp.top = IF n < 0 THEN Minus(current, -n) ELSE LowerOf(current + n, maximum)]

Interpreting(s, load) == [s EXCEPT !.interp = [item |-> s.selected, load |-> load, top |-> 0]]

ActivateSelection(s) ==
    LET record == <<Focused(s), s.selected>> IN
    IF s.interp # Closed \/ s.active # NoRequest THEN s
    ELSE IF s.selected \notin 1..Rows(s) THEN s
    ELSE IF Items[s.selected] = "structure" THEN s
    ELSE IF Items[s.selected] = "unsupported" \/ record \in s.view.limited
    THEN Interpreting(s, "unavailable")
    ELSE IF record \in s.view.ready THEN Interpreting(s, "ready")
    ELSE Interpreting(StartEnrichment(s, [page |-> Focused(s), item |-> s.selected]), "loading")

MovePageToSector(s, k, l) == OpenPage(FocusSector(LeavePage(s), k, l))
MovePageToVolume(s, v) == OpenPage(AtVolume(LeavePage(s), v))

-----------------------------------------------------------------------------
(* advance_focused: one action in the mode it finds. *)

MovePage(s, a) ==
    LET column == s.page % GridSide
        row == s.page \div GridSide IN
    [s EXCEPT !.page = CASE a = "left" /\ column > 0 -> @ - 1
                         [] a = "right" /\ column < GridSide - 1 -> @ + 1
                         [] a = "up" /\ row > 0 -> @ - GridSide
                         [] a = "down" /\ row < GridSide - 1 -> @ + GridSide
                         [] OTHER -> @]

InVolume(s, a, l) ==
    IF a = "enter" THEN [s EXCEPT !.mode = "sector", !.page = 0] ELSE VolumeAction(s, a, l)

InSector(s, a, l) ==
    CASE a \in {"left", "right", "up", "down"} -> MovePage(s, a)
      [] a = "enter" -> OpenPage(s)
      [] a = "ascend" -> [s EXCEPT !.mode = "volume"]
      [] a \in {"previous-sector", "wheel-up"} -> VolumeAction(s, "previous-sector", l)
      [] a \in {"next-sector", "wheel-down"} -> VolumeAction(s, "next-sector", l)
      [] OTHER -> s

InPage(s, a, l) ==
    CASE a = "up" /\ s.interp = Closed ->
            SelectItem(s, IF s.selected > 1 THEN s.selected - 1 ELSE 1, l)
      [] a = "down" /\ s.interp = Closed -> SelectItem(s, LowerOf(s.selected + 1, Rows(s)), l)
      [] a = "wheel-up" /\ s.interp = Closed -> ScrollItems(s, -1, l)
      [] a = "wheel-down" /\ s.interp = Closed -> ScrollItems(s, 1, l)
      [] a \in {"up", "wheel-up"} /\ s.interp # Closed -> ScrollAttributes(s, -1, l)
      [] a \in {"down", "wheel-down"} /\ s.interp # Closed -> ScrollAttributes(s, 1, l)
      [] a = "enter" -> ActivateSelection(s)
      [] a = "ascend" /\ s.interp = Closed -> [LeavePage(s) EXCEPT !.mode = "sector"]
      [] a = "ascend" /\ s.interp # Closed -> [CancelEnrichment(s) EXCEPT !.interp = Closed]
      [] a = "previous-sector" /\ s.sector > 0 -> MovePageToSector(s, s.sector - 1, l)
      [] a = "next-sector" /\ s.sector + 1 < TotalSectors(s) -> MovePageToSector(s, s.sector + 1, l)
      [] a = "previous-volume" /\ s.volume > 1 -> MovePageToVolume(s, s.volume - 1)
      [] a = "next-volume" /\ s.volume < Len(SectorCounts) -> MovePageToVolume(s, s.volume + 1)
      [] OTHER -> s

Keys == {"left", "right", "up", "down", "enter", "ascend", "previous-sector", "next-sector",
         "previous-volume", "next-volume", "help", "quit"}
Wheels == {"wheel-up", "wheel-down"}

Advance(s, a, l) ==
    IF a = "quit" THEN Quit(s)
    ELSE IF s.help THEN [s EXCEPT !.help = a \notin {"help", "ascend"}]
    ELSE IF a = "help" THEN [s EXCEPT !.help = TRUE]
    ELSE IF s.mode = "volume" THEN InVolume(s, a, l)
    ELSE IF s.mode = "sector" THEN InSector(s, a, l)
    ELSE InPage(s, a, l)

\* A pointer acts on what it hits: two actions on the maps, one on a page's rows.
PointAt(s, hit, l) ==
    IF s.help THEN s
    ELSE IF s.mode = "volume" THEN InVolume(FocusSector(s, hit, l), "enter", l)
    ELSE IF s.mode = "sector" THEN OpenPage([s EXCEPT !.page = hit])
    ELSE IF s.interp = Closed THEN SelectItem(s, hit, l)
    ELSE s

-----------------------------------------------------------------------------
(* complete_enrichment: a result is adopted only by the request still wanted. *)

StillWanted(s, r) ==
    /\ s.active = r
    /\ s.mode = "page" /\ Focused(s) = r.page
    /\ IF r.item = 0 THEN s.interp = Closed ELSE s.interp.item = r.item /\ s.selected = r.item

Adopted(s, r, view) ==
    LET t == [CancelEnrichment(s) EXCEPT !.view = view] IN
    IF r.item # 0
    THEN [t EXCEPT !.load = "ready", !.shown = r.page,
                   !.interp = [item |-> r.item, top |-> 0,
                               load |-> IF <<r.page, r.item>> \in view.ready
                                        THEN "ready" ELSE "unavailable"]]
    ELSE IF Content[r.page] = "slotted" THEN Install(t, r.page)
    ELSE [t EXCEPT !.load = "unavailable", !.shown = NoPage, !.selected = 0, !.topItem = 0]

\* A candidate without the fact that was asked for ends the session with an error.
Adoptable(r, view) ==
    IF r.item = 0 THEN r.page \in view.deep
    ELSE <<r.page, r.item>> \in view.ready \cup view.limited

Failed(s, r) ==
    IF r.item = 0 THEN [CancelEnrichment(s) EXCEPT !.load = "failed"]
    ELSE [CancelEnrichment(s) EXCEPT !.interp = [item |-> r.item, load |-> "failed", top |-> 0]]
=============================================================================
