------------------------------- MODULE RecordReads -----------------------------
(************************************************************************************)
(* The interpretation of records (src/inspection.rs): the class a heap page belongs *)
(* to and the cache of it by sector, the representation a record was written under, *)
(* found by walking to the class's own record, the passes over all the records of a *)
(* page, and the selection of one record, which reads its page, follows its         *)
(* relocation, and interprets the page it is on and the page it went to.            *)
(*                                                                                  *)
(* A graph is never changed: every part of a request makes a new one of the last,   *)
(* and only the last is kept.  A part reads the input three times over: when it     *)
(* compares the stamps, when it asks for the class, and from then on; the input may *)
(* change before each.  Left out: the values of attributes, diagnostics, coverage   *)
(* counts and the number of the revision.                                           *)
(************************************************************************************)
EXTENDS Integers, Sequences

CONSTANTS
    Disk,         \* the input: Disk[0] as it was scanned, Disk[v] after it changed v times
    SectorSpan,   \* pages of a sector
    ClassHops,    \* how many records the walk to a class's own record reads
    Limits,       \* how many pages a request may hold, and decode
    MaxRequests   \* bounds the requests of a behaviour

ASSUME RecordAssumption ==
    /\ SectorSpan \in Nat \ {0} /\ ClassHops \in Nat \ {0} /\ Limits \subseteq Nat
    /\ MaxRequests \in Nat /\ 0 \in DOMAIN Disk /\ DOMAIN Disk \subseteq Nat
    /\ \A v \in DOMAIN Disk : DOMAIN Disk[v] = DOMAIN Disk[0]

VARIABLES
    graph,       \* what the session knows
    request,     \* the request under way: what it asks for and the graph it has made so far
    asked,       \* how many requests there were
    version,     \* how often the input has changed
    following    \* whether the session follows its input

recordVars == <<graph, request, asked, version, following>>

\* A record is named by its page and slot; slot 0 holds what the heap says of the page.
NoRecord == <<0, 0>>
DiskPages == DOMAIN Disk[0]
SectorOf(p) == p \div SectorSpan
HasSlot(v, r) == r[1] \in DiskPages /\ r[2] \in DOMAIN Disk[v][r[1]].slots
SlotAt(v, r) == Disk[v][r[1]].slots[r[2]]

NoGraph == [deep |-> <<>>, edges |-> <<>>, records |-> <<>>, resolved |-> {}, nameless |-> {},
            sectors |-> <<>>, failures |-> <<>>, valid |-> TRUE]
NothingAsked == [parts |-> <<>>, record |-> NoRecord, limit |-> 0, view |-> NoGraph]

\* One map over another, whose entries it hides.
Over(f, g) == [x \in DOMAIN f \cup DOMAIN g |-> IF x \in DOMAIN f THEN f[x] ELSE g[x]]
Only(x, y) == [z \in {x} |-> y]
Without(f, x) == [z \in DOMAIN f \ {x} |-> f[z]]

-----------------------------------------------------------------------------
(* Classes and their representations. *)

\* Read without regard to the limit, decrypted if it is sealed.
Opens(v, p) == p \in DiskPages /\ Disk[v][p].fault = "none"

\* class_oid_for_heap_page: from the sector of the page if it is known, else from slot 0.
ClassOf(g, v, p) ==
    IF SectorOf(p) \in DOMAIN g.sectors THEN [class |-> g.sectors[SectorOf(p)], reason |-> "none"]
    ELSE [class |-> IF Opens(v, p) THEN Disk[v][p].class ELSE NoRecord,
          reason |-> IF ~Opens(v, p) THEN "unreadable"
                     ELSE IF Disk[v][p].type # "heap" THEN "not-heap"
                     ELSE IF Disk[v][p].class = NoRecord THEN "no-class" ELSE "none"]

\* A record whose body can be decoded.
Readable(v, r) ==
    /\ HasSlot(v, r) /\ Opens(v, r[1])
    /\ SlotAt(v, r).kind \in {"home", "newhome"} /\ SlotAt(v, r).fault # "body"

\* resolve_class_representation: from the class's record along relocations, as far as ClassHops
\* records.  A walk in a circle does not come to a record either.
ClassRecord(v, class) ==
    LET Relocated(r) == HasSlot(v, r) /\ Opens(v, r[1]) /\ SlotAt(v, r).kind = "relocation"
        at[n \in 1..ClassHops] ==
          IF n = 1 THEN class
          ELSE IF Relocated(at[n - 1]) THEN SlotAt(v, at[n - 1]).link ELSE at[n - 1] IN
    at[ClassHops]

Describes(v, class, rep) ==
    LET r == ClassRecord(v, class) IN Readable(v, r) /\ rep \in SlotAt(v, r).describes

\* A representation already committed is not read again.
Represented(g, v, class, rep) == <<class, rep>> \in g.resolved \/ Describes(v, class, rep)

-----------------------------------------------------------------------------
(* Publication. *)

\* What a batch says anew: a record attributed to the relocation that reached it keeps that.
\* A plausible mistake first: read on its own, it loses it.
SaidAll(g, batch) == batch

SaidAnew(g, batch) ==
    {b \in batch : /\ b.from # NoRecord \/ b.record \notin DOMAIN g.records
                                        \/ g.records[b.record].from = NoRecord
                   /\ \A c \in batch : c.record = b.record /\ c.from # NoRecord =>
                        b.from # NoRecord /\ b.slot >= c.slot}

Evidence(b) == [class |-> b.class, rep |-> b.rep, from |-> b.from, reason |-> b.reason]

RecordsAfter(g, batch) ==
    Over([r \in {b.record : b \in SaidAnew(g, batch)} |->
            Evidence(CHOOSE b \in SaidAnew(g, batch) : b.record = r)], g.records)

\* A page some record of which was interpreted is no failure; one that could not be is, and its
\* class is noted under representation 0 unless that is already known.
FailuresAfter(g, p, batch, reason) ==
    Over(IF reason = "none" THEN <<>> ELSE Only(p, reason),
         IF batch = {} THEN g.failures ELSE Without(g.failures, p))

PublishInterpretation(g, v, p, reps, batch, class, reason) ==
    LET failing == IF reason = "none" \/ ClassOf(g, v, p).reason # "none" THEN {}
                   ELSE {<<ClassOf(g, v, p).class, 0>>} IN
    [g EXCEPT !.records = RecordsAfter(g, batch),
              !.resolved = @ \cup reps,
              !.nameless = (@ \cup failing) \ (g.resolved \cup reps),
              !.sectors = Over(IF class = NoRecord THEN <<>> ELSE Only(SectorOf(p), class), @),
              !.failures = FailuresAfter(g, p, batch, reason)]

Degrade(g, v, p, reason) == PublishInterpretation(g, v, p, {}, {}, NoRecord, reason)

PublishEdge(g, r, target, reason) ==
    [g EXCEPT !.edges = Over(Only(r, [target |-> target, valid |-> reason = "none"]), @)]

-----------------------------------------------------------------------------
(* The parts of a request: each makes a graph, or fails. *)

Made(g) == [ok |-> TRUE, graph |-> g]
Abandoned == [ok |-> FALSE, graph |-> NoGraph]

\* source_stability_stop.
Changed(v) == v # 0 /\ ~following
Invalidated(g) == Made([g EXCEPT !.valid = FALSE])

\* read_admitted: in the order in which a page is found wanting.
Refusal(v, p, limit) ==
    LET page == Disk[v][p] IN
    IF limit < 1 THEN "resource-limit"
    ELSE IF p \notin DiskPages THEN "format"
    ELSE IF page.fault \in {"gone", "format"} THEN page.fault
    ELSE IF page.room > limit THEN "resource-limit" ELSE page.fault

\* enrich_page, as far as its slots: which version of them is known, the first that was read.
\* A page found in violation of its format has no slots from then on.
Violated == -1
Slotted(g, r) == r[1] \in DOMAIN g.deep /\ g.deep[r[1]] # Violated /\ HasSlot(g.deep[r[1]], r)

ReadPage(g, p, limit, seen) ==
    LET fault == Refusal(seen[3], p, limit) IN
    IF Changed(seen[1]) THEN Invalidated(g)
    ELSE IF Disk[0][p].room > limit \/ Disk[0][p].fault \in {"gone", "format", "encrypted"} THEN Abandoned
    ELSE IF fault \in {"gone", "encrypted", "resource-limit"} THEN Abandoned
    ELSE IF fault # "none" THEN Made([g EXCEPT !.deep = Over(Only(p, Violated), @)])
    ELSE IF Changed(seen[3]) THEN Invalidated(g)
    ELSE Made([g EXCEPT !.deep = Over(@, Only(p, seen[3]))])

\* read_validated_relocation_target: the same heap owns the page, which was scanned as one of a
\* heap, and still is, and the slot is one records are moved to.
TargetRefusal(v, source, target, limit) ==
    LET p == target[1] left == limit - Disk[v][source[1]].room IN
    IF p \notin DiskPages \/ Disk[0][p].file # Disk[0][source[1]].file THEN "owner"
    ELSE IF Disk[0][p].type # "heap" \/ Disk[0][p].fault # "none" THEN "role"
    ELSE IF Disk[0][p].room > limit THEN "resource-limit"
    ELSE IF Refusal(v, p, left) # "none" THEN Refusal(v, p, left)
    ELSE IF Disk[v][p].type # "heap" THEN "role"
    ELSE IF ~HasSlot(v, target) \/ SlotAt(v, target).kind # "newhome" THEN "slot" ELSE "none"

SourceRefusal(v, r, limit) ==
    IF Disk[0][r[1]].file = "none" THEN "owner"
    ELSE IF Disk[0][r[1]].room > limit THEN "resource-limit"
    ELSE IF Refusal(v, r[1], limit) # "none" THEN Refusal(v, r[1], limit)
    ELSE IF Disk[v][r[1]].type # "heap" \/ ~HasSlot(v, r) \/ SlotAt(v, r).kind # "relocation"
    THEN "shape" ELSE "none"

\* enrich_relocation: an edge is read once, however that ended.
ReadRelocation(g, r, limit, cancelled, seen) ==
    IF r \in DOMAIN g.edges THEN Made(g)
    ELSE IF cancelled = "before" THEN Made(PublishEdge(g, r, NoRecord, "interrupted"))
    ELSE IF limit = 0 THEN Made(PublishEdge(g, r, NoRecord, "resource-limit"))
    ELSE IF Changed(seen[1]) THEN Invalidated(g)
    ELSE LET source == SourceRefusal(seen[2], r, limit)
             target == SlotAt(seen[2], r).link
             refused == IF cancelled = "during" THEN "interrupted"
                        ELSE TargetRefusal(seen[3], r, target, limit) IN
         IF source = "gone" THEN Abandoned
         ELSE IF source # "none" THEN Made(PublishEdge(g, r, NoRecord, source))
         ELSE IF refused = "gone" THEN Abandoned
         ELSE IF refused # "none" THEN Made(PublishEdge(g, r, target, refused))
         ELSE IF Changed(seen[3]) THEN Invalidated(g) ELSE Made(PublishEdge(g, r, target, "none"))

\* interpret_one_record, of the record r that slot i of the page under way is or leads to.
Interpret(g, v, class, r, from, i) ==
    LET rep == IF Readable(v, r) THEN SlotAt(v, r).rep ELSE 0 IN
    [record |-> r, from |-> from, slot |-> i, class |-> class, rep |-> rep,
     reason |-> IF ~Readable(v, r) THEN "unreadable"
                ELSE IF ~Represented(g, v, class, rep) THEN "representation"
                ELSE SlotAt(v, r).fault]

ValidTarget(g, r) == r \in DOMAIN g.edges /\ g.edges[r].valid

\* What is behind a relocation that has been validated (interpret_relocated_record).
Reached(g, v, p) ==
    {i \in DOMAIN Disk[v][p].slots :
        /\ SlotAt(v, <<p, i>>).kind = "relocation" /\ ValidTarget(g, <<p, i>>)
        /\ LET q == g.edges[<<p, i>>].target[1] IN
             ClassOf(g, v, q).reason = "none" /\ Opens(v, q) /\ Disk[v][q].type = "heap"}

Interpreted(g, v, p, class) ==
    {Interpret(g, v, class, <<p, i>>, NoRecord, i) :
        i \in {j \in DOMAIN Disk[v][p].slots : SlotAt(v, <<p, j>>).kind \in {"home", "newhome"}}}
    \cup
    {LET target == g.edges[<<p, i>>].target IN
     Interpret(g, v, ClassOf(g, v, target[1]).class, target, <<p, i>>, i) : i \in Reached(g, v, p)}

Representations(batch) ==
    {<<b.class, b.rep>> : b \in {c \in batch : c.reason \notin {"unreadable", "representation"}}}

\* enrich_record_page.
ReadRecords(g, p, limit, seen) ==
    LET owner == ClassOf(g, seen[2], p)
        fault == Refusal(seen[3], p, limit)
        batch == Interpreted(g, seen[3], p, owner.class) IN
    IF limit = 0 THEN Abandoned
    ELSE IF Changed(seen[1]) THEN Invalidated(g)
    ELSE IF owner.reason # "none" THEN Made(Degrade(g, seen[3], p, owner.reason))
    ELSE IF fault \in {"gone", "resource-limit"} THEN Abandoned
    ELSE IF fault # "none" THEN Made(Degrade(g, seen[3], p, fault))
    ELSE IF Disk[seen[3]][p].type # "heap" THEN Made(Degrade(g, seen[3], p, "not-heap"))
    ELSE IF Changed(seen[3]) THEN Invalidated(g)
    ELSE IF batch # {} /\ \A b \in batch : b.record \in DOMAIN g.records THEN Made(g)
    ELSE Made(PublishInterpretation(g, seen[3], p, Representations(batch), batch, owner.class, "none"))

\* enrich_class_representation: the representation its class has now.
ReadClass(g, p, limit, seen) ==
    LET owner == ClassOf(g, seen[2], p)
        home == ClassRecord(seen[3], owner.class)
        current == SlotAt(seen[3], home).rep
        key == <<owner.class, current>> IN
    IF limit = 0 THEN Abandoned
    ELSE IF Changed(seen[1]) THEN Invalidated(g)
    ELSE IF owner.reason # "none" THEN Made(Degrade(g, seen[3], p, owner.reason))
    ELSE IF ~Readable(seen[3], home) \/ ~Describes(seen[3], owner.class, current)
    THEN Made(PublishInterpretation(g, seen[3], p, {}, {}, owner.class, "class-record"))
    ELSE IF key \in g.resolved /\ SectorOf(p) \in DOMAIN g.sectors THEN Made(g)
    ELSE IF Changed(seen[3]) THEN Invalidated(g)
    ELSE Made(PublishInterpretation(g, seen[3], p, {key}, {}, owner.class, "none"))

-----------------------------------------------------------------------------
(* Requests. *)

\* The parts of a request follow each other; the first that fails ends it, and what it made is
\* dropped.  After the last the session has what was made.
Continue(made) ==
    LET left == Tail(request.parts) IN
    IF ~made.ok THEN request' = NothingAsked /\ UNCHANGED graph
    ELSE IF left = <<>> THEN request' = NothingAsked /\ graph' = made.graph
    ELSE request' = [request EXCEPT !.parts = left, !.view = made.graph] /\ UNCHANGED graph

Ask(parts, r, limit) ==
    /\ request.parts = <<>> /\ asked < MaxRequests
    /\ asked' = asked + 1
    /\ request' = [parts |-> parts, record |-> r, limit |-> limit, view |-> graph]
    /\ UNCHANGED <<graph, version, following>>

\* enrich_record_selection.
SelectRecord(r, limit) == Ask(<<"page", "relocation", "records", "target">>, r, limit)
\* A command that inspects a slot, in a session of its own.
InspectSlot(r, limit) ==
    /\ asked = 0 /\ ~following
    /\ Ask(<<"page", "slot", "relocation", "records", "named">>, r, limit)

AskRecordPage(p, limit) == Ask(<<"records">>, <<p, 0>>, limit)
AskClass(p, limit) == Ask(<<"class">>, <<p, 0>>, limit)

\* The slot selected is a relocation, by what is known of its page.
IsRelocation(g, r) == Slotted(g, r) /\ SlotAt(g.deep[r[1]], r).kind = "relocation"

\* Whether a part goes on to a page's records: always those of the page asked for; only a
\* validated edge leads a selection on; the command follows whatever target an edge names.
GoesOn(g, part, r) ==
    \/ part = "records"
    \/ part = "target" /\ ValidTarget(g, r)
    \/ part = "named" /\ r \in DOMAIN g.edges /\ g.edges[r].target \notin {r, NoRecord}

PageOf(g, part, r) == IF part = "records" THEN r[1] ELSE g.edges[r].target[1]

Part(part, cancelled, seen) ==
    LET g == request.view r == request.record limit == request.limit IN
    CASE part = "relocation" -> IF IsRelocation(g, r) THEN ReadRelocation(g, r, limit, cancelled, seen)
                                ELSE Made(g)
      [] part = "slot" -> IF Slotted(g, r) THEN Made(g) ELSE Abandoned
      [] part = "page" -> IF cancelled # "never" THEN Abandoned ELSE ReadPage(g, r[1], limit, seen)
      [] part = "class" -> IF cancelled # "never" THEN Abandoned ELSE ReadClass(g, r[1], limit, seen)
      [] part \in {"records", "target", "named"} ->
           IF ~GoesOn(g, part, r) THEN Made(g)
           ELSE IF cancelled # "never" THEN Abandoned
           ELSE ReadRecords(g, PageOf(g, part, r), limit, seen)

\* The versions of the input at the comparison, for the class, and from then on.
Sightings ==
    {s \in [1..3 -> DOMAIN Disk] : version <= s[1] /\ s[1] <= s[2] /\ s[2] <= s[3]}

\* A command that inspects a slot is not cancelled; it ends with the part named.
RunPart(cancelled, seen) ==
    /\ request.parts # <<>>
    /\ request.parts[Len(request.parts)] = "named" => cancelled = "never"
    /\ Continue(Part(Head(request.parts), cancelled, seen))
    /\ version' = seen[3]
    /\ UNCHANGED <<asked, following>>

RecordsInit ==
    /\ graph = NoGraph
    /\ request = NothingAsked
    /\ asked = 0
    /\ version = 0
    /\ following \in BOOLEAN

RecordsNext ==
    \/ \E limit \in Limits :
         \/ \E p \in DiskPages : AskRecordPage(p, limit) \/ AskClass(p, limit)
         \/ \E p \in DiskPages : \E i \in DOMAIN Disk[0][p].slots :
              SelectRecord(<<p, i>>, limit) \/ InspectSlot(<<p, i>>, limit)
    \/ \E cancelled \in {"never", "before", "during"}, seen \in Sightings : RunPart(cancelled, seen)

RecordsSpec == RecordsInit /\ [][RecordsNext]_recordVars

-----------------------------------------------------------------------------
(* Properties *)

\* The classes that the heap pages of a sector name, in the scan.  One, unless the database is
\* damaged: a sector belongs to one file, and a class has one heap.
ClassesNamed(s) ==
    {Disk[0][q].class : q \in {q \in DiskPages : /\ SectorOf(q) = s /\ Opens(0, q)
                                                /\ Disk[0][q].type = "heap"}} \ {NoRecord}
OneClass(s) == \A c, d \in ClassesNamed(s) : c = d

\* A record that was interpreted was so under a representation the session has; one reached by
\* a relocation was reached by an edge that was validated and leads to it; and in a session
\* that does not follow its input it is a record of a heap page of the scan, of a class that
\* the page's sector names.
Grounded(g) ==
    \A r \in DOMAIN g.records :
      LET e == g.records[r] IN
      /\ e.reason = "none" => <<e.class, e.rep>> \in g.resolved
      /\ e.from # NoRecord => ValidTarget(g, e.from) /\ g.edges[e.from].target = r
      /\ ~following =>
           /\ HasSlot(0, r) /\ SlotAt(0, r).kind \in {"home", "newhome"}
           /\ Disk[0][r[1]].type = "heap" /\ e.class \in ClassesNamed(SectorOf(r[1]))

KeepsGrounds(g, h) ==
    /\ Grounded(h)
    /\ g.resolved \subseteq h.resolved
    /\ \A r \in DOMAIN g.edges : r \in DOMAIN h.edges /\ h.edges[r] = g.edges[r]
    /\ \A r \in DOMAIN g.records :
         /\ r \in DOMAIN h.records
         /\ g.records[r].from # NoRecord => h.records[r].from # NoRecord
         /\ ~following /\ OneClass(SectorOf(r[1])) =>
              [h.records[r] EXCEPT !.from = g.records[r].from] = g.records[r]

\* Whatever order pages, classes and records are asked for in, and whatever fails or changes
\* between: what a request has made of the session keeps a record's grounds from part to part
\* and into the session, a relocation that reached a record is never forgotten, nor a
\* representation or an edge, and, if the input is not followed, nothing said of a record whose
\* sector names one class is taken back.  A request that fails leaves the session as it was
\* (publish_interpretation, enrich_record_selection).
RecordsKeepTheirGrounds ==
    [][ \/ request'.parts = <<>> /\ graph' = graph
        \/ /\ KeepsGrounds(request.view, IF request'.parts = <<>> THEN graph' ELSE request'.view)
           /\ KeepsGrounds(graph, graph')
      ]_recordVars
===============================================================================
