-------------------------------- MODULE ChainReads ------------------------------
(************************************************************************************)
(* Deep reads that follow links from page to page (src/inspection.rs): the          *)
(* overflow chain of a REC_BIGONE record, an OOS chain, the target of a             *)
(* relocated record, and the heap chain that the TDE key record is searched for     *)
(* in when a database is opened.                                                    *)
(*                                                                                  *)
(* What a page holds is chosen when it is read, by the first thing that is wrong    *)
(* with it; no read visits a page twice.  Lengths are in units of which a page has  *)
(* IoPage and its decrypted body as many.  Between two pages the request may be     *)
(* cancelled and the input may change.  The session is one that does not follow its *)
(* input: one that does publishes what it read of a changed input (LiveWeb).        *)
(************************************************************************************)
EXTENDS Integers, Sequences, FiniteSets

CONSTANTS
    ChainPages,   \* how many pages links can name
    IoPage,       \* the size of a page, and the most a decrypted one adds to it
    HeadRoom,     \* what an overflow page carries: the first, and the others
    RestRoom,
    MaxTotal,     \* bounds the length a chain claims
    Policies      \* the ResourcePolicy of a request

ASSUME ChainAssumption ==
    /\ ChainPages \in Nat \ {0} /\ IoPage \in Nat \ {0} /\ MaxTotal \in Nat
    /\ HeadRoom \in 1..IoPage /\ RestRoom \in 1..IoPage
    /\ Policies \subseteq [memory : Nat, decoded : Nat, steps : Nat]

VARIABLES
    read,       \* the read under way
    fact,       \* what the session holds of the record or chain asked for
    moved       \* whether the input has changed since it was scanned

chainVars == <<read, fact, moved>>

\* Pages are numbered from the first one read.
Nothing == 0
First == 1
NoPolicy == [memory |-> 0, decoded |-> 0, steps |-> 0]
NoChainRead ==
    [stage |-> "none", facet |-> "none", policy |-> NoPolicy, capture |-> FALSE,
     at |-> Nothing, visited |-> {}, pages |-> <<>>, total |-> 0,
     remaining |-> 0, validated |-> 0, decoded |-> 0, resident |-> 0, torn |-> FALSE]

\* The first thing a reader finds wrong with a page, in the order it looks: who owns it,
\* what the scan says it is, then what its bytes say.
PageFaults == {"none", "page-owner", "page-role", "unreadable", "encrypted", "decrypt", "format"}

\* A page: `sealed` if it is to be decrypted, `link` to the next page, `placed` if an OOS chunk's
\* index is the one expected, and the lengths it states.
ChainPage ==
    [fault : PageFaults, sealed : BOOLEAN, link : 0..ChainPages, total : 1..MaxTotal,
     placed : BOOLEAN, length : 1..RestRoom]

Looks ==
    {p \in ChainPage :
        /\ p.fault \in {"encrypted", "decrypt"} => p.sealed
        /\ p.fault # "none" => p.link = 0 /\ p.total = 1 /\ p.placed /\ p.length = 1}

\* What the decoders of the kinds of page make of one: a record's home, which names the first
\* page of its chain; an overflow page; an OOS chunk, whose page's owner is not looked at; the
\* slot a relocation names; and a page of a heap.
HomeLooks ==
    {p \in Looks : /\ p.total = 1 /\ p.placed /\ p.length = 1
                   /\ p.link = (IF p.fault = "none" THEN First ELSE Nothing)}
OverflowLooks == {p \in Looks : p.placed /\ p.length = 1}
ChunkLooks == {p \in Looks : p.fault # "page-owner"}
TargetLooks == {p \in Looks : p.link = Nothing /\ p.placed /\ p.length = 1}
HeapLooks ==
    {p \in Looks : /\ p.total = 1 /\ p.placed /\ p.length = 1 /\ ~p.sealed
                   /\ p.fault \in {"none", "unreadable", "format"}}

\* read_admitted: both copies of a decrypted page are held at once.
PageResident(p) == IF p.sealed THEN 2 * IoPage ELSE IoPage

Least(a, b) == IF a < b THEN a ELSE b

-----------------------------------------------------------------------------
(* The end of a read. *)

\* A session is never changed: the next revision has one more fact, and is otherwise equal.
PublishChain(r, reason) ==
    /\ fact' = [held |-> TRUE, reason |-> reason, pages |-> r.pages, total |-> r.total,
                validated |-> r.validated, torn |-> r.torn]
    /\ read' = NoChainRead
    /\ UNCHANGED moved

\* A record read to the end need not hold a name (decode_class_record_name and its codeset).
Endings(r, reason) ==
    IF reason # "none" THEN {"failed"} ELSE IF r.capture THEN {"named", "failed"} ELSE {"named"}

\* A class name is read into memory and dropped: the reader gets it or the reason why not.
Answer(r, reason) ==
    /\ \E ending \in Endings(r, reason) : read' = [r EXCEPT !.stage = ending]
    /\ UNCHANGED <<fact, moved>>

\* source_stability_stop: the snapshot is invalidated, and nothing read is published.  Nor is
\* anything when the input cannot be read.
InvalidateChain ==
    /\ read' = NoChainRead
    /\ UNCHANGED <<fact, moved>>

Stop(r, reason) ==
    IF r.capture \/ r.facet = "special" THEN Answer(r, reason)
    ELSE IF reason = "unreadable" THEN InvalidateChain ELSE PublishChain(r, reason)

\* A plausible mistake: what was read before the input changed is published.
StopUnchecked(r, reason) == Stop(r, reason)

\* The stamps are compared again before what was read to the end is published.
StopChecked(r, reason) ==
    IF moved /\ ~r.capture /\ r.facet # "special" THEN InvalidateChain ELSE Stop(r, reason)

Finish(r) == StopChecked(r, "none")

-----------------------------------------------------------------------------
(* The overflow chain of a record, walked by enrich_bigone and resolve_bigone_class_name. *)
(* However the walk ended, enrich_bigone compares the stamps before it publishes.         *)

OverflowStops(r, cancelled) ==
    IF cancelled THEN "interrupted"
    ELSE IF Len(r.pages) >= r.policy.steps THEN "resource-limit"
    ELSE IF r.at \in r.visited THEN "overflow.chain.acyclic" ELSE "none"

\* What a page may occupy: the memory its payload so far has left, and what may still be
\* decoded.  A plausible mistake first: the payload is not counted.
AdmittedForPageAlone(r) == Least(r.policy.memory, r.policy.decoded - r.decoded)

AdmittedForPage(r) ==
    Least(r.policy.memory - (IF r.capture THEN r.total ELSE 0), r.policy.decoded - r.decoded)

AdmittedPayload(r, p) ==
    p.total <= r.policy.decoded /\ p.total + PageResident(p) <= r.policy.memory

OverflowRefuses(r, p) ==
    IF p.fault \in {"page-owner", "page-role"} THEN p.fault
    ELSE IF IoPage > AdmittedForPage(r) THEN "resource-limit"
    ELSE IF p.fault = "unreadable" THEN p.fault
    ELSE IF PageResident(p) > AdmittedForPage(r) THEN "resource-limit" ELSE p.fault

\* decode_overflow_head, decode_overflow_continuation: a page is full unless it is the last.
PageRoom(r) == IF r.pages = <<>> THEN HeadRoom ELSE RestRoom
LinkShape(remaining, room, link) == (link # Nothing) = (remaining > room)

ReadOverflowPage(r, p) ==
    LET head == r.pages = <<>>
        remaining == IF head THEN p.total ELSE r.remaining
        payload == Least(remaining, PageRoom(r))
        opened == [r EXCEPT !.visited = @ \cup {r.at}, !.decoded = @ + PageResident(p),
                            !.torn = @ \/ moved]
        begun == [opened EXCEPT !.total = IF head THEN p.total ELSE @]
        next == [begun EXCEPT !.remaining = remaining - payload, !.validated = @ + payload,
                   !.resident = PageResident(p) + (IF r.capture THEN begun.total ELSE 0),
                   !.pages = Append(@, [page |-> r.at, link |-> p.link, length |-> payload,
                                        index |-> Len(r.pages)]),
                   !.at = p.link] IN
    IF ~LinkShape(remaining, PageRoom(r), p.link) THEN StopChecked(opened, "overflow.page.link_shape")
    ELSE IF head /\ r.capture /\ ~AdmittedPayload(r, p) THEN StopChecked(begun, "resource-limit")
    ELSE IF p.link = Nothing THEN Finish(next)
    ELSE read' = next /\ UNCHANGED <<fact, moved>>

OverflowStep(cancelled) ==
    /\ read.stage = "walking" /\ read.facet = "overflow"
    /\ LET stops == OverflowStops(read, cancelled) IN
       IF stops # "none" THEN StopChecked(read, stops)
       ELSE \E p \in OverflowLooks :
              IF OverflowRefuses(read, p) # "none"
              THEN StopChecked([read EXCEPT !.visited = @ \cup {read.at}], OverflowRefuses(read, p))
              ELSE ReadOverflowPage(read, p)

-----------------------------------------------------------------------------
(* An OOS chain.  A page's owner is not looked at; every chunk says where it stands in *)
(* the chain and how long the chain is.                                                *)

OosStops(r, cancelled) ==
    IF cancelled THEN "interrupted"
    ELSE IF Len(r.pages) >= r.policy.steps THEN "resource-limit"
    ELSE IF r.at \in r.visited THEN "oos.chain.acyclic"
    ELSE IF r.decoded + IoPage > Least(r.policy.decoded, 2 * r.policy.memory) THEN "resource-limit"
    ELSE "none"

OosRefuses(r, p) ==
    IF p.fault = "page-role" THEN p.fault
    ELSE IF IoPage > r.policy.memory THEN "resource-limit"
    ELSE IF p.fault = "unreadable" THEN p.fault
    ELSE IF PageResident(p) > r.policy.memory THEN "resource-limit"
    ELSE IF p.fault \in {"encrypted", "decrypt"} THEN p.fault
    ELSE IF p.sealed /\ r.decoded + PageResident(p) > r.policy.decoded THEN "resource-limit"
    ELSE p.fault

OutOfSequence(r, p) == ~p.placed \/ (r.pages # <<>> /\ p.total # r.total)

ReadOosChunk(r, p) ==
    LET opened == [r EXCEPT !.visited = @ \cup {r.at}, !.decoded = @ + PageResident(p),
                            !.torn = @ \/ moved, !.resident = PageResident(p)]
        begun == [opened EXCEPT !.total = p.total]
        next == [begun EXCEPT !.validated = @ + p.length,
                   !.pages = Append(@, [page |-> r.at, link |-> p.link, length |-> p.length,
                                        index |-> IF p.placed THEN Len(r.pages) ELSE Len(r.pages) + 1]),
                   !.at = p.link] IN
    IF p.length > p.total THEN Stop(opened, "oos.chunk.payload_length")
    ELSE IF OutOfSequence(r, p) THEN Stop(opened, "oos.chain.sequence")
    ELSE IF next.validated > Least(p.total, r.policy.decoded)
    THEN Stop(begun, "oos.chain.accumulated_length")
    ELSE IF p.link # Nothing THEN read' = next /\ UNCHANGED <<fact, moved>>
    ELSE IF next.validated # p.total THEN Stop(next, "oos.chain.complete_length")
    ELSE Finish(next)

OosStep(cancelled) ==
    /\ read.stage = "walking" /\ read.facet = "oos"
    /\ LET stops == OosStops(read, cancelled) IN
       IF stops # "none" THEN Stop(read, stops)
       ELSE \E p \in ChunkLooks :
              IF OosRefuses(read, p) # "none"
              THEN Stop([read EXCEPT !.visited = @ \cup {read.at}], OosRefuses(read, p))
              ELSE ReadOosChunk(read, p)

-----------------------------------------------------------------------------
(* The target of a relocated record: one page of the same heap, whose record is copied if *)
(* a class name is read from it.                                                          *)

CopiedRecordFits(r, p) == r.capture => PageResident(p) + p.total <= r.policy.memory

TargetStep(cancelled) ==
    /\ read.stage = "walking" /\ read.facet = "relocation"
    /\ IF cancelled THEN Stop(read, "interrupted")
       ELSE \E p \in TargetLooks :
              IF OverflowRefuses(read, p) # "none" THEN Stop(read, OverflowRefuses(read, p))
              ELSE IF ~CopiedRecordFits(read, p) THEN Stop(read, "resource-limit")
              ELSE Finish([read EXCEPT !.pages = <<[page |-> read.at, link |-> Nothing,
                                                   length |-> p.total, index |-> 0]>>,
                                       !.decoded = @ + PageResident(p), !.torn = @ \/ moved,
                                       !.total = p.total, !.validated = p.total,
                                       !.resident = PageResident(p) + (IF read.capture THEN p.total ELSE 0)])

-----------------------------------------------------------------------------
(* The special heap record, searched for along a doubly linked heap chain. *)

SpecialStep(cancelled) ==
    /\ read.stage = "walking" /\ read.facet = "special"
    /\ IF cancelled THEN Stop(read, "interrupted")
       ELSE IF \/ Len(read.pages) + 1 > read.policy.steps
               \/ read.decoded + IoPage > read.policy.decoded
               \/ read.at \in read.visited
       THEN Stop(read, "tde-bootstrap")
       ELSE \E p \in HeapLooks, linkedBack, holds \in BOOLEAN :
              LET next == [read EXCEPT !.visited = @ \cup {read.at}, !.decoded = @ + IoPage,
                             !.resident = IoPage, !.at = p.link,
                             !.pages = Append(@, [page |-> read.at, link |-> p.link,
                                                  length |-> 0, index |-> Len(read.pages)])] IN
              IF p.fault # "none" \/ ~linkedBack THEN Stop(read, "tde-bootstrap")
              ELSE IF holds THEN Finish(next)
              ELSE IF p.link = Nothing THEN Stop(next, "tde-bootstrap")
              ELSE read' = next /\ UNCHANGED <<fact, moved>>

-----------------------------------------------------------------------------
(* Requests. *)

\* The page the record is on is read first, and dropped before its chain is followed: it
\* counts as decoded, and names the first page.
HomeRefuses(r, p) ==
    IF p.fault = "page-owner" THEN p.fault
    ELSE IF PageResident(p) > Least(r.policy.memory, r.policy.decoded) THEN "resource-limit" ELSE p.fault

BeginFromHome(r, p) ==
    LET home == [r EXCEPT !.torn = @ \/ moved] IN
    IF HomeRefuses(r, p) # "none" THEN Stop(home, HomeRefuses(r, p))
    ELSE /\ read' = [home EXCEPT !.stage = "walking", !.at = p.link, !.decoded = PageResident(p)]
         /\ UNCHANGED <<fact, moved>>

Requested(facet, policy) == [NoChainRead EXCEPT !.facet = facet, !.policy = policy]

\* What has been read once is not read again, even if it was interrupted.
EnrichFromHome(facet, policy, cancelled) ==
    LET r == Requested(facet, policy) IN
    /\ read.stage = "none" /\ ~fact.held
    /\ IF cancelled THEN Stop(r, "interrupted")
       ELSE IF Least(policy.memory, policy.decoded) < IoPage THEN Stop(r, "resource-limit")
       ELSE IF moved THEN InvalidateChain
       ELSE \E p \in HomeLooks : BeginFromHome(r, p)

EnrichOos(policy) ==
    /\ read.stage = "none" /\ ~fact.held
    /\ IF moved THEN InvalidateChain
       ELSE /\ read' = [Requested("oos", policy) EXCEPT
                          !.stage = "walking", !.at = First]
            /\ UNCHANGED <<fact, moved>>

\* resolve_class_name: the class's record is on this page, relocated, or long.
ReadClassName(facet, policy, cancelled) ==
    LET r == [Requested(facet, policy) EXCEPT !.capture = TRUE] IN
    /\ read.stage = "none"
    /\ IF cancelled THEN Stop(r, "interrupted")
       ELSE IF Least(policy.memory, policy.decoded) < IoPage THEN Stop(r, "resource-limit")
       ELSE \E p \in HomeLooks :
              IF HomeRefuses(r, p) # "none" THEN Stop(r, HomeRefuses(r, p))
              ELSE CASE facet = "home" -> Answer(r, "none")
                     [] facet = "relocation" /\ policy.steps < 2 -> Stop(r, "relocation-depth")
                     [] OTHER -> BeginFromHome(r, p)

ReadSpecialRecord(policy) ==
    /\ read.stage = "none"
    /\ IF Least(policy.memory, policy.decoded) < IoPage
       THEN Stop(Requested("special", policy), "tde-bootstrap")
       ELSE /\ read' = [Requested("special", policy) EXCEPT
                          !.stage = "walking", !.at = First]
            /\ UNCHANGED <<fact, moved>>

InputMoves == ~moved /\ ~fact.held /\ moved' = TRUE /\ UNCHANGED <<read, fact>>

NoChain == [held |-> FALSE, reason |-> "none", pages |-> <<>>, total |-> 0, validated |-> 0,
            torn |-> FALSE]

ChainInit ==
    /\ read = NoChainRead
    /\ fact = NoChain
    /\ moved = FALSE

ChainNext ==
    \/ InputMoves
    \/ \E cancelled \in BOOLEAN :
         OverflowStep(cancelled) \/ OosStep(cancelled) \/ TargetStep(cancelled) \/ SpecialStep(cancelled)
    \/ \E policy \in Policies :
         \/ \E facet \in {"overflow", "relocation"}, cancelled \in BOOLEAN :
              EnrichFromHome(facet, policy, cancelled)
         \/ \E facet \in {"home", "overflow", "relocation"}, cancelled \in BOOLEAN :
              ReadClassName(facet, policy, cancelled)
         \/ EnrichOos(policy)
         \/ ReadSpecialRecord(policy)

ChainSpec == ChainInit /\ [][ChainNext]_chainVars

-----------------------------------------------------------------------------
(* Properties *)

Linked(pages) ==
    /\ \A i, j \in DOMAIN pages : i # j => pages[i].page # pages[j].page
    /\ \A i \in DOMAIN pages : pages[i].index = i - 1
    /\ \A i \in DOMAIN pages : i > 1 => pages[i - 1].link = pages[i].page

Carried(pages) ==
    LET sum[i \in 0..Len(pages)] == IF i = 0 THEN 0 ELSE sum[i - 1] + pages[i].length IN
    sum[Len(pages)]

\* A chain reported complete is one: its pages are distinct, each names the next, in order,
\* the last none, together they carry what the first claims, and all were read while the
\* input was as scanned.  One that stopped is a beginning of such a chain, and no longer than
\* it claims to be (walk_overflow_chain, enrich_oos, publish_*).
ChainsAreWhole ==
    fact.held =>
      /\ Linked(fact.pages)
      /\ fact.validated = Carried(fact.pages) /\ fact.validated <= fact.total
      /\ fact.reason = "none" =>
           /\ ~fact.torn /\ fact.validated = fact.total
           /\ fact.pages # <<>> /\ fact.pages[Len(fact.pages)].link = Nothing

\* A read holds no more than its policy admits, pages and payload together, and visits no
\* more pages than that (read_admitted, admitted_overflow_payload_capacity).
ReadsStayWithinPolicy ==
    read.stage # "none" =>
      /\ read.resident <= read.policy.memory /\ Len(read.pages) <= read.policy.steps
      /\ read.facet # "oos" => read.decoded <= read.policy.decoded \/ read.pages = <<>>
=============================================================================
