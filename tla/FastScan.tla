--------------------------------- MODULE FastScan ---------------------------------
(*****************************************************************************************)
(* The fast scan that opens a snapshot (Inspection::open_profiled_with_mode and the      *)
(* page-fact store, src/inspection.rs; the envelope, volume and bitmap decoders of       *)
(* src/format): the geometry of every volume, then the envelope of every eligible page,  *)
(* read in waves by worker threads and kept packed, in memory or in a spill file.        *)
(*                                                                                       *)
(* What a page holds is chosen when a worker reads it; the user may cancel and the input *)
(* may change at any moment.                                                             *)
(*****************************************************************************************)
EXTENDS Integers, Sequences

CONSTANTS
    Headers,       \* for each volume in turn, what its header may say
    PageSpan,      \* SECTOR_PAGES
    BitmapSpan,    \* sectors a bitmap page covers
    Workers,       \* worker threads of a wave
    Batch,         \* WORKER_PAGE_BATCH
    FormatProfile, \* the persistent format the input is read as
    Envelopes,     \* what the envelope of a page may look like
    ScanPolicies,  \* memory and spill limits, in page facts
    BaseFacts,     \* what the volumes' records and the terminal diagnostic occupy
    NoteFacts      \* what one retained diagnostic occupies

ASSUME ScanAssumption ==
    /\ PageSpan \in Nat \ {0} /\ BitmapSpan \in Nat \ {0}
    /\ Workers \in Nat \ {0} /\ Batch \in Nat \ {0}
    /\ FormatProfile \in {"feat-oos", "develop"}
    /\ ScanPolicies \subseteq [memory : Nat, spill : Nat]
    /\ BaseFacts \in Nat /\ NoteFacts \in Nat
    /\ Headers # <<>>    \* parse_vinf: there is a volume zero
    /\ Headers \in Seq(SUBSET [total : Nat, maximum : Nat, bitmapPages : Nat, length : Nat])
    /\ Envelopes \subseteq [intact : BOOLEAN, own : BOOLEAN, type : Nat, flags : Nat, units : 0..15]

VARIABLES
    fastScan,   \* the scan under way: its stage, its budget and what it counts
    volumes,    \* the volumes whose geometry is known, each with its store of facts
    spillFile,  \* what the spill file holds, by position
    wave,       \* the pages of the wave being read, and the results so far
    cancelled,
    scanned     \* history: the facts accepted, per volume, in the order they were accepted

scanVars == <<fastScan, volumes, spillFile, wave, cancelled, scanned>>

NoWave == [pages |-> <<>>, results |-> <<>>]
NothingScanned ==
    [stage |-> "none", policy |-> [memory |-> 0, spill |-> 0], key |-> FALSE, volume |-> 1, next |-> 1,
     spilling |-> FALSE, resident |-> 0, spilled |-> 0, evaluated |-> 0, notes |-> 0, stop |-> "none",
     validity |-> "unverified"]

ScanInit ==
    /\ fastScan = NothingScanned
    /\ volumes = <<>>
    /\ spillFile = <<>>
    /\ wave = NoWave
    /\ cancelled = FALSE
    /\ scanned = [v \in DOMAIN Headers |-> <<>>]

Fail(reason) ==
    /\ fastScan' = [fastScan EXCEPT !.stage = "failed", !.stop = reason]
    /\ wave' = NoWave
    /\ UNCHANGED <<volumes, spillFile, cancelled, scanned>>

-----------------------------------------------------------------------------
(* Geometry: the header of each volume, then its sector bitmap.  There is no snapshot unless *)
(* every volume's geometry is sound.                                                         *)

\* decode_volume_header: the bitmap's pages follow the header's, and are the last of the
\* volume's own.
BitmapPages(h) == (h.maximum + BitmapSpan - 1) \div BitmapSpan
SystemLast(h) == BitmapPages(h)
GeometryIsSound(h) ==
    /\ h.total > 0 /\ h.total <= h.maximum
    /\ h.bitmapPages = BitmapPages(h)
    /\ h.length >= (IF h.total * PageSpan > SystemLast(h) + 1 THEN h.total * PageSpan ELSE SystemLast(h) + 1)

\* decode_sector_bitmap: each page of the bitmap speaks of the sectors it covers.  `bits` are
\* the bits set in it, those past the volume's last sector included.
Covered(h, index) == {s \in 0..(h.total - 1) : s \div BitmapSpan = index}
Reserved(h, bits) == UNION {bits \cap Covered(h, index) : index \in 0..(BitmapPages(h) - 1)}

ReadGeometry ==
    /\ fastScan.stage = "geometry" /\ Len(volumes) < Len(Headers)
    /\ \E h \in Headers[Len(volumes) + 1] :
         \/ cancelled /\ Fail("interrupted")
         \/ ~cancelled /\ Fail("source")
         \/ ~cancelled /\ ~GeometryIsSound(h) /\ Fail("format")
         \/ /\ ~cancelled /\ GeometryIsSound(h)
            /\ \E bits \in SUBSET (0..(h.maximum - 1)) :
                 volumes' = Append(volumes, [total |-> h.total, systemLast |-> SystemLast(h),
                   length |-> h.length, reserved |-> Reserved(h, bits),
                   facts |-> [spilled |-> FALSE, offset |-> 0, len |-> 0, memory |-> <<>>]])
            /\ UNCHANGED <<fastScan, spillFile, wave, cancelled, scanned>>

\* eligible_page_count, EligiblePageCursor: reserved sectors and the volume's own pages, in order.
EligibleSector(v, s) == s \in v.reserved \/ s * PageSpan <= v.systemLast

Eligible(v) ==
    LET below[p \in 0..(v.total * PageSpan)] ==
          IF p = 0 THEN <<>>
          ELSE IF EligibleSector(v, (p - 1) \div PageSpan) THEN Append(below[p - 1], p - 1)
          ELSE below[p - 1] IN
    below[v.total * PageSpan]

Total(counts) ==
    LET upTo[n \in 0..Len(counts)] == IF n = 0 THEN 0 ELSE upTo[n - 1] + counts[n] IN
    upTo[Len(counts)]

EligibleTotal == Total([v \in DOMAIN volumes |-> Len(Eligible(volumes[v]))])

-----------------------------------------------------------------------------
(* One page's envelope, and the sixteen bytes its fact is kept in. *)

\* PageType::from_ordinal: the profiles number the types differently from OOS pages on, and
\* only one knows the last.
UnknownType == 255
PageTypeOf(profile, n) ==
    CASE n < 8 \/ (profile = "feat-oos" /\ n < 15) -> n
      [] profile = "develop" /\ n \in 8..13 -> n + 1
      [] OTHER -> UnknownType

\* decode_page_envelope_parts: the first rule the envelope breaks, in the order of the checks.
EnvelopeRule(profile, e) ==
    CASE ~e.intact -> "lsa_match"
      [] e.intact /\ ~e.own -> "identity_match"
      [] e.intact /\ e.own /\ PageTypeOf(profile, e.type) = UnknownType -> "type_known"
      [] e.intact /\ e.own /\ PageTypeOf(profile, e.type) # UnknownType /\ e.flags > 2 -> "tde_flags"
      [] OTHER -> "none"

Alternative == IF FormatProfile = "develop" THEN "feat-oos" ELSE "develop"
Faulty(e) == EnvelopeRule(FormatProfile, e) # "none"
Hinted(e) == Faulty(e) /\ EnvelopeRule(Alternative, e) = "none"

\* Heap, OOS, catalog and index pages.
SlottedTypes == {2, 8, 10, 11}

\* page_diagnostic_code
RuleCode(rule) ==
    CASE rule = "identity_match" -> 1 [] rule = "lsa_match" -> 2 [] rule = "type_known" -> 3
      [] rule = "tde_flags" -> 4 [] OTHER -> 0

\* scan_page_envelope
FactOf(page, e, key) ==
    LET rule == EnvelopeRule(FormatProfile, e)
        type == PageTypeOf(FormatProfile, e.type) IN
    IF Faulty(e)
    THEN [page |-> page, type |-> UnknownType, sealed |-> IF rule = "tde_flags" THEN 5 ELSE 0, units |-> 0,
          lsa |-> FALSE, rule |-> RuleCode(rule)]
    ELSE [page |-> page, type |-> type, sealed |-> IF e.flags = 0 THEN 0 ELSE IF key THEN 1 ELSE 2,
          units |-> IF e.flags = 0 /\ type \in SlottedTypes THEN e.units ELSE 0, lsa |-> TRUE, rule |-> 0]

\* PackedPageFact: the last byte holds three things.
Pack(f) ==
    [page |-> f.page, type |-> f.type, sealed |-> f.sealed,
     flags |-> f.rule + 8 * f.units + (IF f.lsa THEN 128 ELSE 0)]
Unpack(b) ==
    [page |-> b.page, type |-> b.type, sealed |-> b.sealed, rule |-> b.flags % 8,
     units |-> (b.flags \div 8) % 16, lsa |-> b.flags >= 128]

\* fact_at and page_fact: the store is searched as a sorted one.
FactAt(v, i) ==
    Unpack(IF v.facts.spilled THEN spillFile[v.facts.offset + i + 1] ELSE v.facts.memory[i + 1])

NoFact == [page |-> -1]
PageFactOf(v, page) ==
    LET find[range \in (0..v.facts.len) \X (0..v.facts.len)] ==
          LET low == range[1] high == range[2] middle == (low + high) \div 2 IN
          IF low >= high THEN NoFact
          ELSE IF FactAt(v, middle).page < page THEN find[<<middle + 1, high>>]
          ELSE IF FactAt(v, middle).page > page THEN find[<<low, middle>>]
          ELSE FactAt(v, middle) IN
    find[<<0, v.facts.len>>]

-----------------------------------------------------------------------------
(* Waves. *)

\* Facts go to a spill file when they do not fit beside the base; when not even the base does,
\* no page is read.
BeginEnvelopes ==
    /\ fastScan.stage = "geometry" /\ Len(volumes) = Len(Headers)
    /\ LET fits == BaseFacts + EligibleTotal <= fastScan.policy.memory
           spilling == ~fits /\ BaseFacts <= fastScan.policy.memory IN
       \/ fastScan.key /\ Fail("tde")
       \/ spilling /\ Fail("spill")
       \/ /\ fastScan' = [fastScan EXCEPT !.stage = "envelopes", !.spilling = spilling,
                        !.resident = IF spilling THEN BaseFacts ELSE BaseFacts + EligibleTotal]
          /\ volumes' = [volumes EXCEPT ![1].facts.spilled = spilling]
          /\ UNCHANGED <<spillFile, wave, cancelled, scanned>>

Slots == IF fastScan.spilling THEN fastScan.policy.spill - fastScan.spilled ELSE Workers * Batch

\* A volume's facts follow those of the volumes before it in the spill file.  A plausible
\* mistake first: every volume's begin the file.
NextVolumeAtTheStart ==
    volumes' = [volumes EXCEPT ![fastScan.volume + 1].facts =
                  [spilled |-> fastScan.spilling, offset |-> 0, len |-> 0, memory |-> <<>>]]
NextVolume ==
    volumes' = [volumes EXCEPT ![fastScan.volume + 1].facts =
                  [spilled |-> fastScan.spilling, offset |-> fastScan.spilled, len |-> 0, memory |-> <<>>]]

StoppedEarly(reason) == [fastScan EXCEPT !.stage = "reconciliation", !.stop = reason, !.notes = @ + 1]

StartWave ==
    /\ fastScan.stage = "envelopes" /\ wave = NoWave
    /\ LET pages == Eligible(volumes[fastScan.volume]) IN
       \/ /\ fastScan.next > Len(pages) /\ fastScan.volume < Len(volumes)
          /\ fastScan' = [fastScan EXCEPT !.volume = @ + 1, !.next = 1]
          /\ NextVolume
          /\ UNCHANGED wave
       \/ /\ fastScan.next > Len(pages) /\ fastScan.volume = Len(volumes)
          /\ fastScan' = [fastScan EXCEPT !.stage = "reconciliation"]
          /\ UNCHANGED <<volumes, wave>>
       \/ /\ fastScan.next <= Len(pages)
          /\ IF BaseFacts > fastScan.policy.memory \/ Slots = 0
             THEN fastScan' = StoppedEarly("resource-limit") /\ UNCHANGED <<volumes, wave>>
             ELSE LET last == fastScan.next - 1 + (IF Slots < Workers * Batch THEN Slots ELSE Workers * Batch)
                      taken == SubSeq(pages, fastScan.next, IF last < Len(pages) THEN last ELSE Len(pages)) IN
                  /\ wave' = [pages |-> taken, results |-> [i \in DOMAIN taken |-> [kind |-> "pending"]]]
                  /\ fastScan' = [fastScan EXCEPT !.next = @ + Len(taken)]
                  /\ UNCHANGED volumes
    /\ UNCHANGED <<spillFile, cancelled, scanned>>

\* Each worker reads the pages of its own batch in order, while the others read theirs.
ReadEnvelope(worker) ==
    /\ fastScan.stage = "envelopes"
    /\ LET mine == {i \in DOMAIN wave.pages : (i - 1) \div Batch = worker - 1 /\ wave.results[i].kind = "pending"} IN
       /\ mine # {}
       /\ LET i == CHOOSE i \in mine : \A j \in mine : i <= j IN
          \E result \in IF cancelled THEN {[kind |-> "cancelled"]}
                        ELSE {[kind |-> "unreadable"]} \cup {[kind |-> "fact", envelope |-> e] : e \in Envelopes} :
            wave' = [wave EXCEPT !.results[i] = result]
    /\ UNCHANGED <<fastScan, volumes, spillFile, cancelled, scanned>>

\* The results of a wave are taken in the order of its pages, until one ends the scan; `seen`
\* is the first before which the cancellation is noticed.  A plausible mistake first: a
\* diagnostic is admitted before it is counted.
Note(a) == [a EXCEPT !.resident = @ + NoteFacts, !.notes = @ + 1]
NoteFitsUncounted(a) == a.resident <= fastScan.policy.memory
NoteFits(a) == a.resident + NoteFacts <= fastScan.policy.memory
Ended(a, reason) == [a EXCEPT !.stop = reason]
OverBudget(a) == Ended([a EXCEPT !.notes = @ + 1], "resource-limit")

Taken(a, page, result, seen) ==
    IF a.stop # "none" THEN a
    ELSE IF seen \/ result.kind = "cancelled" THEN Ended(a, "interrupted")
    ELSE IF result.kind = "unreadable"
    THEN IF NoteFits(a) THEN Ended([Note(a) EXCEPT !.evaluated = @ + 1], "unreadable") ELSE OverBudget(a)
    ELSE LET e == result.envelope
             faulty == IF Faulty(e) THEN Note(a) ELSE a IN
         IF Faulty(e) /\ ~NoteFits(a) THEN OverBudget(a)
         ELSE IF Hinted(e) /\ ~NoteFits(faulty) THEN OverBudget(faulty)
         ELSE [(IF Hinted(e) THEN Note(faulty) ELSE faulty) EXCEPT
                 !.evaluated = @ + 1, !.facts = Append(@, FactOf(page, e, fastScan.key))]

TakeAll(results, seen) ==
    LET take[i \in 0..Len(results)] ==
          IF i = 0 THEN [stop |-> "none", resident |-> fastScan.resident, notes |-> fastScan.notes,
                         evaluated |-> fastScan.evaluated, facts |-> <<>>]
          ELSE Taken(take[i - 1], wave.pages[i], results[i], i >= seen) IN
    take[Len(results)]

Kept(store, facts) ==
    [store EXCEPT !.len = @ + Len(facts),
                  !.memory = IF store.spilled THEN @ ELSE @ \o [i \in DOMAIN facts |-> Pack(facts[i])]]

Written(store, facts) ==
    LET from == store.offset + store.len
        new == {from + i : i \in DOMAIN facts} IN
    IF ~store.spilled THEN spillFile
    ELSE [i \in DOMAIN spillFile \cup new |-> IF i \in new THEN Pack(facts[i - from]) ELSE spillFile[i]]

EndWave ==
    /\ fastScan.stage = "envelopes" /\ wave # NoWave
    /\ \A i \in DOMAIN wave.results : wave.results[i].kind # "pending"
    /\ \/ fastScan.spilling /\ Fail("fact-store")
       \/ \E seen \in 1..(Len(wave.results) + 1) :
         /\ seen <= Len(wave.results) => cancelled
         /\ LET a == TakeAll(wave.results, seen)
                store == volumes[fastScan.volume].facts IN
            /\ fastScan' = [fastScan EXCEPT !.stop = a.stop, !.resident = a.resident, !.notes = a.notes,
                          !.evaluated = a.evaluated,
                          !.spilled = IF store.spilled THEN @ + Len(a.facts) ELSE @,
                          !.stage = IF a.stop = "none" THEN "envelopes" ELSE "reconciliation"]
            /\ volumes' = [volumes EXCEPT ![fastScan.volume].facts = Kept(@, a.facts)]
            /\ spillFile' = Written(store, a.facts)
            /\ scanned' = [scanned EXCEPT ![fastScan.volume] = @ \o a.facts]
         /\ wave' = NoWave
         /\ UNCHANGED cancelled

-----------------------------------------------------------------------------

OpenSnapshot(policy, key) ==
    /\ fastScan.stage = "none"
    /\ fastScan' = [fastScan EXCEPT !.stage = "geometry", !.policy = policy, !.key = key]
    /\ UNCHANGED <<volumes, spillFile, wave, cancelled, scanned>>

\* The stamps are compared again: a change leaves an immutable snapshot invalidated, and a
\* followed one torn.
Reconcile ==
    /\ fastScan.stage = "reconciliation"
    /\ \/ Fail("source")
       \/ \E validity \in {"valid", "invalidated", "torn"} :
            /\ fastScan' = [fastScan EXCEPT !.stage = IF fastScan.stop = "none" THEN "complete" ELSE "partial",
                          !.validity = validity]
            /\ UNCHANGED <<volumes, spillFile, wave, cancelled, scanned>>

CancelScan ==
    /\ fastScan.stage \in {"geometry", "envelopes"} /\ ~cancelled
    /\ cancelled' = TRUE
    /\ UNCHANGED <<fastScan, volumes, spillFile, wave, scanned>>

ScanNext ==
    \/ \E policy \in ScanPolicies, key \in BOOLEAN : OpenSnapshot(policy, key)
    \/ ReadGeometry
    \/ BeginEnvelopes
    \/ StartWave
    \/ \E worker \in 1..Workers : ReadEnvelope(worker)
    \/ EndWave
    \/ Reconcile
    \/ CancelScan

ScanSpec == ScanInit /\ [][ScanNext]_scanVars

-----------------------------------------------------------------------------
(* Properties *)

HoldingFacts == fastScan.stage \in {"envelopes", "reconciliation", "complete", "partial"}

\* What a page's fact is asked for is what a worker read of it, wherever the fact is kept; the
\* facts held are those of the first pages there are to read, volume after volume, and of all of
\* them when the scan is called complete; none of those pages is past the end of its file
\* (PageFactStore, EligiblePageCursor, validate_file_length).
FactsReadBack ==
    HoldingFacts =>
      \A v \in DOMAIN volumes :
        LET volume == volumes[v] pages == Eligible(volume) IN
        /\ volume.facts.len = Len(scanned[v]) /\ Len(scanned[v]) <= Len(pages)
        /\ \A i \in DOMAIN pages :
             /\ pages[i] < volume.length
             /\ PageFactOf(volume, pages[i]) = IF i <= Len(scanned[v]) THEN scanned[v][i] ELSE NoFact
        /\ v < fastScan.volume \/ fastScan.stage = "complete" => Len(scanned[v]) = Len(pages)
        /\ v > fastScan.volume => scanned[v] = <<>>

\* A scan that was stopped says so and never counts a page it does not hold, but for the one
\* that could not be read; it never keeps more than its policy admits, the one diagnostic that
\* says why it ended apart (admit_diagnostic, spill_slots).
ScanStaysInBudget ==
    HoldingFacts =>
      /\ fastScan.evaluated = Total([v \in DOMAIN scanned |-> Len(scanned[v])])
                            + (IF fastScan.stop = "unreadable" THEN 1 ELSE 0)
      /\ fastScan.resident <= fastScan.policy.memory \/ scanned = [v \in DOMAIN Headers |-> <<>>]
      /\ Len(spillFile) = fastScan.spilled /\ fastScan.spilled <= fastScan.policy.spill
      /\ fastScan.stage = "partial" => fastScan.stop # "none"
===============================================================================
