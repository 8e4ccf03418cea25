------------------------------- MODULE FileInventory ------------------------------
(****************************************************************************************)
(* Who owns the pages of a database (src/inspection.rs): the tracker names the files,   *)
(* each file's header names its tables, the tables name sectors and pages.  The         *)
(* inventory is read once, when a snapshot is opened; afterwards one file at a time     *)
(* can be read on request (enrich_file).                                                *)
(*                                                                                      *)
(* What the pages of a table list is chosen when the table is read.  Pages are those of *)
(* one volume, and a file is named by the page its header is on.                        *)
(****************************************************************************************)
EXTENDS Integers, Sequences, FiniteSets, Functions, FiniteSetsExt

CONSTANTS
    FileSectors,   \* sectors of the volume
    SectorPages,   \* pages of a sector
    FileTables,    \* pages the scan found to be file table pages
    MaxSteps,      \* ResourcePolicy: pages the walks of one file may read
    MaxRetained,   \* ResourcePolicy: pages whose owner may be kept
    MaxItems,      \* bounds what one table lists
    Classes        \* the classes a file may belong to

ASSUME InventoryAssumption ==
    /\ FileSectors \in Nat \ {0} /\ SectorPages \in Nat \ {0}
    /\ FileTables \subseteq 0..(FileSectors * SectorPages - 1)
    /\ MaxSteps \in Nat /\ MaxRetained \in Nat /\ MaxItems \in Nat

DbPages == 0..(FileSectors * SectorPages - 1)
SectorIds == 0..(FileSectors - 1)
PagesOf(sector) == {sector * SectorPages + bit : bit \in 0..(SectorPages - 1)}

NoClass == "no class"

VARIABLES
    stage,      \* of the inventory: "outside", "tracker" or "files"
    unread,     \* the files whose tables are still to be read
    found,      \* what the inventory under way has collected of the files before
    session     \* what the session publishes

inventoryVars == <<stage, unread, found, session>>

Empty == [x \in {} |-> {}]
With(f, keys, value) == [x \in DOMAIN f \cup keys |-> IF x \in keys THEN value ELSE f[x]]

NothingFound == [header |-> Empty, owner |-> Empty, claims |-> {}]

InventoryInit ==
    /\ stage = "outside"
    /\ unread = {}
    /\ found = NothingFound
    /\ session = [inventory |-> "unread", reason |-> "none", tracked |-> {}, header |-> Empty,
                  owner |-> Empty, claims |-> {}, names |-> Empty, conflicts |-> {},
                  rejected |-> {}, valid |-> TRUE]

-----------------------------------------------------------------------------
(* The end of a read. *)

ReadIsOver == stage' = "outside" /\ unread' = {} /\ found' = NothingFound

\* with_initial_inventory_result: the snapshot opens without an inventory, and says why.
OpenWithout(reason) ==
    /\ session' = [session EXCEPT !.inventory = "partial", !.reason = reason]
    /\ ReadIsOver

\* page_decode_failure: a fact about a page, replacing what was known of it.
RejectPage(page) ==
    /\ session' = [session EXCEPT !.rejected = @ \cup {page},
                                  !.header = Restrict(@, (DOMAIN @) \ {page})]
    /\ ReadIsOver

\* source_stability_stop.  A snapshot invalidated before its inventory is published says
\* nothing of the inventory.
InvalidateSnapshot ==
    /\ session' = [session EXCEPT !.valid = FALSE,
                                  !.inventory = IF @ = "unread" THEN "unlisted" ELSE @]
    /\ ReadIsOver

-----------------------------------------------------------------------------
(* walk_file_table: the pages of one table, and what they list. *)

\* What the walks of a file have read so far: the pages its tables are on, and how many.
Reading(start) == [stop |-> "none", steps |-> 0, tables |-> {start}]

\* The pages a table names, one after the other.
Chains(start) ==
    {<<start>>} \cup {<<start, p>> : p \in DbPages} \cup {<<start, p, q>> : p, q \in DbPages}

StopAt(r, chain, i) ==
    IF r.steps + i > MaxSteps THEN "resource-limit"
    ELSE IF \E j \in 1..(i - 1) : chain[j] = chain[i] THEN "file.extdata.cycle"
    ELSE IF i > 1 /\ chain[i] \in r.tables THEN "file.extdata.page_shared"
    ELSE IF chain[i] \notin FileTables THEN "file.extdata.page_type" ELSE "none"

\* The walk ends where its chain does, or before.
Walked(r, chain) ==
    LET stops == {i \in DOMAIN chain : StopAt(r, chain, i) # "none"} IN
    IF stops # {} THEN [r EXCEPT !.stop = StopAt(r, chain, Min(stops))]
    ELSE [r EXCEPT !.steps = @ + Len(chain), !.tables = @ \cup Range(chain)]

FewOf(items) == {set \in SUBSET items : Cardinality(set) <= MaxItems}

\* Ends that say nothing of the file's bytes.
OperationStops == {"interrupted", "resource-limit", "unreadable"}

-----------------------------------------------------------------------------
(* collect_file_allocations: the tables of one file and what they add up to. *)

PartialItems == [sector : 0..FileSectors, bits : (SUBSET (0..(SectorPages - 1))) \ {{}}]

Allocated(w) ==
    (UNION {{p.sector * SectorPages + bit : bit \in p.bits} : p \in w.partial})
        \cup (UNION {PagesOf(s) : s \in w.full})

SectorsAreDistinct(w) ==
    /\ \A p, q \in w.partial : p.sector = q.sector => p = q
    /\ \A p \in w.partial : p.sector \notin w.full

\* decode_file_header: the accounts of a header add up, so that what is not free is user
\* pages and pages of tables.  A header whose counts are not those of the tables is refused.
UserPages(w) ==
    IF w.numerable THEN Cardinality(w.user) ELSE Cardinality(Allocated(w)) - Cardinality(w.tables)

PagesReconcile(w) ==
    /\ Cardinality(Allocated(w)) = UserPages(w) + Cardinality(w.tables)
    /\ w.tables \subseteq Allocated(w)
    /\ w.user \subseteq Allocated(w)

FileStop(w) ==
    IF w.stop # "none" THEN w.stop
    ELSE IF ~SectorsAreDistinct(w) THEN "file.table.sector_unique"
    ELSE IF ~(Allocated(w) \subseteq DbPages) THEN "file.table.page_range"
    ELSE IF ~PagesReconcile(w) THEN "file.table.page_reconciliation"
    ELSE IF Cardinality(Allocated(w)) > MaxRetained THEN "resource-limit" ELSE "none"

ClaimsOf(w) ==
    {[sector |-> p.sector, file |-> w.file, bits |-> p.bits, full |-> FALSE] : p \in w.partial}
        \cup {[sector |-> s, file |-> w.file, bits |-> {}, full |-> TRUE] : s \in w.full}

Collected(w) ==
    IF FileStop(w) # "none"
    THEN [file |-> w.file, stop |-> FileStop(w), pages |-> {}, claims |-> {}, tables |-> {}, count |-> 0]
    ELSE [file |-> w.file, stop |-> "none", pages |-> Allocated(w), claims |-> ClaimsOf(w),
          tables |-> w.tables, count |-> UserPages(w) + Cardinality(w.tables)]

\* A further table of the file, or none: only a permanent file has a table of full sectors,
\* only a numerable one a table of its pages.
Further(r, file, has) ==
    IF has /\ r.stop = "none" THEN {Walked(r, chain) : chain \in Chains(file)} ELSE {r}

Walks(file, temporary, numerable) ==
    UNION {UNION {Further(f, file, numerable) : f \in Further(p, file, ~temporary)} :
           p \in Further(Reading(file), file, TRUE)}

Listings(r, temporary, numerable) ==
    IF r.stop # "none" THEN {[partial |-> {}, full |-> {}, user |-> {}]}
    ELSE [partial : FewOf(PartialItems), full : IF temporary THEN {{}} ELSE FewOf(0..FileSectors),
          user : IF numerable THEN FewOf(DbPages) ELSE {{}}]

\* Every way the tables of a file can be read.
CollectedFiles ==
    [file \in FileTables |->
       UNION {UNION {{Collected([file |-> file, stop |-> r.stop, tables |-> r.tables, partial |-> l.partial,
                                full |-> l.full, user |-> l.user, numerable |-> numerable]) :
                      l \in Listings(r, temporary, numerable)} : r \in Walks(file, temporary, numerable)} :
              temporary, numerable \in BOOLEAN}]

-----------------------------------------------------------------------------
(* The whole inventory, read when the snapshot is opened. *)

Unread == stage = "outside" /\ session.inventory = "unread"

ScanIncomplete == Unread /\ \E reason \in OperationStops : OpenWithout(reason)

\* A database the scan found no file table page in has no files, and that is all of it.
NoFileTables ==
    /\ Unread
    /\ session' = [session EXCEPT !.inventory = "empty"]
    /\ UNCHANGED <<stage, unread, found>>

\* Every file table page is looked at; those that cannot be decoded or are no header are
\* passed over.  A second tracker ends the inventory with a fact about its page.
FindTracker(trackers) ==
    /\ Unread
    /\ CASE trackers = {} -> OpenWithout("structural")
         [] Cardinality(trackers) = 1 -> /\ stage' = "tracker" /\ unread' = trackers
                                         /\ UNCHANGED <<found, session>>
         [] OTHER -> /\ session' = [session EXCEPT !.inventory = "unlisted",
                                                   !.rejected = {Max(trackers)}]
                     /\ ReadIsOver

\* The tracker lists every other file once, and each header is that of the file and kind listed.
ReadTracker ==
    /\ stage = "tracker"
    /\ \/ \E reason \in OperationStops \cup {"structural"} : OpenWithout(reason)
       \/ \E first \in DbPages : \E chain \in Chains(first), items \in FewOf(DbPages) :
            LET r == Walked(Reading(first), chain) IN
            IF r.stop \in OperationStops THEN OpenWithout(r.stop)
            ELSE IF r.stop # "none" \/ items \cap unread # {} \/ ~(items \subseteq FileTables)
            THEN OpenWithout("structural")
            ELSE /\ stage' = "files" /\ unread' = unread \cup items
                 /\ UNCHANGED <<found, session>>

HeaderFact(w, class) == [tables |-> w.tables, pages |-> w.count, class |-> class]

KeepFile(w) ==
    IF w.stop \in OperationStops THEN OpenWithout(w.stop)
    ELSE IF w.stop # "none" \/ w.pages \cap DOMAIN found.owner # {}
    THEN OpenWithout("structural")
    ELSE /\ \E class \in Classes \cup {NoClass} :
              found' = [header |-> With(found.header, {w.file}, HeaderFact(w, class)),
                        owner |-> With(found.owner, w.pages, w.file),
                        claims |-> found.claims \cup w.claims]
         /\ unread' = unread \ {w.file}
         /\ UNCHANGED <<stage, session>>

\* The files are read in the order of their names.
ReadFile ==
    /\ stage = "files" /\ unread # {}
    /\ \/ \E reason \in OperationStops \cup {"structural"} : OpenWithout(reason)
       \/ \E w \in CollectedFiles[Min(unread)] : KeepFile(w)

ClassesOf(headers) == {headers[f].class : f \in DOMAIN headers} \ {NoClass}
Conflicts(claims) ==
    {s \in SectorIds : Cardinality({c.file : c \in {d \in claims : d.sector = s}}) > 1}

\* Every class is looked up once; a name that cannot be read is recorded as such.
PublishInventory ==
    /\ stage = "files" /\ unread = {}
    /\ \/ OpenWithout("interrupted")
       \/ Cardinality(DOMAIN found.owner) > MaxRetained /\ OpenWithout("resource-limit")
       \/ Cardinality(DOMAIN found.owner) <= MaxRetained /\ InvalidateSnapshot
       \/ /\ Cardinality(DOMAIN found.owner) <= MaxRetained
          /\ \E names \in [ClassesOf(found.header) -> {"resolved", "unresolved"}] :
               session' = [session EXCEPT
                 !.inventory = "complete", !.tracked = DOMAIN found.header,
                 !.header = found.header, !.owner = found.owner, !.claims = found.claims,
                 !.names = names, !.conflicts = Conflicts(found.claims)]
          /\ ReadIsOver

-----------------------------------------------------------------------------
(* enrich_file: one file asked for by name, unless its header is known.  What stops the *)
(* operation publishes nothing; what its bytes break is a fact about its header's page. *)

\* A plausible mistake: the pages are taken from the file that owned them.
PublishTakingOver(w) ==
    /\ session' = [session EXCEPT
         !.header = With(@, {w.file}, HeaderFact(w, NoClass)),
         !.owner = With(@, w.pages, w.file),
         !.claims = {c \in @ : c.file # w.file} \cup w.claims,
         !.inventory = "partial", !.reason = "selective-enrichment"]
    /\ ReadIsOver

PublishFile(w) ==
    IF \E p \in w.pages \cap DOMAIN session.owner : session.owner[p] # w.file
    THEN RejectPage(w.file)
    ELSE /\ session' = [session EXCEPT
              !.header = With(@, {w.file}, HeaderFact(w, NoClass)),
              !.owner = With(@, w.pages, w.file),
              !.claims = {c \in @ : c.file # w.file} \cup w.claims,
              !.inventory = "partial", !.reason = "selective-enrichment"]
         /\ ReadIsOver

FileRead(w) ==
    IF w.stop \in OperationStops THEN UNCHANGED inventoryVars
    ELSE IF w.stop # "none" THEN RejectPage(w.file) ELSE PublishFile(w)

EnrichFile(file) ==
    /\ stage = "outside" /\ session.inventory \notin {"unread", "empty"} /\ session.valid
    /\ file \in FileTables \ DOMAIN session.header
    /\ InvalidateSnapshot \/ RejectPage(file) \/ \E w \in CollectedFiles[file] : FileRead(w)

InventoryNext ==
    \/ ScanIncomplete
    \/ NoFileTables
    \/ \E trackers \in SUBSET FileTables : FindTracker(trackers)
    \/ ReadTracker
    \/ ReadFile
    \/ PublishInventory
    \/ \E file \in DbPages : EnrichFile(file)

InventorySpec == InventoryInit /\ [][InventoryNext]_inventoryVars

-----------------------------------------------------------------------------
(* Properties *)

OwnedBy(file) == {p \in DOMAIN session.owner : session.owner[p] = file}
ClaimedBits(c) == IF c.full THEN PagesOf(c.sector) ELSE {c.sector * SectorPages + b : b \in c.bits}

\* Tables, ownership and claims tell the same story.  The pages a file's tables are on are that
\* file's and no other's, and it has as many pages as its header says: no two files were read
\* from the same bytes.  A file owns exactly the pages its claims name, whoever else claims
\* their sectors, so a sector claimed whole is nobody else's.  An inventory called complete has
\* every tracked file and every class in it (collect_file_allocations, publish_file).
OwnershipIsWhatIsClaimed ==
    /\ \A f \in DOMAIN session.header :
         /\ session.header[f].tables \subseteq OwnedBy(f)
         /\ Cardinality(OwnedBy(f)) = session.header[f].pages
         /\ OwnedBy(f) = UNION {ClaimedBits(c) : c \in {d \in session.claims : d.file = f}}
    /\ {session.owner[p] : p \in DOMAIN session.owner} \subseteq DOMAIN session.header
    /\ session.inventory = "complete" =>
         /\ session.tracked = DOMAIN session.header
         /\ DOMAIN session.names = ClassesOf(session.header)
         /\ session.conflicts = Conflicts(session.claims)
===============================================================================
