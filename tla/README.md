# A verification of volmap

volmap reads the volumes of a CUBRID database without the database server and shows what
is in them: on the command line, in a terminal viewer, and to browsers over HTTP. `volmap
serve` follows a database that is in use. It re-reads the input when the files change,
serves the last complete reading meanwhile, deep-reads single pages on request, and can
show what a running server says about its page buffer.

Paths below are relative to the repository; `follow.rs` stands for `src/follow.rs`, and so on.

- [The system](#the-system): its parts, state, interactions and hard behaviours
- [Modules](#modules): what models what
- [Runs](#runs): what is checked, bounds, fairness
- [Disagreements](#disagreements): where the code and its words differ
- [Proofs](#proofs): theorems and inductive invariants
- [Limits](#limits): what is only checked, and what is not modelled
- [Plan](#plan): what comes next

## The system

### Parts

| part | state it keeps | operations | talks to |
|---|---|---|---|
| **Store** (`follow.rs`, `LiveSource`) | retained generations (each: latest view, manifest), the current number, the pending-change flag, a tokio watch channel | `new`, `publish`, `publish_revision`, `note_change_pending`, `subscribe`, `current`, `retained` | called by the follower and by every handler, under one `RwLock` |
| **Follower** (`follow.rs`, `follow`) | the pending change, when the last re-read ended and what it cost | one loop: tick, read the manifest, compare, brake, scan, publish | the input (in blocking tasks); the store |
| **Input** (`source.rs`) | none in memory: `_vinf`, volume files, their stamps | `fingerprint`, `discover`, `verify_unchanged`, `read_page` | other programs write it at any time |
| **Inspection** (`inspection.rs`) | an immutable `GraphView` per revision: the packed page facts of the scan, the file inventory, the deep reads' facts | `open_*` (fast scan, file inventory), `enrich_page`, `enrich_file`, `enrich_overflow`, `enrich_oos`, `enrich_relocation`, `enrich_class_name`, `enrich_class_representation`, `enrich_record_page`, `enrich_record_selection`, queries | the input; the format decoders |
| **Web** (`web.rs`) | the enrichment mutex, four admission semaphores, the cursor key | `watch`, `enrich`, collections with cursors, entity queries, runtime capabilities and observations | the store; the broker |
| **Observation broker** (`web/observations/session.rs`) | latest capture, connection, incarnation, sequence, refusal, number of callers | `capability`, `observe`, `refresh`, expiry timer | the producer's socket through the wire decoder (`wire.rs`, `socket.rs`), the budget (`memory.rs`) |
| **Browser** (`web/src`) | a reducer's state: route, view, snapshot, poll in progress, paused or not, observation panel and its epoch; the effects' aborted or running requests | actions and the effects they ask for | the web handlers |
| **Decoders** (`format/`, `bytes.rs`, `tde.rs`) | none | page bytes to facts | inspection |
| **Terminal viewer** (`tui/focused.rs`, `tui/focused/terminal.rs`) | focus, mode, scrolling, the one deep read asked for; the terminal's modes, the committed frame, the worker thread | keys, clicks, resizes, completions | inspection; the terminal |
| **Command line, projections, exports** | none | one shot | everything |

### How they interact

A *generation* is one complete reading of the input, and a *revision* one deep read more of
it. The follower makes generations and the `enrich` handler revisions; the store orders both
and is the only state they share. The follower never takes the enrichment mutex, and the
handlers never wait for the follower: a client that waits does so on the watch channel. A
view is immutable once built, so what can go wrong lies between the steps: which view a
handler works on, what has been published or evicted when it is done, and what the files
held when they were read.

### What is hard, and what makes each part correct

- **Store.** Exactly the newest `retain` generations stay addressable. A superseded reading
  says so until its manifest is back in place. A late result lands on its own generation or
  nowhere.
- **Follower.** The input changes while the manifest is read, while a scan runs, and back
  again. Failing scans leave the last good reading on display. A change must be noticed, must
  settle, must not be put off for ever by writes that never stop, and re-reading must leave
  half of the time idle. A panic in a blocking task ends the loop.
- **Long poll.** Publishing and notifying are two steps, and so are subscribing and comparing.
- **Deep reads.** The stamps are checked before and after the read. The base may be replaced
  and evicted in between. Two deep reads at once would number their results alike.
- **Loads.** A load spans requests between which generations and revisions are published.
- **Broker.** Callers share a refresh and leave at any time. Scans are 500 ms apart, evidence
  is 30 s old at most, a producer that restarts is not accepted silently, and a sequence
  number is never seen twice. Memory is budgeted.
- **Browser.** Answers arrive late, out of order or never. The generation, epoch and scope an
  answer was asked for must still be the ones on display; paused means paused; one poll, and
  one observation, is always on its way; evidence ages while it travels and while the machine
  sleeps.
- **Scan.** Worker threads read pages in waves; facts of all volumes share one memory budget and
  one spill file with the diagnostics; a user may cancel, a page may not be readable.
- **File inventory.** Tables come from a database that may be damaged: two files may claim one
  page or one sector, tables may be cyclic, too long, or disagree with their header. Files can be
  read again one at a time, in any order, beside what the inventory kept.
- **Chains.** Overflow and OOS chains, relocations and heap chains are followed through pages that
  may form a cycle, belong to another record, or be shorter than they claim, under limits on pages
  held, bytes decoded and steps taken, beside cancellation and a changing input.
- **Records.** A record that was moved is interpreted from the page it left and from the page it is on,
  in any order, under a class known by its sector and representations read on the way. Requests have
  several parts, each of which may fail, be cancelled or meet a changed input.
- **Terminal viewer.** One worker, one channel, and a loop that prefers input to completions: a page
  can be left, reopened and left again before its read is back. Whatever happens the terminal's modes
  must be restored, and a click means what the frame on the screen shows.

`PROJECT.json` lists these as hazards, each at its line, with the properties that cover it.

## Modules

    LiveSource        the store: variables and operations
      └ LiveFollow    the follower and the input's writers, on top of the store
          └ LiveWeb   long polls, deep reads and loads, beside the follower
              └ LiveWebProofs
    LiveSession       what all of it promises its readers (abstract)
    FollowTiming      the follower's brakes on a clock
      └ ClockProofs
    ObservationWire     the decoder of the producer's frames
      └ ObservationBroker   the session, its callers, connection, scans and budget
          └ BrokerProofs
    ObservationPromise  what the broker's evidence is (abstract)
    BrowserFollow       the browser's inspection state, its effects and polls
    BrowserObservation  the browser's observation panel
      └ BrowserProofs     about both
    FastScan            the scan that opens a snapshot
      └ ScanProofs
    FileInventory       the tracker, the files' tables, ownership
    ChainReads          deep reads that follow links
    RecordReads         classes, representations, the interpretation of records
      └ DiskProofs          about FileInventory, ChainReads and RecordReads
    NaturalSets         what ScanProofs and DiskProofs count with
    TerminalSession     the terminal viewer's semantic session
      └ TerminalHost    the terminal, the event loop and the worker around it
          └ TerminalProofs
    MCLiveFollow, MCLiveWeb, MCLiveLoad, MCObservation, MCTerminal, MCRecords,
    MCComponents        constants, symmetry and unions for TLC

**LiveSource** has the store's four fields as variables. `Publish` is `LiveSource::publish`
up to the end of its lock, eviction loop included, and `SendGeneration` the `notify.send`
after it. `PublishRevision` accepts what `publish_revision` accepts. `Standing` is
`standing`. A view is reduced to what the properties tell apart: the manifest it was read
under, its verdict, its revision, one fact slot per deep-read target, and under which stamp
each fact and the file inventory were read. A fact's stamp and the inventory's are not in the
program; they are what the file held at the moment of the read, and decide no step.
`tokio::sync::watch` is modelled as it behaves: `send` without receivers fails and stores
nothing, `subscribe` returns a receiver that has seen the stored value.

**LiveFollow** adds the input and the loop. The manifest is a stamp that every write moves
and the membership of the volume set, which can come and go without touching the stamps;
`verify_unchanged` compares only stamps, a poll compares both. One iteration is `PollRead`,
then one of `PollUnchanged`, `PollDefer`, `PollRescan`; a re-read is `PollRescan` (discover
and open), `ScanVerified` (the last look at the stamps), `ScanInventoried` (the file tables,
read after it), `PublishScan`, `NotifyWatchers`. `ScanFailed` and `FollowerDies` leave from
the points where the code does. What an iteration read goes out of scope when it ends.

**LiveWeb** has one record per client with a program counter. `watch` is `WatchOpen`
(subscribe), `WatchDecide` (compare with the channel), `WatchWoken`/`WatchTimedOut`,
`WatchAnswer`, and `WatchDropped` for a client that goes away. `enrich` is `EnrichAdmit`
(mutex and view), `EnrichCheck`, `EnrichDecoded` or `EnrichViolation`, `EnrichRecheck`,
`EnrichRelocation` for a slot that is a relocation, `EnrichPublish`, `EnrichAnswer`, with
`EnrichRefused` for every error answer. `collection_start` and `collection_response` are
`LoadStart`, `LoadContinue` and `LoadEvicted`. A step ends where the handler awaits, lets go
of the store's lock, or touches the input.

**LiveSession** is the abstract specification: generations are numbered without gaps, exactly
the newest `Window` are readable, each begins with nothing enriched and only gains facts.
LiveWeb implements it with `latest <- current`, `facts <- ` the enriched targets of each
retained generation, `outdated <- change_pending` (`KeepsThePromise`).

**FollowTiming** has the loop again with a clock and without a store: a tick may be `Lag`
late, reading the manifest may take `Lag`, a re-read up to `MaxScan`, and missed ticks are
delayed as `MissedTickBehavior::Delay` does. `ShouldRescan` is `should_rescan`.

**ObservationWire** is `wire.rs`: `Accept` takes a decoder and a frame to a decoder and an error.
Headers, pages and footers of this incarnation and sequence and of others come in any order; a
frame's grammar is one bit. `AcceptHeader` refuses a sequence at or below the floor.

**ObservationBroker** is `session.rs` with the permits and the deadline of `web.rs` and the budget of
`memory.rs`. The session's lock is held over the awaits of a refresh, so callers queue: `Request`
takes a permit, `Acquire` the lock (bind the identity, expire, lift a refusal, share or begin a
refresh), `FloorPassed`, `HandshakeEnds`, `Receive` (one frame), `ScanTimesOut` are the refresh, `Cancel`
its cancellation by the last caller, `Answer`, `Leave` (deadline or hang-up) and `BodyDropped` the ends of
a request. A connection whose socket path can no longer be verified, or that has bytes nobody asked for
(`Unusable`), fails a refresh and a capability read. `Metadata` is the capability read, `ExpiryTimer` the timer. `DiskChanges`, `ProducerRestarts`
and `ClockJumps` are the environment. State keeps ages instead of instants; `Tick` passes only when
no timer is due. `consumed`, `sinceScan` and `retried` are history: they decide nothing.

**ObservationPromise** is what a reader may rely on: sequence numbers of an incarnation are consumed
in order, only the last consumed one is published, evidence only ages until it is dropped or
replaced, and what replaces it is of no earlier incarnation. The broker implements it
(`KeepsObservationPromise`), with `used` mapped to the history of consumed sequence numbers.

**BrowserFollow** is the reducer of `model.ts` (one operator per action), the queue of effects it
leaves, the request that flies in each group of `createRequestSignals` (a new one aborts the one
before), the delays of `runtime.ts` and the browser's history. The server is a generation that grows
and a retention window; a request is answered with any generation current while it flew.

**BrowserObservation** is `observations.ts`: epochs, asking, answering, ageing, stopping and resuming.
An epoch is what it tells apart: answers and delays of an earlier one change nothing, so they are
forgotten when one begins. `Depart`, `Viewport`, `Reload`, `FirstLoad`, `SectorLoaded` are what
BrowserFollow's actions mean to it. What a route gives to ask for is its ground: pages, nothing (no
page in view, or a sector that is not loaded), or the root, which has no panel. A refresh with nothing
to ask for schedules a delay in the epoch that already has one, and runtime.ts never takes a delay
back, so every such refresh leaves one more, each of which schedules itself again until an epoch
begins; `due` counts them. They cost nothing else: the first that finds pages begins the epoch in which
the rest are void. No document speaks of it, so it is described and not claimed as a fault. An
answer's age is the broker's plus the round trip, and time may jump.

**FastScan** is `Inspection::open_profiled_with_mode` up to the inventory: `OpenSnapshot`, `ReadGeometry`
(one volume), `BeginEnvelopes`, `StartWave` (cut to the budget), `ReadEnvelope` (one worker's next page),
`EndWave` (results in order, admission of facts and diagnostics, spilling), `Reconcile` (the last look
at the stamps). Budgets are counted in page facts. Page types and seals are those of
`format/page.rs`, for both format profiles.

**FileInventory** is `bootstrap_file_inventory` and `enrich_file`: `FindTracker`, `ReadTracker`, `ReadFile`,
`PublishInventory`, and `EnrichFile` afterwards. A file's tables are a walk whose outcomes,
`CollectedFiles[file]`, are all those the code can produce from tables that list anything.

**ChainReads** is a read page by page: `OverflowStep`, `OosStep`, `TargetStep`, `SpecialStep`, each
choosing what the next page holds by the first thing that is wrong with it (`HomeLooks`,
`OverflowLooks`, ...), with the checks in the code's order. `EnrichFromHome`, `ReadClassName`, `EnrichOos`,
`ReadSpecialRecord` begin one. It is of a session that does not follow its input.

**RecordReads** has one operator per method, from a graph to the next or to a failure: `ReadPage`,
`ReadRelocation`, `ReadRecords`, `ReadClass`, with `ClassOf` (the cache by sector), `ClassRecord` (the bounded
walk), `Interpret` and `PublishInterpretation` under them. A request is the list of its parts
(`SelectRecord`, `AskRecordPage`, `AskClass`, and `InspectSlot` of `cli.rs`); `RunPart` does the next on what
the last has made, and only what the last part made becomes the session's. What pages hold is given, as
scanned and as rewritten; a part sees the input at the stamps' comparison, at the class, and from then on.

**TerminalSession** is `focused.rs` as operators from a session and a layout to a session, one per
`FocusedAction`, with the completion's adoption and refusal. **TerminalHost** is `terminal.rs`:
`EnterTerminal`, `StartLoop`, `Key`, `Pointer`, `Resize` and the event kept by a resize, `JobEnds` (the
thread), `Idle` (25 ms without input: the completion is looked at), `HostFails`, `Shutdown`. A frame is
what it was drawn from and what a pointer can hit on it.

**MCComponents** puts the parts that share no state side by side; which one a behaviour is about is
chosen at its start. **MCLiveLoad** likewise chooses between a session that follows its input and one
that does not.

Operators named as mistakes (`PublishCarryingOver`, `EnrichAdmitUnlocked`, ...) stand before the
definition they would replace; a property is worth its run only if such a mistake breaks it.

## Runs

| run | module, cfg | properties | bounds |
|---|---|---|---|
| `live_follow` | MCLiveFollow | `RetentionIsTheNewest`, `PendingIsShared`, `MixedIsBehindTheInput`, `SupersededStandingHasACause`, `EventuallyCurrent`, `OutdatedIsNoticed` | 5 changes, window of 2, panics |
| `live_watch` | MCLiveWeb, LiveWatch | `NoMissedPublication`, `WatchersCatchUp` | 2 watchers, 2 changes, `retain` 0, panics |
| `live_deep_read` | MCLiveWeb, LiveDeepRead | `TypeOK`, `EnrichmentStaysOnItsGeneration`, `NoDeepReadIsLost`, `KeepsThePromise` | 2 enrichers, a page and an edge, 2 changes, 3 revisions |
| `live_load` | MCLiveLoad, LiveLoad | `LoadsAreOfOneReading`, `ImmutableFactsAreOfTheSnapshot` | 1 enricher, 1 loader, 2 targets, one item a page, 2 changes; following, and not |
| `observation` | MCObservation, Observation | `ReservationsAlwaysFit`, `AnswersAreFresh`, `AnswerMeetsDemand`, `ScansAreApart`, `RestartNeedsRetry`, `KeepsObservationPromise` | 2 callers, 2 incarnations, 2 sequence numbers, one page per scan |
| `components` | MCComponents, Components | twenty, by part below | by part below |
| `late_watch`, `load_across_deep_read`, `immutable_violation`, `inventory_violation`, `busy_worker`, `failed_poll` | | one each, violated | see below |

The parts of `components` (1.3 million states in all):

| part | properties | bounds |
|---|---|---|
| follower's clock | `StalenessCeiling`, `QuietInputIsReread`, `SettledBeforeTheCeiling`, `HalfTheTimeIsIdle` | clock to 10, 2 events, quiet period 2, ceiling 3, scans up to 2 |
| terminal viewer | `PageOnDisplay`, `ScreenShowsTheSession`, `MovedFocusIsVisible`, `TerminalIsRestored` | volumes of 2 and 1 sectors, 4 pages a sector, one slotted and one broken, 3 rows, 2 layouts, every operation may fail |
| browser, inspection | `ViewIsOfItsRoute`, `PollIsSingle`, `PausedGenerationStays` | 2 generations of which 1 is retained, 3 loads |
| browser, observations | `OneObservationAtATime`, `EvidenceIsAgedHonestly`, `ReturnsToNewEvidence` | expiry at age 2, 2 captures, 2 delays at once |
| chains | `ChainsAreWhole`, `ReadsStayWithinPolicy` | 3 pages to link, payloads to 3 units, three policies |
| file inventory | `OwnershipIsWhatIsClaimed` | 2 sectors of 2 pages, 3 table pages, 2 items a table, 1 class |
| scan | `FactsReadBack`, `ScanStaysInBudget` | 2 volumes, sectors of 2 pages, 2 workers, three policies, `develop` profile |
| records | `RecordsKeepTheirGrounds` | 5 pages of 2 sectors, 2 classes, 2 versions of the input, 3 requests, limits of 1 and 3 pages; following, and not |

What the bounds are for:

- *Changes* (`MaxEdits`). Each change earns one publication at most, and two publications on a
  window of two evict a generation, so two changes suffice to evict the base of a request in
  progress. `live_follow` has five, so that one can fall in each part of a re-read and the
  volume set can change and change back. Every change may be a write or a change of the set.
- *Revisions* (`MaxRevision`). Three is a page, the edge it leads to, and a violation on top,
  beginning at revision 0 like `InspectionRevision`. `live_load` has two, one for each of the
  chains its listing can gain.
- *Clients*. Two of the kind a run is about; requests of the same kind meet only at the
  mutex or at the channel.
- *Time*. FollowTiming's configuration has the proportions that matter (a quiet period above
  the interval, a ceiling above the quiet period, a re-read longer than the idle minimum), and
  its clock runs past the ceiling plus a re-read plus the load brake.
- *Observation*. A tick is half a second for the short limits (floor and handshake 1, scan 1, deadline 2)
  and the long ones are pulled together (27 and 30 seconds become 2 and 3): a request can outlive its
  deadline, and evidence expire, during a refresh. Two sequence numbers and two incarnations are
  enough for a scan that was cancelled, one that repeats its number, and a restart. Charges are
  the code's in MiB (8 fixed, 16 a decoder, 32 a capture, 2 a response); the ceiling of 92 is a session
  with both its captures, one decoder and two responses, and no room besides, where the code's 128
  has 24 to spare for eight responses.
- *Terminal*. Two volumes and a volume of two sectors are the smallest in which every kind of move
  has somewhere to go; the layouts fit two sectors or one, and one or two rows of three, so focus can
  leave the screen in both directions.
- *Browser*. The server can evict the generation a load is of while it is under way. A third load
  starts while an answer of the first is late.
- *Chains*. Three pages can form a cycle, a chain that ends early, and one that goes on too long; the
  policies stop a read by pages held, by bytes decoded, by steps, or not at all.
- *Inventory*. Three table pages: a tracker and two files, of which one can claim the other's table,
  page or sector.
- *Records*. Three requests: two that interpret the ends of a relocation one by one, in either order, and
  the selection that validates it. The pages hold a record moved within its heap, one said to have moved
  to another heap, one whose layout is wrong, a class record that was moved and one that cannot be
  read; one sector is sound, the other has
  pages of two heaps. A limit of one page stops
  at the decrypted page, one of three is just enough for a relocation.
- *Scan*. The policies leave no room for the base, room for some facts with the rest in the spill file
  or nowhere, and room for all. A batch of one page and two workers make waves of two, and
  volumes of one to three sectors end inside and at the end of a wave.

Deadlock checking is off where the system does stop: `MCLiveFollow.cfg`, since a dead follower and an
input that has had its changes have nothing left to do; `Components.cfg`, since the clock, the
captures, the publications and the loads are bounded, a scan ends and a terminal session closes; and
the two violation runs on those parts. Everywhere else the follower polls, or clients ask, for ever.

**Fairness.** `LiveFollow` is weakly fair in the loop's own steps: the ticker ticks and
blocking tasks return. It is strongly fair in `PollRescan`: a poll may defer a change, but the
ceiling ends the deferring, which is what `StalenessCeiling` checks in `FollowTiming`. It is
strongly fair in `ScanVerified` and `ScanInventoried`: a scan may fail, and keeps failing only
if the input stays unreadable, about which nothing can be promised. A panic is never fair:
nothing makes it happen, and the properties of the follower allow for it, while `live_watch`
demands that polls are answered even then. Watchers ask again after an answer; their answer is fair
(the window closes after `WATCH_TIMEOUT`), and a client that keeps polling does not hang up
on every one of its polls, hence strong fairness of an ending over `WatchDropped`. Deep reads
and loads are never assumed to happen.

Fairness is stated in LiveFollow and LiveWeb only. The other parts are checked for safety: what they
promise to do eventually depends on users, servers and threads of which the code assumes nothing.

What the runs show, in short: within these bounds the display always catches up with an input
that comes to rest, untorn and labelled valid; readers are told of a change until it is
serviced; no wakeup is lost between publication and poll; deep reads neither cross
generations nor vanish; a load is of one generation; what an immutable session decodes as
valid is of its snapshot; and re-reading keeps both its ceiling and its share of the time. No answer
of the broker holds expired evidence or less than was asked for, scans keep their distance whoever
cancels them, a restarted producer is accepted only when that was asked for, and the memory budget
never refuses what the permits admit. The browser ends a load with a view of its route and
generation, polls once, stays paused, and never shows evidence younger than it is. The terminal
shows the page in focus, and is restored. A chain called complete is one; files own what they claim
and no byte is read as two files'; what is said of a record is kept with its grounds; a page's fact is read back wherever the scan put it.

## Disagreements

Six runs state what the repository says of the program and find it violated by what the
code does.

- **`late_watch`.** `watch` promises to hold a poll "until the current generation differs from
  the caller's" and to return "the moment a re-read is published" (web.rs:703-706). It compares
  with the channel, and a publication without receivers leaves the channel behind
  (follow.rs:268-270), as no receiver is kept (follow.rs:158). A caller that still has the
  channel's old generation sleeps until the window closes. It learns of the new generation
  then: `WatchersCatchUp` holds. The converse happens too: a caller that is up to date while
  the channel is behind is answered "no change" at once, again and again, until the next
  publication that finds a receiver.
- **`load_across_deep_read`.** A load is never to get "a silent seam" (web.rs:976-982). The
  cursor names a generation, not a revision, and a deep read between two requests shifts the
  listing. Undisturbed loads are whole (`UndisturbedLoadIsWhole`).
- **`immutable_violation`.** An invalidated snapshot "cannot accept further inspection
  enrichment" (CONTEXT.md:28). What decodes is checked again before it is published
  (`ImmutableFactsAreOfTheSnapshot`); a violation is not.
- **`inventory_violation`.** A generation whose manifest "changed during its own scan" is torn
  (CONTEXT.md:243-244). The last check precedes the reading of the file inventory. The
  consequence is bounded: such a generation is behind the input, so it is replaced
  (`MixedIsBehindTheInput`, `EventuallyCurrent`); until then it carries the label of a valid one.

- **`busy_worker`.** Input comes before a ready completion, and a read cancelled by leaving its page is
  only never adopted (test focused.rs:6560). The worker stays occupied until the loop was idle for 25 ms
  and drained it (terminal.rs:480, 36); asking for another page before that is refused, and the refusal
  ends the session. Pressing the key of the next sector while a page is loading is enough.
- **`failed_poll`.** "A failed generation watch backs off through a timer effect before retrying"
  (model.test.ts:333). When a route was loaded from a newer generation while the poll was out, its
  retry carries the older number and is refused (model.ts:532); the viewer goes on saying that it
  follows and asks no more until another route is loaded.

Smaller ones met on the way, without a run: a discarded deep read is explained as overtaken by
a re-read (web.rs:1341-1342), but a repeated one is discarded too; the answer is said to
report "the reading the result actually landed in" (web.rs:1417-1418), but a result accepted
by an older retained generation is answered with the current one; a slot that is not
there is answered with 404 before an invalidation found on the way is published
(web.rs:1398-1410 against inspection.rs:6045-6048); "all other repeated enrichments are
idempotent" (inspection.rs:5957-5958), but a repeated violation makes a new revision, repeats
its diagnostic, and may replace what an earlier reading validated.

In the interpretation of records: "only a validated edge may identify the target that carries the values"
(inspection.rs:4848-4849), and so it is in the selection and in `slot_interpretation`, but the command that inspects a
slot follows any edge, and a refused one keeps its target (cli.rs:681-684): a relocation into another heap is
reported as invalid and shown with that heap's record as its interpretation (`GoesOn`, "named" against "target");
"a later successful
pass supersedes an earlier reason" (inspection.rs:5204), but a pass that finds all of a page's records
published returns before that; for the same reason a record interpreted on its own page before its
relocation was validated is not attributed to it any more; and each repetition of a pass that fails
makes a revision and a diagnostic, and of a pass over a page without records a revision. What is cached of a
sector's class is right while "a heap sector belongs to exactly one file" (inspection.rs:4539-4541); in a damaged database with two heaps in
one sector a record is attributed to whichever class of the sector was noted last, and a later request
may attribute it anew.

In the browser: the history entry of a click is lost when a new generation, Resume or a refused cursor
reloads the route before the click's own load is back (`reloadCurrentRoute` asks for history "none");
pausing between a deep read's answer and the load that follows it leaves the header's snapshot newer
than the view until Resume; a batch answered while paused leaves `sectorRequestCursor` set, so that no
further batch is asked for; a capability read aborted by the first change of generation is reported as
unavailable and not repeated unless the panel is switched off and on. In deep reads: an overflow walk
compares the stamps however it ended, a failing relocation or OOS walk publishes without comparing;
a walk that was cancelled or hit a limit is recorded as the chain's fact and not walked again; which
file owns the pages of an OOS chain is not checked. In the file inventory: `enrich_file` turns complete
coverage into partial, reports no new sector conflicts, and replaces a header's fact when reading it
again fails; a second tracker, or an input that changed before the inventory was published, leaves
no coverage record of the inventory at all.

## Proofs

A theorem holds for every value of the constants that satisfies the named `ASSUME`s of its
module, all of which TLC evaluates in the runs: any `retain`, numbers of clients, requests, callers
and permits, durations, volumes and surfaces, and any bound on changes and time. The
specification is that of the component (`Spec`; `ObserverSpec` and `BrowserSpec`, `HostSpec`,
`ChainSpec`, `InventorySpec`, `RecordsSpec` and `ScanSpec`).

| theorem | module | says |
|---|---|---|
| `TypeCorrect` | LiveWebProofs | `[]TypeOK` |
| `RetentionIsCorrect` | LiveWebProofs | `[]RetentionIsTheNewest` |
| `PendingIsAlwaysShared` | LiveWebProofs | `[]PendingIsShared` |
| `NoPublicationIsMissed` | LiveWebProofs | `[]NoMissedPublication` |
| `DeepReadsAreNotLost` | LiveWebProofs | `[]NoDeepReadIsLost` |
| `EnrichmentStays` | LiveWebProofs | `[]EnrichmentStaysOnItsGeneration` |
| `MixedIsLeftBehind` | LiveWebProofs | `[]MixedIsBehindTheInput` |
| `SessionKeepsThePromise` | LiveWebProofs | `KeepsThePromise` (LiveWeb implements LiveSession) |
| `LoadsReadOneReading` | LiveWebProofs | `[]LoadsAreOfOneReading` |
| `SnapshotIsOneReading` | LiveWebProofs | `[]ImmutableFactsAreOfTheSnapshot` |
| `SupersededStays` | LiveWebProofs | `SupersededStandingHasACause` |
| `SettledBeforeCeiling` | ClockProofs | `SettledBeforeTheCeiling` |
| `IdleHalfTheTime` | ClockProofs | `HalfTheTimeIsIdle` |
| `StalenessIsBounded` | ClockProofs | `[]StalenessCeiling` |
| `QuietIsReread` | ClockProofs | `[]QuietInputIsReread` |
| `ScansKeepTheFloor` | BrokerProofs | `ScansAreApart` |
| `RestartsAreAccepted` | BrokerProofs | `RestartNeedsRetry` |
| `PromiseIsKept` | BrokerProofs | `KeepsObservationPromise` (the broker implements ObservationPromise) |
| `ExpiredEvidenceIsNotServed` | BrokerProofs | `AnswersAreFresh` |
| `DemandsAreMet` | BrokerProofs | `AnswerMeetsDemand` |
| `ReservationsFit` | BrokerProofs | `[]ReservationsAlwaysFit` |
| `ObservesOneAtATime` | BrowserProofs | `[]OneObservationAtATime` |
| `AgeIsHonest` | BrowserProofs | `EvidenceIsAgedHonestly` |
| `ReturnsAreToNewEvidence` | BrowserProofs | `ReturnsToNewEvidence` |
| `ViewFollowsItsRoute` | BrowserProofs | `[]ViewIsOfItsRoute` |
| `PollsOneAtATime` | BrowserProofs | `[]PollIsSingle` |
| `PausedStays` | BrowserProofs | `PausedGenerationStays` |
| `TerminalComesBack` | TerminalProofs | `[]TerminalIsRestored` |
| `PageIsTheOneInFocus` | TerminalProofs | `[]PageOnDisplay` |
| `FrameIsTheSessions` | TerminalProofs | `[]ScreenShowsTheSession` |
| `SelectionIsOnTheScreen` | TerminalProofs | `MovedFocusIsVisible` |
| `CompleteChainsAreWhole` | DiskProofs | `[]ChainsAreWhole` |
| `ReadsAreBounded` | DiskProofs | `[]ReadsStayWithinPolicy` |
| `OwnershipIsClaimed` | DiskProofs | `[]OwnershipIsWhatIsClaimed` |
| `RecordGroundsAreKept` | DiskProofs | `RecordsKeepTheirGrounds` |
| `ScanReadsBack` | ScanProofs | `[]FactsReadBack` |
| `ScanKeepsItsBudget` | ScanProofs | `[]ScanStaysInBudget` |

### The live session

- *Types and retention are proved together* (`WebInv == TypeOK /\ StoreInv`). That the
  current generation is retained, a conjunct of the type invariant, is not inductive alone: the
  eviction keeps it only because the window was full or still filling. `EvictionKeepsTheNewest`
  is the counting lemma: of a window `{n : n + W > c}` and `c + 1`, those with fewer than `W`
  above them are the next window.
- *Long polls* (`WatchInv`). `NoMissedPublication` speaks of a poll asleep; the invariant
  follows it from the moment it opens. It needs the channel's own law (what is unseen is the
  current generation, unless a send is due; only receivers can have unseen values) and, for a
  poll before its comparison, that it either subscribed on the generation now current or has
  the newer one unseen.
- *Deep reads* (`DeepReadInv`). A request holds the mutex from admission to answer, so its base,
  while retained, is the very view it started from until it publishes itself, and the view in
  hand `Extends` it: same scan, no fact forgotten, and either a newer revision or nothing new. From
  that a discarded result is one its base has already, and a generation only ever holds
  views of its own scan.
- *Mixed readings* (`ScanInv`). Stamps only grow. A verdict of torn, or an inventory read under
  another stamp, needs a write after the manifest was read, so the manifest is already behind.
- *The refinement.* A publication is an `Advance`: eviction equals the window's step. An
  accepted deep read is a `Learn`; a change noticed or withdrawn a `Relabel`; the rest stutters.
- *Loads* (`LoadsInv`). All pages of a load are of its generation, and its offset lies within
  that generation's listing, which revisions only lengthen: so a cursor is never refused. If all
  pages so far are of one revision, each item before the offset was shown once and none after it.
- *The immutable session* (`SnapshotInv`). A deep read compares the stamps before and after it
  reads; with stamps that only grow, equality at both ends means nothing was written between,
  which the invariant follows through the handler's steps (`ReadSince`). A session without a follower is
  one that does not follow (`HasFollower`).
- *Standing* (`StandingInv`). A label leaves a generation only with the flag that changes
  pend, which the follower withdraws after comparing manifests. Nothing invalidates a reading of a session that follows, not even through a view a deep
  read has in hand, and a session that does not follow has one generation and no pending change.

### The follower's clock

`ClockInv` says when each instant the loop holds was taken, and that all re-reads so far took at
most half of the time that has passed. `CeilingInv` follows a change from its write to the poll
that reads it, to the deferrals, to the tick on which the brake must give way. The attempt to
prove `StalenessCeiling` refuted its first bound: when a poll's own `Lag` exceeds the
interval, ticks are delayed by `Lag` instead; `PollGap` takes the larger of the two.

### The broker

`BrokerInv` is of nine parts. A connection put aside is not in the middle of a capture, and is given up by whoever refreshes
(`ConnectionInv`); outside a scan the session knows of every sequence consumed of its incarnation
(`ConsumedInv`), and within one the decoder does (`ScanInv`), which makes the refinement; who waits
for the lock waits once (`QueueInv`); a scan is younger than the request it was begun for
(`DemandInv`); and no more requests are held than there are permits (`PermitInv`). `ReservationsFit` counts with that, under
`BudgetAssumption`: the ceiling is at least a session, one decoder, two captures and a response for
each permit, as the test at the aggregate boundary in `memory.rs` has it. `BrokerAssumption` orders the
limits as the code's are: the handshake is no longer than a scan, a scan is over before evidence
expires, and so is a request.

### The browser

`OneObservationAtATime` lets an epoch have any number of delays while nothing is asked: what it excludes is
a delay beside what is loading, which would set off a second request. `ObserverInv` adds that only a panel in view asks (`AskedInView`), that the age shown, and the one an
answer will be shown with, bound the true one (`AgesAreBounds`), and that a viewer that has returned
asks for a later capture than it returned to (`ReturnsAreCarried`). `BrowserInv` needs three facts about the queue of effects: there is
one poll in queue, timers and flight together (`OnePoll`); loads are queued and started
in the order of their scopes, so the last of a kind, which is all that is started of it, is the newest (`ScopesInOrder`); and a listing
is continued from the generation on display (`ListingIsOfTheView`).

### The terminal

`LeaseInv`: after each step of entering, the modes that cleanup would undo include those that are on.
`HostInv` relates session, frame and worker. `Sound` says what each mode of the session may
show; `JobSound` that a job that is done has read what it was asked and lost nothing that was read
before; `JobIsWanted` that a session that shows something as loading has an uncancelled job of
that request; `ScreenSound` that the committed frame is the one a redraw would make. `PageOnDisplay` is not
inductive without two facts no run checks: a record stays selected while its
interpretation is open, and what the session waits for is a page of the database.
`MovedFocusIsVisible` rests on a lemma on rows: the first row shown is chosen so that the sector's row, its number
divided by the columns, lies within the rows of the grid.

### Chains and files

What a chain carries is a sum over its pages. `CountingUp`, of NaturalSets, is induction over the numbers for a statement
written as a set, which needs no theorem with an operator parameter: a set of numbers has a least one, because
strict inclusion is well-founded on the intervals below them. From it, sums of any length exist, are unique, and
grow by what a page adds (`CarriedGrows`). `ChainInv` says of a read under way that its pages are linked, that
what was validated is what they carry and no more than the chain claims, that only visited pages are among
them, that the next page is the one the last names, and, in an overflow chain, that what was validated and
what remains are the whole. The policy's limits hold because a page is admitted beside the payload held so
far, and because a relocation is not begun without a step for its target.

`InventoryInv` holds of what an inventory under way has collected and of what is published alike (`SameStory`):
every owner has a header, every claim is of a file with one, and a file's tables, owned pages and claims agree.
A file still to be read has no header, hence neither pages nor claims, so that what it adds is disjoint; that is
why reading a file again whose header is known would break it, and why `enrich_file` does not.

### The records

`RecordInv` says the same of the session and of what a request has in hand (`Good`), and that the latter has
all the former has (`Remembers`): every part only adds, and no other request runs in between. A graph is good
when what it says of a record is `Supported` by its representations and validated edges and, unless the input
is followed, is `OfScan`: its representations are described by the scan's class records, its validated edges
lead to records the scan has, and what it says of a record is what the scan says of it under that class. For a
stamp that has moved ends a part before it publishes what it read.

Every pass says anew what it meets, except that a record keeps the relocation that reached it; that it says the
same each time is the lemma the proof turns on. The class cached for a sector is one that a page of the sector
names only until the input is seen to have changed, which is why `OfScan` has the version read last. And it is
no more than that: the stronger "the class of the page" is refuted by a damaged database with two heaps in one
sector, which TLC found. Hence what is said of a record is never taken back where its sector names one class
(`OneClass`), and everywhere its class is one the sector names.

### The scan

FastScan has four recursions, each a function on an initial segment of the numbers: the pages there are to read, the
totals of counts, the results of a wave, the search of a store. `CountingUp` (module NaturalSets) shows that
each exists and what it computes: the eligible pages ascend, depend on the geometry alone and lie within the
volume (`EligibleAscends`); a wave's results are the facts of its first pages, up to the one that ended it, within the
budget they started from (`AllTakenIsSound`); and the search finds the fact of a page in a store whose facts
ascend, or finds none exactly if there is none (`FactsAreFound`), by induction on the width of the range. Packing sixteen
bytes loses nothing of a fact (`PackedReadsBack`), since units, rule and the mark for an LSA keep to their own bits.

`ScanInv` adds what a run cannot see: volumes are read in turn, whole ones before the one under way and untouched
ones behind it; each store has the packed facts of its volume's first pages, in memory or in its own part of the
spill file (`Holds`), and the last store ends where the file does (`LastStoreIsLast`), so a wave writes behind all there is
and no other volume's facts move; and the wave under way has the next pages, as many as the spill file has room for
(`WaveInTurn`). A scan whose base does not fit reads nothing, which is why its `resident` may exceed the policy.

## Limits

Only model-checked: the liveness properties (`EventuallyCurrent`, `OutdatedIsNoticed`,
`WatchersCatchUp`), since the prover does not reason about fairness; and the claims of the violation runs.
What the small clocks of FollowTiming and the broker are too small to show is proved for all
durations. No module declares a recursive operator.

Left out of the modelled parts: the values of a record's attributes; the catalog's directories; what the decoders compute beyond envelopes, links
and lengths; lock poisoning; the cursor's MAC and coding; the other collections (they share the two
functions modelled); the text and the row order of observations; what is drawn beyond what can be
clicked. LiveWeb's deep reads are one step between the two stamp checks; ChainReads has their pages one by
one, in a session that does not follow its input. A revision of a generation that was superseded is left
out, as nothing reads it. A write is assumed to move the stamp: a change that keeps size and modification
time would escape the program and the model alike. BrowserFollow reads a route in one request where
`effects.ts` sends several, so that parts of one view can be of two generations, each named in its answer.

Of two hazards of the broker the properties cover a part only. That a capture is ever made is not
claimed: the code's bounds on the floor, a handshake and a scan (0.5, 0.5 and 2 seconds) together exceed a
request's 2.5, so a slow producer's scan may always be cut short, and no document promises otherwise.
And `accept_incarnation_change` stays set when the refresh a retry was for fails: `RestartNeedsRetry`
counts the retry until evidence is served, whichever refresh succeeds, as the code does.

Hazards in `PROJECT.json` without a property: the slot that is not there (web.rs:1398), the repeated
violation (inspection.rs:5918), of which no document promises otherwise; and the route read by several
requests (effects.ts:76).

Not modelled: see `components` in `PROJECT.json`, each with its reason: static assets, encryption and key
loading, data types, exports, argument parsing, the browser's rendering and decoding, and development
tools have no protocol.

## Plan

In order of what they add:

1. The catalogue's directories (`enrich_catalog`), with their conflicts between files and classes.
2. Browser routes read by several requests, answered by several generations.
3. The projections of collections beyond relationships.
