------------------------------ MODULE FollowTiming -----------------------------
(***************************************************************************)
(* When the follower re-reads (src/follow.rs, should_rescan and the clock  *)
(* readings of follow): the settle brake, the staleness ceiling that       *)
(* overrides it, and the load brake, against an input written at any time. *)
(*                                                                         *)
(* The clock is discrete.  A poll may be up to Lag late, and reading the   *)
(* manifest may take up to Lag; a re-read takes up to MaxScan.  What is    *)
(* read, and who is told, is LiveFollow's subject.                         *)
(***************************************************************************)
EXTENDS Integers

CONSTANTS
  PollInterval, QuietPeriod, MaxDefer, MinIdle,   (* FollowConfig           *)
  Lag,          (* bounds the lateness of a poll and the time of a reading  *)
  MaxScan,      (* bounds the duration of a re-read                         *)
  MaxEvents,    (* bounds how often the input changes or cannot be read     *)
  MaxTime       (* bounds the clock                                         *)

ASSUME FollowConfigAssumption ==
  /\ PollInterval \in Nat \ {0}
  /\ QuietPeriod \in Nat /\ MaxDefer \in Nat /\ MinIdle \in Nat
ASSUME BoundsAssumption ==
  Lag \in Nat /\ MaxScan \in Nat /\ MaxEvents \in Nat /\ MaxTime \in Nat

VARIABLES
  now,          (* the monotonic clock                                      *)
  disk,         (* the input's manifest, as the time of the last write      *)
  behind_since, (* when the display was last left behind by it              *)
  events,       (* how often it has changed or could not be read            *)
  known,        (* the manifest of the generation on display                *)
  pc,           (* waiting for a tick, reading the manifest, or scanning    *)
  tick,         (* the tick of the poll under way, and when the next is due *)
  observed,     (* the manifest the poll under way has read                 *)
  pending,      (* the PendingChange; held is FALSE when there is none      *)
  last_scan,    (* when the last re-read ended and how long it took         *)
  scan,         (* when the re-read under way began, and its manifest       *)
  busy,         (* time spent in re-reads that have ended                   *)
  blind_at      (* when a poll last failed to read the manifest             *)

input_vars == <<disk, behind_since, events>>
scan_vars == <<known, last_scan, scan, busy>>
vars == <<now, disk, behind_since, events, known, pc, tick, observed, pending, last_scan,
          scan, busy, blind_at>>

Later(s, t) == IF s > t THEN s ELSE t

NoChange == [held |-> FALSE, first_at |-> 0, moved_at |-> 0, observed |-> 0]

NoScan == [began |-> 0, manifest |-> 0]

-------------------------------------------------------------------------------
Write ==
  /\ events < MaxEvents
  /\ disk # now
  /\ disk' = now
  /\ behind_since' = IF disk = known THEN now ELSE behind_since
  /\ events' = events + 1
  /\ UNCHANGED <<now, pc, tick, observed, pending, scan_vars, blind_at>>

Pass ==
  /\ now < MaxTime
  /\ pc = "waiting"  => now < tick.due + Lag
  /\ pc = "reading"  => now < tick.at + Lag
  /\ pc = "scanning" => now < scan.began + MaxScan
  /\ now' = now + 1
  /\ UNCHANGED <<input_vars, pc, tick, observed, pending, scan_vars, blind_at>>

-------------------------------------------------------------------------------
(* A change has earned a re-read if it has settled, or has waited long *)
(* enough, and the last re-read is far enough back.                    *)
IdleRequired(last) == Later(MinIdle, last.duration)

ShouldRescan(change, last) ==
  /\ \/ now - change.moved_at >= QuietPeriod
     \/ now - change.first_at >= MaxDefer
  /\ now - last.at >= IdleRequired(last)

(* A late tick delays the following ones (MissedTickBehavior::Delay), and *)
(* one missed during a re-read fires as soon as it ends.                  *)
NextDue == Later(tick.at + PollInterval, now)

PollRead ==
  /\ pc = "waiting"
  /\ now >= tick.due
  /\ pc' = "reading"
  /\ tick' = [tick EXCEPT !.at = now]
  /\ observed' = disk
  /\ UNCHANGED <<now, input_vars, pending, scan_vars, blind_at>>

(* A manifest that cannot be read is no evidence of a change.               *)
PollUnreadable ==
  /\ pc = "reading"
  /\ events < MaxEvents
  /\ events' = events + 1
  /\ pc' = "waiting"
  /\ observed' = 0
  /\ blind_at' = now
  /\ tick' = [at |-> 0, due |-> NextDue]
  /\ UNCHANGED <<now, disk, behind_since, pending, scan_vars>>

PollUnchanged ==
  /\ pc = "reading"
  /\ observed = known
  /\ pending' = NoChange
  /\ observed' = 0
  /\ pc' = "waiting"
  /\ tick' = [at |-> 0, due |-> NextDue]
  /\ UNCHANGED <<now, input_vars, scan_vars, blind_at>>

(* Mistakes Tracked could make: taking a moved change for a new one, taking *)
(* every poll for a new change, not noticing that a change moved.           *)
TrackedRestarting ==
  IF pending.held /\ pending.observed = observed THEN pending
  ELSE [held |-> TRUE, first_at |-> now, moved_at |-> now, observed |-> observed]

TrackedAfresh ==
  [held |-> TRUE, first_at |-> now, moved_at |-> now, observed |-> observed]

TrackedOnce ==
  IF pending.held THEN pending
  ELSE [held |-> TRUE, first_at |-> now, moved_at |-> now, observed |-> observed]

(* When the change was first seen, and when it last moved.                  *)
Tracked ==
  IF ~pending.held
  THEN [held |-> TRUE, first_at |-> now, moved_at |-> now, observed |-> observed]
  ELSE IF pending.observed # observed
       THEN [pending EXCEPT !.moved_at = now, !.observed = observed]
       ELSE pending

PollDefer ==
  /\ pc = "reading"
  /\ observed # known
  /\ ~ShouldRescan(Tracked, last_scan)
  /\ pending' = Tracked
  /\ observed' = 0
  /\ pc' = "waiting"
  /\ tick' = [at |-> 0, due |-> NextDue]
  /\ UNCHANGED <<now, input_vars, scan_vars, blind_at>>

PollRescan ==
  /\ pc = "reading"
  /\ observed # known
  /\ ShouldRescan(Tracked, last_scan)
  /\ pending' = Tracked
  /\ observed' = 0
  /\ pc' = "scanning"
  /\ scan' = [began |-> now, manifest |-> disk]
  /\ UNCHANGED <<now, input_vars, known, tick, last_scan, busy, blind_at>>

(* A mistake the record of a re-read could make: measuring the gap from *)
(* where it began.                                                      *)
LastScanFromItsBeginning == [at |-> scan.began, duration |-> now - scan.began]

LastScan == [at |-> now, duration |-> now - scan.began]

(* A re-read that fails leaves the change pending and the display alone, *)
(* and counts as a re-read for the load brake.                           *)
ScanEnds(succeeded) ==
  /\ pc = "scanning"
  /\ last_scan' = LastScan
  /\ busy' = busy + (now - scan.began)
  /\ known' = IF succeeded THEN scan.manifest ELSE known
  /\ pending' = IF succeeded THEN NoChange ELSE pending
  /\ scan' = NoScan
  /\ pc' = "waiting"
  /\ tick' = [at |-> 0, due |-> NextDue]
  /\ UNCHANGED <<now, input_vars, observed, blind_at>>

-------------------------------------------------------------------------------
Init ==
  /\ now = 0
  /\ disk = 0 /\ known = 0 /\ observed = 0
  /\ behind_since = 0
  /\ events = 0
  /\ pc = "waiting"
  /\ tick = [at |-> 0, due |-> 0]
  /\ pending = NoChange
  /\ last_scan = [at |-> 0, duration |-> 0]
  /\ scan = NoScan
  /\ busy = 0
  /\ blind_at = 0

Next ==
  \/ Write
  \/ Pass
  \/ PollRead
  \/ PollUnreadable
  \/ PollUnchanged
  \/ PollDefer
  \/ PollRescan
  \/ \E succeeded \in BOOLEAN : ScanEnds(succeeded)

Spec == Init /\ [][Next]_vars

-------------------------------------------------------------------------------
(* The longest time from a poll to the end of the next one: it comes an   *)
(* interval later, or at once when this one took longer than an interval. *)
PollGap == Later(PollInterval, Lag) + 2 * Lag

(* The latest of what a re-read could have been waiting for.                *)
HeldBackSince(t) == Later(blind_at, Later(t, last_scan.at))

(* The display is behind only while the ceiling, the load brake or an    *)
(* unreadable manifest holds the re-read back: writes that never stop do *)
(* not put it off (should_rescan, max_defer).                            *)
StalenessCeiling ==
  (disk # known /\ pc # "scanning") =>
    now < HeldBackSince(behind_since) + Later(MaxDefer, IdleRequired(last_scan)) + 2 * PollGap

(* An input left alone is off display only for as long as it takes to *)
(* notice the change and to let it settle.                            *)
QuietInputIsReread ==
  (disk # known /\ pc # "scanning") =>
    now < HeldBackSince(disk) + Later(QuietPeriod, IdleRequired(last_scan)) + 2 * PollGap

(* Before the ceiling, what a re-read sets out to read has been on disk for *)
(* the quiet period, however the polls fell between the writes.             *)
SettledBeforeTheCeiling ==
  [][(pc # "scanning" /\ pc' = "scanning") =>
       \/ now - observed >= QuietPeriod
       \/ now - pending'.first_at >= MaxDefer]_vars

(* A session never spends more than half its time in re-reads, failed ones *)
(* included: whenever one begins, at least as much time has been idle      *)
(* (should_rescan, "a fifty-percent duty cycle").                          *)
HalfTheTimeIsIdle ==
  [][(pc # "scanning" /\ pc' = "scanning") => busy <= now - busy]_vars

===============================================================================
