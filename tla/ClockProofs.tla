------------------------------- MODULE ClockProofs -----------------------------
(***************************************************************************)
(* Proofs about the follower's brakes, for every interval, quiet period,   *)
(* ceiling and idle minimum, every lateness of its polls and every         *)
(* duration of a re-read.                                                  *)
(***************************************************************************)
EXTENDS FollowTiming, TLAPS

LEMMA LaterIsTheLater ==
  ASSUME NEW s \in Int, NEW t \in Int
  PROVE  /\ Later(s, t) \in {s, t}
         /\ s <= Later(s, t) /\ t <= Later(s, t)
BY DEF Later

-------------------------------------------------------------------------------
(* Types, and how far each phase of the loop is behind the clock.          *)

Change == [held : BOOLEAN, first_at : Nat, moved_at : Nat, observed : Nat]

ClockTypes ==
  /\ now \in Nat /\ disk \in Nat /\ behind_since \in Nat /\ events \in Nat /\ known \in Nat
  /\ pc \in {"waiting", "reading", "scanning"}
  /\ tick \in [at : Nat, due : Nat]
  /\ observed \in Nat
  /\ pending \in Change
  /\ last_scan \in [at : Nat, duration : Nat]
  /\ scan \in [began : Nat, manifest : Nat]
  /\ busy \in Nat /\ blind_at \in Nat

(* A poll is at most Lag late and takes Lag at most; the next one is due *)
(* within an interval.                                                   *)
Punctual ==
  /\ tick.at <= now
  /\ pc = "waiting" => now <= tick.due + Lag /\ tick.due <= now + PollInterval
  /\ pc = "reading" => now <= tick.at + Lag
  /\ pc = "scanning" => scan.began <= now

(* Everything that is remembered has happened, and a manifest is the time *)
(* of a write that was not later than what it was noticed by.             *)
Happened ==
  /\ disk <= now /\ behind_since <= now /\ blind_at <= now /\ last_scan.at <= now
  /\ pending.held =>
       /\ pending.first_at <= now /\ pending.moved_at <= now
       /\ pending.observed <= pending.moved_at
  /\ pc = "reading" => observed <= now

(* What re-reads have cost is twice paid for by the end of the last one and *)
(* the brake it puts on the next.                                           *)
Paid ==
  /\ 2 * busy <= last_scan.at + last_scan.duration
  /\ pc = "scanning" => 2 * busy <= scan.began

ClockInv == ClockTypes /\ Punctual /\ Happened /\ Paid

LEMMA TrackedIsAChange ==
  ASSUME ClockTypes
  PROVE  /\ Tracked \in Change
         /\ Tracked.held
         /\ Tracked.observed = observed
         /\ Tracked.first_at = IF pending.held THEN pending.first_at ELSE now
         /\ Tracked.moved_at = IF pending.held /\ pending.observed = observed
                               THEN pending.moved_at ELSE now
BY DEF ClockTypes, Change, Tracked

LEMMA NextDueIsSoon ==
  ASSUME ClockTypes, tick.at <= now
  PROVE  /\ NextDue \in Nat
         /\ now <= NextDue /\ NextDue <= now + PollInterval
         /\ NextDue = now \/ NextDue = tick.at + PollInterval
BY FollowConfigAssumption DEF ClockTypes, NextDue, Later

LEMMA InitClock == Init => ClockInv
BY FollowConfigAssumption, BoundsAssumption
   DEF Init, ClockInv, ClockTypes, Punctual, Happened, Paid, Change, NoChange, NoScan

LEMMA NextKeepsClock ==
  ASSUME ClockInv, [Next]_vars
  PROVE  ClockInv'
<1> USE FollowConfigAssumption, BoundsAssumption DEF ClockInv
<1>1. CASE Write
  BY <1>1 DEF Write, scan_vars, ClockTypes, Punctual, Happened, Paid
<1>2. CASE Pass
  BY <1>2 DEF Pass, input_vars, scan_vars, Change, ClockTypes, Punctual, Happened, Paid
<1>3. CASE PollRead
  BY <1>3 DEF PollRead, input_vars, scan_vars, ClockTypes, Punctual, Happened, Paid
<1>4. CASE PollUnreadable
  BY <1>4, NextDueIsSoon DEF PollUnreadable, scan_vars, ClockTypes, Punctual, Happened, Paid
<1>5. CASE PollUnchanged
  BY <1>5, NextDueIsSoon
     DEF PollUnchanged, input_vars, scan_vars, NoChange, Change, ClockTypes, Punctual, Happened, Paid
<1>6. CASE PollDefer
  BY <1>6, NextDueIsSoon, TrackedIsAChange
     DEF PollDefer, input_vars, scan_vars, ClockTypes, Punctual, Happened, Paid
<1>7. CASE PollRescan
  <2>1. /\ UNCHANGED <<now, disk, behind_since, events, known, tick, last_scan, busy, blind_at>>
        /\ pending' = Tracked /\ observed' = 0 /\ pc' = "scanning"
        /\ scan' = [began |-> now, manifest |-> disk]
    BY <1>7 DEF PollRescan, input_vars
  <2>2. now - last_scan.at >= last_scan.duration
    BY <1>7 DEF PollRescan, ShouldRescan, IdleRequired, Later, ClockTypes
  <2>3. Paid'
    BY <2>1, <2>2 DEF Paid, ClockTypes
  <2>4. ClockTypes' /\ Punctual' /\ Happened'
    BY <1>7, <2>1, TrackedIsAChange DEF PollRescan, ClockTypes, Punctual, Happened
  <2>5. QED
    BY <2>3, <2>4
<1>8. ASSUME NEW succeeded \in BOOLEAN, ScanEnds(succeeded)
      PROVE  ClockInv'
  BY <1>8, NextDueIsSoon
     DEF ScanEnds, LastScan, input_vars, NoChange, NoScan, Change, ClockTypes, Punctual, Happened, Paid
<1>9. CASE UNCHANGED vars
  BY <1>9 DEF vars, ClockTypes, Punctual, Happened, Paid
<1>10. QED
  BY <1>1, <1>2, <1>3, <1>4, <1>5, <1>6, <1>7, <1>8, <1>9 DEF Next

-------------------------------------------------------------------------------
(* A re-read that begins before the ceiling reads what has been on disk for *)
(* the quiet period: the change it is earned by has been tracked since the  *)
(* poll that saw it move, which was not before the write (should_rescan).   *)
THEOREM SettledBeforeCeiling == Spec => SettledBeforeTheCeiling
<1> DEFINE Settles == (pc # "scanning" /\ pc' = "scanning") =>
                        \/ now - observed >= QuietPeriod
                        \/ now - pending'.first_at >= MaxDefer
<1>1. ASSUME ClockInv, [Next]_vars
      PROVE  Settles
  <2>1. CASE PollRescan
    <3>1. /\ pending' = Tracked /\ pc = "reading"
          /\ now - Tracked.moved_at >= QuietPeriod \/ now - Tracked.first_at >= MaxDefer
      BY <2>1 DEF PollRescan, ShouldRescan
    <3>2. observed <= Tracked.moved_at /\ Tracked.moved_at \in Nat
      BY <1>1, <3>1, TrackedIsAChange DEF ClockInv, ClockTypes, Change, Happened
    <3>3. QED
      BY <1>1, <3>1, <3>2, FollowConfigAssumption DEF ClockInv, ClockTypes
  <2>2. CASE pc' # "scanning" \/ pc = "scanning"
    BY <2>2
  <2>3. QED
    BY <1>1, <2>1, <2>2 DEF Next, vars, Write, Pass, PollRead, PollUnreadable, PollUnchanged,
                            PollDefer, ScanEnds
<1>2. QED
  BY <1>1, InitClock, NextKeepsClock, PTL DEF Spec, SettledBeforeTheCeiling

(* Whenever a re-read begins, at least as much time has been idle as all *)
(* re-reads before it took, those that failed included (should_rescan,   *)
(* IdleRequired).                                                        *)
THEOREM IdleHalfTheTime == Spec => HalfTheTimeIsIdle
<1> DEFINE Idle == (pc # "scanning" /\ pc' = "scanning") => busy <= now - busy
<1>1. ASSUME ClockInv, [Next]_vars
      PROVE  Idle
  <2>1. CASE PollRescan
    <3>1. now - last_scan.at >= last_scan.duration
      BY <1>1, <2>1, FollowConfigAssumption
         DEF PollRescan, ShouldRescan, IdleRequired, Later, ClockInv, ClockTypes
    <3>2. QED
      BY <1>1, <3>1 DEF ClockInv, ClockTypes, Paid
  <2>2. CASE pc' # "scanning" \/ pc = "scanning"
    BY <2>2
  <2>3. QED
    BY <1>1, <2>1, <2>2 DEF Next, vars, Write, Pass, PollRead, PollUnreadable, PollUnchanged,
                            PollDefer, ScanEnds
<1>2. QED
  BY <1>1, InitClock, NextKeepsClock, PTL DEF Spec, HalfTheTimeIsIdle

-------------------------------------------------------------------------------
(* What holds a re-read back.  Both bounds have the same shape: from the    *)
(* moment `held`, the latest of what the re-read could have been waiting    *)
(* for, the first poll notices within an interval, and from then on every   *)
(* poll falls before the brakes let go or soon after it.                    *)
Gap == Later(PollInterval, Lag)

(* The poll to come, or under way, was due soon after `t`.                  *)
PolledSince(t) ==
  /\ pc = "waiting" => tick.due <= t + Gap
  /\ pc = "reading" => tick.at <= t + Gap + Lag

(* The poll to come, or under way, follows one that the brakes held back. *)
PolledBefore(t) ==
  /\ pc = "waiting" => tick.due < t + Gap
  /\ pc = "reading" => tick.at < t + Gap + Lag

(* The brakes let go of a change of age `age` that counts from `since`.     *)
LetsGo(since, age) == Later(since + age, last_scan.at + IdleRequired(last_scan))

(* The display is left behind, by any write: the ceiling.                   *)
CeilingInv ==
  LET t == HeldBackSince(behind_since) IN
  disk # known =>
    /\ ~pending.held => PolledSince(t)
    /\ (pc = "reading" /\ observed = known) => tick.at <= t
    /\ pending.held =>
         /\ pending.first_at <= t + PollGap
         /\ PolledSince(t) \/ PolledBefore(LetsGo(pending.first_at, MaxDefer))

(* The input comes to rest: settling.                                       *)
QuietInv ==
  LET t == HeldBackSince(disk)
      noticed == pending.held /\ pending.observed = disk IN
  disk # known =>
    /\ ~noticed => PolledSince(t)
    /\ (pc = "reading" /\ observed # disk) => tick.at <= t
    /\ noticed =>
         /\ pending.moved_at <= t + PollGap
         /\ PolledSince(t) \/ PolledBefore(LetsGo(pending.moved_at, QuietPeriod))

LEMMA InitBounds == Init => CeilingInv /\ QuietInv
BY DEF Init, CeilingInv, QuietInv

LEMMA NextKeepsCeiling ==
  ASSUME ClockInv, CeilingInv, [Next]_vars
  PROVE  CeilingInv'
<1> USE FollowConfigAssumption, BoundsAssumption
    DEF ClockInv, ClockTypes, Change, Punctual, Happened, CeilingInv, PolledSince, PolledBefore,
        LetsGo, Gap, PollGap, HeldBackSince, IdleRequired, Later
<1>1. CASE Write
  BY <1>1 DEF Write, scan_vars
<1>2. CASE Pass
  BY <1>2 DEF Pass, input_vars, scan_vars
<1>3. CASE PollRead
  BY <1>3 DEF PollRead, input_vars, scan_vars
<1>4. CASE PollUnreadable
  BY <1>4, NextDueIsSoon DEF PollUnreadable, scan_vars
<1>5. CASE PollUnchanged
  BY <1>5, NextDueIsSoon DEF PollUnchanged, input_vars, scan_vars, NoChange
<1>6. CASE PollDefer
  BY <1>6, NextDueIsSoon, TrackedIsAChange DEF PollDefer, ShouldRescan, input_vars, scan_vars
<1>7. CASE PollRescan
  BY <1>7, TrackedIsAChange DEF PollRescan, input_vars
<1>8. ASSUME NEW succeeded \in BOOLEAN, ScanEnds(succeeded)
      PROVE  CeilingInv'
  BY <1>8, NextDueIsSoon DEF ScanEnds, LastScan, input_vars, NoChange
<1>9. CASE UNCHANGED vars
  BY <1>9 DEF vars
<1>10. QED
  BY <1>1, <1>2, <1>3, <1>4, <1>5, <1>6, <1>7, <1>8, <1>9 DEF Next

LEMMA NextKeepsQuiet ==
  ASSUME ClockInv, QuietInv, [Next]_vars
  PROVE  QuietInv'
<1> USE FollowConfigAssumption, BoundsAssumption
    DEF ClockInv, ClockTypes, Change, Punctual, Happened, QuietInv, PolledSince, PolledBefore,
        LetsGo, Gap, PollGap, HeldBackSince, IdleRequired, Later
<1>1. CASE Write
  BY <1>1 DEF Write, scan_vars
<1>2. CASE Pass
  BY <1>2 DEF Pass, input_vars, scan_vars
<1>3. CASE PollRead
  BY <1>3 DEF PollRead, input_vars, scan_vars
<1>4. CASE PollUnreadable
  BY <1>4, NextDueIsSoon DEF PollUnreadable, scan_vars
<1>5. CASE PollUnchanged
  BY <1>5, NextDueIsSoon DEF PollUnchanged, input_vars, scan_vars, NoChange
<1>6. CASE PollDefer
  BY <1>6, NextDueIsSoon, TrackedIsAChange DEF PollDefer, ShouldRescan, input_vars, scan_vars
<1>7. CASE PollRescan
  BY <1>7, TrackedIsAChange DEF PollRescan, input_vars
<1>8. ASSUME NEW succeeded \in BOOLEAN, ScanEnds(succeeded)
      PROVE  QuietInv'
  BY <1>8, NextDueIsSoon DEF ScanEnds, LastScan, input_vars, NoChange
<1>9. CASE UNCHANGED vars
  BY <1>9 DEF vars
<1>10. QED
  BY <1>1, <1>2, <1>3, <1>4, <1>5, <1>6, <1>7, <1>8, <1>9 DEF Next

(* However the polls fall and whatever is written, the display is behind no *)
(* longer than the ceiling, or the load brake, and two polls: writes that   *)
(* never stop do not put a re-read off (should_rescan, max_defer).          *)
THEOREM StalenessIsBounded == Spec => []StalenessCeiling
<1>1. ASSUME ClockInv, CeilingInv
      PROVE  StalenessCeiling
  BY <1>1, FollowConfigAssumption, BoundsAssumption
     DEF ClockInv, ClockTypes, Change, Punctual, CeilingInv, PolledSince, PolledBefore, LetsGo, Gap,
         PollGap, HeldBackSince, IdleRequired, Later, StalenessCeiling
<1>2. QED
  BY <1>1, InitClock, InitBounds, NextKeepsClock, NextKeepsCeiling, PTL DEF Spec

(* An input that is left alone is on display after the quiet period, or the *)
(* load brake, and two polls (follow, PendingChange).                       *)
THEOREM QuietIsReread == Spec => []QuietInputIsReread
<1>1. ASSUME ClockInv, QuietInv
      PROVE  QuietInputIsReread
  BY <1>1, FollowConfigAssumption, BoundsAssumption
     DEF ClockInv, ClockTypes, Change, Punctual, QuietInv, PolledSince, PolledBefore, LetsGo, Gap,
         PollGap, HeldBackSince, IdleRequired, Later, QuietInputIsReread
<1>2. QED
  BY <1>1, InitClock, InitBounds, NextKeepsClock, NextKeepsQuiet, PTL DEF Spec

===============================================================================
