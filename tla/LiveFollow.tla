------------------------------ MODULE LiveFollow ------------------------------
(***************************************************************************)
(* The follower task (src/follow.rs, follow) polling an input that other   *)
(* programs write to, on top of the store of LiveSource.                   *)
(*                                                                         *)
(* Time is left out here: between a change being noticed and the re-read   *)
(* it earns, the follower may defer any number of polls.  FollowTiming has *)
(* the brakes that decide how many.                                        *)
(***************************************************************************)
EXTENDS LiveSource

CONSTANTS
  MaxEdits,     (* bounds how often the input changes                       *)
  MayPanic      (* whether a blocking task of the follower may panic        *)

ASSUME MaxEditsAssumption == MaxEdits \in Nat
ASSUME MayPanicAssumption == MayPanic \in BOOLEAN

VARIABLES
  disk,     (* the input's manifest as the file system would report it now  *)
  edits,    (* how often the input has changed                              *)
  follower  (* pc, the pending change, the manifest the poll or the scan    *)
            (* under way has read, the verdict the scan reached, and the    *)
            (* stamp its file inventory was read under                      *)

disk_vars == <<disk, edits>>
follow_vars == <<generations, current, change_pending, notify, disk, edits, follower>>

-------------------------------------------------------------------------------
(* The input.  A write moves a stamp; a volume joining or leaving the set *)
(* changes the manifest and no existing stamp.                            *)
WriteVolume ==
  /\ edits < MaxEdits
  /\ edits' = edits + 1
  /\ disk' = [disk EXCEPT !.stamp = @ + 1]
  /\ UNCHANGED <<source_vars, follower>>

ChangeVolumeSet ==
  /\ edits < MaxEdits
  /\ edits' = edits + 1
  /\ disk' = [disk EXCEPT !.extended = ~@]
  /\ UNCHANGED <<source_vars, follower>>

(* What SourceSet::verify_unchanged compares: the stamps of the volumes *)
(* that were opened, not the membership of the set.                     *)
VerifyUnchanged(fingerprint) == disk.stamp = fingerprint.stamp

-------------------------------------------------------------------------------
(* What an iteration of the loop has read goes out of scope when it ends.   *)
Released ==
  [follower EXCEPT !.manifest = [stamp |-> 0, extended |-> FALSE],
                   !.validity = "valid", !.inventory = 0]

(* A poll reads the manifest in a blocking task and decides on what it got, *)
(* whatever has been written since.  One it cannot read changes nothing.    *)
PollRead ==
  /\ follower.pc = "tick"
  /\ follower' = [follower EXCEPT !.pc = "polled", !.manifest = disk]
  /\ UNCHANGED <<source_vars, disk_vars>>

(* A poll that finds the manifest of the current generation back in place *)
(* withdraws the pending change.                                          *)
PollUnchanged ==
  /\ follower.pc = "polled"
  /\ follower.manifest = Current.fingerprint
  /\ follower' = [Released EXCEPT !.pc = "tick", !.pending = FALSE]
  /\ IF follower.pending THEN NoteChangePending(FALSE) ELSE UNCHANGED change_pending
  /\ UNCHANGED <<generations, current, notify, disk_vars>>

(* The first differing poll records the change.                             *)
NoteChange ==
  IF follower.pending THEN UNCHANGED change_pending ELSE NoteChangePending(TRUE)

(* A differing poll that should_rescan defers.                              *)
PollDefer ==
  /\ follower.pc = "polled"
  /\ follower.manifest # Current.fingerprint
  /\ follower' = [Released EXCEPT !.pc = "tick", !.pending = TRUE]
  /\ NoteChange
  /\ UNCHANGED <<generations, current, notify, disk_vars>>

(* A mistake: comparing the stamps and not the membership of the set.       *)
PollRescanOfStamps ==
  /\ follower.pc = "polled"
  /\ follower.manifest.stamp # Current.fingerprint.stamp
  /\ follower' = [follower EXCEPT !.pc = "scanning", !.pending = TRUE, !.manifest = disk]
  /\ NoteChange
  /\ UNCHANGED <<generations, current, notify, disk_vars>>

(* A differing poll that starts a re-read.  It discovers and opens the *)
(* volumes afresh, and keeps the manifest it sees doing so.            *)
PollRescan ==
  /\ follower.pc = "polled"
  /\ follower.manifest # Current.fingerprint
  /\ follower' = [follower EXCEPT !.pc = "scanning", !.pending = TRUE, !.manifest = disk]
  /\ NoteChange
  /\ UNCHANGED <<generations, current, notify, disk_vars>>

(* The scan has read every page and checks the stamps once more.            *)
ScanVerified ==
  /\ follower.pc = "scanning"
  /\ follower' = [follower EXCEPT
                    !.pc = "inventory",
                    !.validity = IF VerifyUnchanged(follower.manifest) THEN "valid" ELSE "torn"]
  /\ UNCHANGED <<source_vars, disk_vars>>

(* It goes on to read the file inventory, whose own check of the stamps *)
(* passes whatever it finds when the session follows its input.         *)
ScanInventoried ==
  /\ follower.pc = "inventory"
  /\ follower' = [follower EXCEPT !.pc = "publishing", !.inventory = disk.stamp]
  /\ UNCHANGED <<source_vars, disk_vars>>

(* A mistake: forgetting the change when its re-read fails.                 *)
ScanFailedForgetting ==
  /\ follower.pc \in {"scanning", "inventory"}
  /\ follower' = [Released EXCEPT !.pc = "tick", !.pending = FALSE]
  /\ NoteChangePending(FALSE)
  /\ UNCHANGED <<generations, current, notify, disk_vars>>

(* A scan that fails keeps the pending change for the next poll.            *)
ScanFailed ==
  /\ follower.pc \in {"scanning", "inventory"}
  /\ follower' = [Released EXCEPT !.pc = "tick"]
  /\ UNCHANGED <<source_vars, disk_vars>>

(* A mistake: publishing with the manifest as it is after the scan.         *)
PublishScanWithLaterManifest ==
  /\ follower.pc = "publishing"
  /\ follower' = [Released EXCEPT !.pc = "notifying", !.pending = FALSE]
  /\ Publish(disk, follower.validity, follower.inventory)
  /\ UNCHANGED <<notify, disk_vars>>

PublishScan ==
  /\ follower.pc = "publishing"
  /\ follower' = [Released EXCEPT !.pc = "notifying", !.pending = FALSE]
  /\ Publish(follower.manifest, follower.validity, follower.inventory)
  /\ UNCHANGED <<notify, disk_vars>>

NotifyWatchers ==
  /\ follower.pc = "notifying"
  /\ follower' = [follower EXCEPT !.pc = "tick"]
  /\ SendGeneration(current)
  /\ UNCHANGED <<generations, current, change_pending, disk_vars>>

(* A panic in the fingerprint or scan task ends the loop for good.          *)
FollowerDies ==
  /\ MayPanic
  /\ follower.pc \in {"tick", "scanning", "inventory"}
  /\ follower' = [Released EXCEPT !.pc = "dead"]
  /\ UNCHANGED <<source_vars, disk_vars>>

-------------------------------------------------------------------------------
(* The session opens on a reading that may be torn already, of an input *)
(* that may have moved on before its inventory was read, or before the  *)
(* follower first looks.                                                *)
FollowInit ==
  \E moved \in 0 .. (IF MaxEdits > 0 THEN 1 ELSE 0),
     validity \in {"valid", IF following THEN "torn" ELSE "invalidated"},
     inventory \in {0, IF following THEN 1 ELSE 0} :
    LET opened == [stamp |-> 0, extended |-> FALSE]
    IN /\ validity # "valid" => moved = 1
       /\ inventory <= moved
       /\ SourceInit(opened, validity, inventory)
       /\ disk = [opened EXCEPT !.stamp = moved]
       /\ edits = moved
       /\ follower = [pc |-> IF following THEN "tick" ELSE "off", pending |-> FALSE,
                      manifest |-> opened, validity |-> "valid", inventory |-> 0]

InputStep == WriteVolume \/ ChangeVolumeSet

FollowerStep ==
  \/ PollRead
  \/ PollUnchanged
  \/ PollDefer
  \/ PollRescan
  \/ ScanVerified
  \/ ScanInventoried
  \/ ScanFailed
  \/ PublishScan
  \/ NotifyWatchers
  \/ FollowerDies

FollowNext == InputStep \/ FollowerStep

(* The loop ticks forever; should_rescan cannot defer a change forever *)
(* (FollowTiming, StalenessCeiling); and a re-read attempted again and *)
(* again succeeds sometime, the failures being transient.              *)
FollowFairness ==
  /\ WF_follow_vars(PollRead)
  /\ WF_follow_vars(PollUnchanged)
  /\ SF_follow_vars(PollRescan)
  /\ SF_follow_vars(ScanVerified)
  /\ SF_follow_vars(ScanInventoried)
  /\ WF_follow_vars(PublishScan)
  /\ WF_follow_vars(NotifyWatchers)

FollowSpec == FollowInit /\ [][FollowNext]_follow_vars /\ FollowFairness

-------------------------------------------------------------------------------
Follower == [pc : {"off", "tick", "polled", "scanning", "inventory", "publishing",
                   "notifying", "dead"},
             pending : BOOLEAN, manifest : Manifest,
             validity : Validity \ {"superseded"}, inventory : Nat]

FollowTypeOK ==
  /\ SourceTypeOK
  /\ disk \in Manifest
  /\ edits \in Nat
  /\ follower \in Follower

(* The retention window: exactly the newest generations, the current one    *)
(* included, are addressable, whatever the eviction loop removed on the way *)
(* (LiveSource::publish).                                                   *)
RetentionIsTheNewest ==
  Retained = {n \in 0 .. current : n + RetentionWindow > current}

(* What every reader is told about the pending change is what the follower *)
(* holds, through polls, deferrals, failed scans and publications          *)
(* (follow, LiveState::change_pending).                                    *)
PendingIsShared ==
  follower.pc # "dead" => change_pending = follower.pending

(* A generation that mixes states of the input, labelled torn or not, never *)
(* looks current: the manifest it was read under is not the input's any     *)
(* more, so the next poll finds a difference and another scan is scheduled  *)
(* (CONTEXT.md, Torn generation).                                           *)
MixedIsBehindTheInput ==
  \A n \in Retained : Mixed(generations[n]) =>
                        generations[n].fingerprint.stamp < disk.stamp

(* A generation once labelled superseded stays so, through deferrals and    *)
(* failed scans: only the current one gets its standing back, and only once *)
(* a poll has read its manifest again (standing, note_change_pending).      *)
SupersededStandingHasACause ==
  [][\A n \in Retained \cap Retained' :
       (Standing(n) = "superseded" /\ Standing(n)' # "superseded") =>
         (n = current' /\ follower.manifest = generations[n].fingerprint)]_follow_vars

(* Once writers leave the input alone, the session ends on an untorn      *)
(* reading of it and stops calling it outdated, unless its follower dies. *)
EventuallyCurrent ==
  \/ <>(follower.pc = "dead")
  \/ <>[](/\ Current.fingerprint = disk
          /\ ~Mixed(Current)
          /\ Standing(current) = "valid")

(* Readers are never left with an outdated reading presented as valid: it *)
(* is labelled, replaced, the input returns to it, or the follower dies.  *)
OutdatedIsNoticed ==
  (disk # Current.fingerprint /\ ~change_pending)
    ~> (change_pending \/ disk = Current.fingerprint \/ follower.pc = "dead")

-------------------------------------------------------------------------------
(* What the code does not do: CONTEXT.md:243-244 calls a generation torn if *)
(* its "manifest changed during its own scan", and inspection.rs:1749-1750  *)
(* says that a change during the scan "produces a torn generation".  So a   *)
(* re-read that is not labelled torn is of one state of the input, its      *)
(* inventory included.                                                      *)
UntornIsOfOneState ==
  \A n \in Retained \ {0} : generations[n].validity = "valid" => ~Mixed(generations[n])

===============================================================================
