--------------------------- MODULE ObservationWire ---------------------------
(*******************************************************************************)
(* The producer's scan protocol as its decoder sees it (wire.rs, socket.rs).   *)
(* A connection carries one handshake and then, per scan request, a header,    *)
(* page records and a footer.  The producer is not trusted: whatever frame     *)
(* arrives next is decided by Accept, never by the producer.                   *)
(*                                                                             *)
(* Abstracted: a frame is a record of the fields the decoder decides by        *)
(* (kind, incarnation, scan sequence, whether a footer counts the records that *)
(* came); its text, its JSON rules and the values inside a page record are     *)
(* malformed or well formed, byte and depth limits among the malformed.        *)
(*******************************************************************************)
EXTENDS Integers

CONSTANTS
    MaxIncarnation,  \* bound: producer restarts that are distinguished
    MaxSequence,     \* bound: scan sequence numbers of one incarnation
    RecordLimit      \* wire.rs RECORD_LIMIT, scaled

ASSUME WireAssumption ==
    /\ MaxIncarnation \in Nat \ {0}
    /\ MaxSequence \in Nat \ {0}
    /\ RecordLimit \in Nat

Incarnations == 1..MaxIncarnation
Sequences == 1..MaxSequence

NoAssembly == [sequence |-> 0, records |-> 0]

ScanHeaders == [kind : {"scan_header"}, incarnation : Incarnations, sequence : Sequences]
PageRecords == [kind : {"page"}, incarnation : Incarnations, sequence : Sequences]
ScanFooters == [kind : {"scan_footer"}, incarnation : Incarnations, sequence : Sequences,
                counts_match : BOOLEAN]
ErrorFrames == [kind : {"error"}, code : {"busy", "incarnation-changed"}]
MalformedFrames == [kind : {"malformed"}]

Frames == ScanHeaders \cup PageRecords \cup ScanFooters \cup ErrorFrames \cup MalformedFrames

(******************************************************************************)
(* A decoder that is attached to an incarnation: the highest sequence it has  *)
(* consumed (or was told of), the scan it assembles and whether one was asked *)
(* for.                                                                       *)
(******************************************************************************)
Decoder == [incarnation : Incarnations, sequence : 0..MaxSequence,
            requested : BOOLEAN,
            assembly : [sequence : 0..MaxSequence, records : 0..RecordLimit]]

Handshaken(i) == [incarnation |-> i, sequence |-> 0, requested |-> FALSE,
                  assembly |-> NoAssembly]

SetSequenceFloor(d, floor) ==
    [d EXCEPT !.sequence = IF floor > @ THEN floor ELSE @]

BeginScan(d) == [d EXCEPT !.requested = TRUE]

(****************************************************************************)
(* What one frame does: the decoder after it, the capture it publishes (its *)
(* sequence, 0 for none) and the error that closes the connection.          *)
(****************************************************************************)
Taken(d) == [decoder |-> d, capture |-> 0, error |-> "none"]
Refused(d, reason) == [decoder |-> d, capture |-> 0, error |-> reason]

\* A plausible mistake: a header sent again restarts the scan it began.
AcceptHeaderRestarting(d, f) ==
    IF ~d.requested THEN Refused(d, "ordering")
    ELSE IF f.incarnation # d.incarnation THEN Refused(d, "incarnation-changed")
    ELSE IF f.sequence < d.sequence THEN Refused(d, "sequence-mismatch")
    ELSE Taken([d EXCEPT !.sequence = f.sequence,
                         !.assembly = [sequence |-> f.sequence, records |-> 0]])

AcceptHeader(d, f) ==
    IF d.assembly # NoAssembly \/ ~d.requested THEN Refused(d, "ordering")
    ELSE IF f.incarnation # d.incarnation THEN Refused(d, "incarnation-changed")
    ELSE IF f.sequence <= d.sequence THEN Refused(d, "sequence-mismatch")
    ELSE Taken([d EXCEPT !.sequence = f.sequence,
                         !.assembly = [sequence |-> f.sequence, records |-> 0]])

AcceptBody(d, f) ==
    IF d.assembly = NoAssembly THEN Refused(d, "ordering")
    ELSE IF f.incarnation # d.incarnation THEN Refused(d, "incarnation-changed")
    ELSE IF f.sequence # d.assembly.sequence THEN Refused(d, "sequence-mismatch")
    ELSE IF f.kind = "page" /\ d.assembly.records = RecordLimit THEN Refused(d, "record-limit")
    ELSE IF f.kind = "page" THEN Taken([d EXCEPT !.assembly.records = @ + 1])
    ELSE IF ~f.counts_match THEN Refused(d, "count-mismatch")
    ELSE [decoder |-> [d EXCEPT !.assembly = NoAssembly, !.requested = FALSE],
          capture |-> d.assembly.sequence, error |-> "none"]

Accept(d, f) ==
    IF f.kind = "scan_header" THEN AcceptHeader(d, f)
    ELSE IF f.kind \in {"page", "scan_footer"} THEN AcceptBody(d, f)
    ELSE IF f.kind = "error" /\ d.assembly # NoAssembly THEN Refused(d, "ordering")
    ELSE IF f.kind = "error"
    THEN Refused([d EXCEPT !.requested = FALSE],
                 IF f.code = "busy" THEN "producer-busy" ELSE f.code)
    ELSE Refused(d, "malformed-json")
=============================================================================
