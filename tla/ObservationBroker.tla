-------------------------- MODULE ObservationBroker --------------------------
(********************************************************************************)
(* The runtime observation broker (web/observations/session.rs with the         *)
(* admission of web.rs): callers that ask for page-buffer evidence share one    *)
(* session behind one lock, which owns one connection to the producer, one      *)
(* latest capture and at most one unfinished scan.                              *)
(*                                                                              *)
(* Time is a tick; every duration of the code is a constant in ticks, and the   *)
(* state keeps ages instead of instants, so that behaviours are unbounded while *)
(* states are finite.  A tick passes only when no timer is due.                 *)
(*                                                                              *)
(* Abstracted: the text of capabilities and rows (which pages a capture lists), *)
(* the `expired` and `revision` members that only annotate it, and the socket's *)
(* ownership checks, which are outcomes of the handshake.                       *)
(********************************************************************************)
EXTENDS ObservationWire, SequencesExt, FiniteSets

CONSTANTS
    Callers,        \* HTTP requests that may be held at the same time
    Requests,       \* session.rs: permits of the request semaphore (8)
    Identities,     \* identities a disk generation can have, Producers among them
    NoIdentity,     \* a generation without an attachable identity
    Served,         \* the identity of the producer's database
    Floor,          \* FLOOR, 500 ms between scan starts
    Handshake,      \* 500 ms to attach
    ScanLimit,      \* 2 s for one scan exchange
    Deadline,       \* 2.5 s for a request
    PreExpiry,      \* 27 s: evidence dropped before a refresh
    Expiry,         \* EXPIRY, 30 s
    Cadence, Slack, \* the cadence a caller accepts; the 101 ms added to an age
    FixedCharge, DecoderCharge, CaptureCharge, ResponseCharge, Ceiling,
    Nobody

ASSUME BrokerAssumption ==
    /\ {Requests, Floor, Handshake, ScanLimit, Deadline} \subseteq Nat \ {0}
    /\ PreExpiry \in Nat /\ Expiry \in Nat /\ Cadence \in Nat /\ Slack \in Nat
    /\ Deadline < Expiry /\ PreExpiry < Expiry /\ Cadence <= Expiry
    /\ Handshake <= ScanLimit /\ ScanLimit < Expiry
    /\ Served \in Identities /\ NoIdentity \notin Identities /\ Nobody \notin Callers
    /\ {FixedCharge, DecoderCharge, CaptureCharge, ResponseCharge, Ceiling} \subseteq Nat

\* What the ceiling is made for: a session, one decoder, a capture beside the one it replaces,
\* and a response for every permit (memory.rs, the test of the aggregate boundary).
ASSUME BudgetAssumption ==
    FixedCharge + DecoderCharge + 2 * CaptureCharge + ResponseCharge * Requests <= Ceiling

VARIABLES
    disk,      \* the identity of the current disk generation
    producer,  \* the producer's incarnation; a restart closes its connections
    session,   \* Inner: what survives between callers
    conn,      \* Inner.connection: an idle decoder, or none
    caller,    \* what every request waits for
    queue,     \* callers waiting for the session lock, in order
    work,      \* what the lock's holder is doing
    sinceScan, \* ticks since a scan request was last sent (history)
    consumed,  \* the highest scan sequence accepted, per incarnation (history)
    retried    \* whether a retry was taken up since evidence was last served (history)

clientVars == <<caller, queue>>
history == <<sinceScan, consumed, retried>>
vars == <<disk, producer, session, conn, caller, queue, work, history>>

AgeCap == Expiry
NoEvidence == [incarnation |-> 0, sequence |-> 0, age |-> 0, published |-> 0]
NoConnection == Handshaken(1)  \* a placeholder; conn.open tells
Closed == [open |-> FALSE, decoder |-> NoConnection]
Opened(d) == [open |-> TRUE, decoder |-> d]
Free == [phase |-> "none", by |-> Nobody, elapsed |-> 0, decoder |-> NoConnection]
Away == [pc |-> "idle", kind |-> "plain", identity |-> NoIdentity, age |-> 0]

Refusals == {"identity-mismatch", "peer-refused", "version-unsupported", "incarnation-changed"}
Kinds == {"plain", "after_request", "retry"}

TypeOK ==
    /\ disk \in Identities \cup {NoIdentity}
    /\ producer \in Incarnations
    /\ session \in [identity : Identities \cup {NoIdentity},
                    latest : [incarnation : 0..MaxIncarnation, sequence : 0..MaxSequence,
                              age : 0..AgeCap, published : 0..AgeCap],
                    sinceStart : 0..Floor, refusal : Refusals \cup {"none"},
                    incarnation : 0..MaxIncarnation, sequence : 0..MaxSequence,
                    accept : BOOLEAN, failed : BOOLEAN]
    /\ conn \in [open : BOOLEAN, decoder : Decoder]
    /\ caller \in [Callers -> [pc : {"idle", "queued", "refreshing", "responding"},
                               kind : Kinds, identity : Identities \cup {NoIdentity},
                               age : 0..Deadline]]
    /\ queue \in Seq(Callers)
    /\ work \in [phase : {"none", "floor", "attach", "scan", "done", "metadata"},
                 by : Callers \cup {Nobody}, elapsed : 0..ScanLimit, decoder : Decoder]
    /\ sinceScan \in 0..Floor
    /\ consumed \in [Incarnations -> 0..MaxSequence]
    /\ retried \in BOOLEAN

Init ==
    /\ disk \in Identities
    /\ producer = 1
    /\ session = [identity |-> NoIdentity, latest |-> NoEvidence, sinceStart |-> Floor,
                  refusal |-> "none", incarnation |-> 0, sequence |-> 0,
                  accept |-> FALSE, failed |-> FALSE]
    /\ conn = Closed
    /\ caller = [c \in Callers |-> Away]
    /\ queue = <<>>
    /\ work = Free
    /\ sinceScan = Floor
    /\ consumed = [i \in Incarnations |-> 0]
    /\ retried = FALSE

-----------------------------------------------------------------------------
(* Inner: the pure steps of the session. *)

\* A plausible mistake: expiry is left to the timer.
ExpireNothing(s) == s

Expire(s) == IF s.latest # NoEvidence /\ s.latest.age >= Expiry
             THEN [s EXCEPT !.latest = NoEvidence] ELSE s

Fail(s, reason) ==
    IF reason \in Refusals
    THEN [s EXCEPT !.failed = TRUE, !.latest = NoEvidence, !.refusal = reason]
    ELSE [s EXCEPT !.failed = TRUE]

\* A caller binds the session to the identity it read with its generation.
Mismatched(s, id) == id = NoIdentity \/ (s.identity # NoIdentity /\ s.identity # id)

Bind(s, id) ==
    IF Mismatched(s, id)
    THEN [s EXCEPT !.identity = id, !.latest = NoEvidence, !.refusal = "identity-mismatch"]
    ELSE [s EXCEPT !.identity = id]

Lift(s, kind) ==
    IF kind = "retry" /\ s.identity # NoIdentity /\ s.refusal # "none"
    THEN [s EXCEPT !.refusal = "none", !.accept = TRUE] ELSE s

\* The capture a caller may share instead of asking for a scan of its own.
\* (A plausible mistake first: a scan in flight serves a caller that came during it.)
SharedWhenPublishedSince(s, c) ==
    s.latest # NoEvidence /\ (s.latest.published <= c.age \/ s.latest.age + Slack <= Cadence)

Shared(s, c) ==
    /\ s.latest # NoEvidence
    /\ IF c.kind = "after_request" THEN s.latest.age < c.age
       ELSE s.latest.published <= c.age \/ s.latest.age + Slack <= Cadence

\* What an attached connection's handshake does to the session.
\* (A plausible mistake first: dropping the old evidence is taken for enough.)
AttachToAny(s, i) ==
    LET changed == s.incarnation \notin {0, i} IN
    IF s.identity # Served THEN [session |-> s, error |-> "identity-mismatch"]
    ELSE [session |-> [s EXCEPT !.latest = IF changed THEN NoEvidence ELSE @,
                                !.sequence = IF changed THEN 0 ELSE @,
                                !.incarnation = i, !.accept = FALSE],
          error |-> "none"]

Attach(s, i) ==
    LET changed == s.incarnation \notin {0, i}
        known == [s EXCEPT !.latest = IF changed THEN NoEvidence ELSE @] IN
    IF s.identity # Served THEN [session |-> s, error |-> "identity-mismatch"]
    ELSE IF changed /\ ~s.accept THEN [session |-> known, error |-> "incarnation-changed"]
    ELSE [session |-> [known EXCEPT !.sequence = IF changed THEN 0 ELSE @,
                                    !.incarnation = i, !.accept = FALSE],
          error |-> "none"]

BeforeRefresh(s) == IF s.latest # NoEvidence /\ s.latest.age >= PreExpiry
                    THEN [s EXCEPT !.latest = NoEvidence] ELSE s

\* ScanLease: a scan's header has consumed its sequence however the scan ends.
\* (A plausible mistake first: only a published capture counts.)
LeaseForgotten(s, d) == [s EXCEPT !.sequence = s.latest.sequence]

LeaseDropped(s, d) == [s EXCEPT !.sequence = IF d.sequence > @ THEN d.sequence ELSE @]

Current == conn.open /\ conn.decoder.incarnation = producer

\* is_current refuses a connection whose socket is gone or another's, or that has sent bytes
\* nobody asked for.
Unusable == {"source-unavailable", "peer-refused", "version-unsupported"}

-----------------------------------------------------------------------------
(* Admission and the callers. *)

Observers == {c \in Callers : caller[c].pc \in {"queued", "refreshing"}}
Holding == {c \in Callers : caller[c].pc # "idle"}

Request(c, kind) ==
    /\ caller[c].pc = "idle"
    /\ Cardinality(Holding) < Requests
    /\ caller' = [caller EXCEPT ![c] = [Away EXCEPT !.pc = "queued", !.kind = kind,
                                                    !.identity = disk]]
    /\ queue' = Append(queue, c)
    /\ UNCHANGED <<disk, producer, session, conn, work, history>>

\* The body is written from the session under the lock, unless the deadline passed.
Respond(c, s) ==
    IF caller[c].age >= Deadline
    THEN caller' = [caller EXCEPT ![c] = Away] /\ UNCHANGED retried
    ELSE /\ caller' = [caller EXCEPT ![c] = [Away EXCEPT !.pc = "responding"]]
         /\ retried' = (retried /\ s.latest = NoEvidence)

Acquire ==
    /\ work.phase = "none" /\ queue # <<>>
    /\ LET c == Head(queue)
           bound == Bind(Expire(session), caller[c].identity)
           s == Lift(bound, caller[c].kind) IN
       /\ queue' = Tail(queue)
       /\ session' = s
       /\ conn' = IF Mismatched(Expire(session), caller[c].identity) THEN Closed ELSE conn
       /\ IF s.refusal # "none" \/ Shared(s, caller[c])
          THEN Respond(c, s) /\ UNCHANGED work
          ELSE /\ caller' = [caller EXCEPT ![c] = [Away EXCEPT !.pc = "refreshing", !.age = caller[c].age,
                    !.kind = IF caller[c].kind = "after_request" THEN "after_request" ELSE "plain"]]
               /\ work' = [Free EXCEPT !.phase = "floor", !.by = c]
               /\ retried' = (retried \/ caller[c].kind = "retry")
    /\ UNCHANGED <<disk, producer, sinceScan, consumed>>

Answer ==
    /\ work.phase = "done" /\ work.by # Nobody
    /\ session' = Expire(session)
    /\ Respond(work.by, session')
    /\ work' = Free
    /\ UNCHANGED <<disk, producer, conn, queue, sinceScan, consumed>>

\* A refresh whose caller has gone returns the lock to nobody.
Release ==
    /\ work.phase = "done" /\ work.by = Nobody
    /\ work' = Free
    /\ UNCHANGED <<disk, producer, session, conn, caller, queue, history>>

\* The client disconnects, or the request's deadline passes.
Leave(c) ==
    /\ caller[c].pc \in {"queued", "refreshing"}
    /\ caller' = [caller EXCEPT ![c] = Away]
    /\ \/ caller[c].pc = "refreshing" /\ UNCHANGED queue
       \/ \E i \in DOMAIN queue : queue[i] = c /\ queue' = RemoveAt(queue, i)
    /\ work' = IF work.by = c THEN [work EXCEPT !.by = Nobody] ELSE work
    /\ UNCHANGED <<disk, producer, session, conn, history>>

BodyDropped(c) ==
    /\ caller[c].pc = "responding"
    /\ caller' = [caller EXCEPT ![c] = Away]
    /\ UNCHANGED <<disk, producer, session, conn, queue, work, history>>

-----------------------------------------------------------------------------
(* The refresh task, which owns the lock until it ends. *)

Finished == [Free EXCEPT !.phase = "done", !.by = work.by]

RefreshFails(s, reason) ==
    /\ session' = Fail(s, reason)
    /\ conn' = Closed
    /\ work' = Finished
    /\ UNCHANGED <<sinceScan, consumed>>

\* The connection is there: the scan request is sent, or the attachment refused.
\* (A plausible mistake first: the floor is kept from published captures only.)
AttachedUnrecorded(s, d) ==
    LET a == Attach(s, d.incarnation) IN
    IF a.error # "none" THEN RefreshFails(a.session, a.error)
    ELSE /\ session' = a.session
         /\ conn' = Closed
         /\ work' = [work EXCEPT !.phase = "scan", !.elapsed = 0,
                        !.decoder = BeginScan(SetSequenceFloor(d, a.session.sequence))]
         /\ sinceScan' = 0
         /\ UNCHANGED consumed

Attached(s, d) ==
    LET a == Attach(s, d.incarnation) IN
    IF a.error # "none" THEN RefreshFails(a.session, a.error)
    ELSE /\ session' = [a.session EXCEPT !.sinceStart = 0]
         /\ conn' = Closed
         /\ work' = [work EXCEPT !.phase = "scan", !.elapsed = 0,
                        !.decoder = BeginScan(SetSequenceFloor(d, a.session.sequence))]
         /\ sinceScan' = 0
         /\ UNCHANGED consumed

FloorPassed ==
    /\ work.phase = "floor" /\ session.sinceStart >= Floor
    /\ LET s == BeforeRefresh(session) IN
       \/ Current /\ Attached(s, conn.decoder)
       \/ conn.open /\ \E reason \in Unusable : RefreshFails(s, reason)
       \/ /\ ~Current
          /\ session' = s
          /\ conn' = Closed
          /\ work' = [work EXCEPT !.phase = "attach", !.elapsed = 0]
          /\ UNCHANGED <<sinceScan, consumed>>
    /\ UNCHANGED <<disk, producer, caller, queue, retried>>

HandshakeEnds ==
    /\ work.phase = "attach"
    /\ \/ work.elapsed < Handshake /\ Attached(session, Handshaken(producer))
       \/ \E reason \in {"peer-refused", "attachment-timeout"} : RefreshFails(session, reason)
    /\ UNCHANGED <<disk, producer, caller, queue, retried>>

Receive(f) ==
    /\ work.phase = "scan" /\ work.elapsed < ScanLimit
    /\ LET r == Accept(work.decoder, f)
           s == LeaseDropped(session, r.decoder) IN
       IF r.error # "none" THEN RefreshFails(s, r.error)
       ELSE IF r.capture = 0
       THEN /\ work' = [work EXCEPT !.decoder = r.decoder]
            /\ consumed' = [consumed EXCEPT ![r.decoder.incarnation] = r.decoder.sequence]
            /\ UNCHANGED <<session, conn, sinceScan>>
       ELSE /\ session' = [s EXCEPT !.failed = FALSE,
                             !.latest = [incarnation |-> r.decoder.incarnation,
                                         sequence |-> r.capture,
                                         age |-> work.elapsed, published |-> 0]]
            /\ conn' = Opened(r.decoder)
            /\ work' = Finished
            /\ UNCHANGED <<sinceScan, consumed>>
    /\ UNCHANGED <<disk, producer, caller, queue, retried>>

ScanTimesOut ==
    /\ work.phase = "scan" /\ work.elapsed >= ScanLimit
    /\ RefreshFails(LeaseDropped(session, work.decoder), "scan-timeout")
    /\ UNCHANGED <<disk, producer, caller, queue, retried>>

\* The last caller has left: the task's select! drops the refresh where it waits.
Cancel ==
    /\ work.phase \in {"floor", "attach", "scan"} /\ Observers = {}
    /\ session' = IF work.phase = "scan" THEN LeaseDropped(session, work.decoder) ELSE session
    /\ conn' = IF work.phase = "floor" THEN conn ELSE Closed
    /\ work' = Free
    /\ UNCHANGED <<disk, producer, caller, queue, history>>

-----------------------------------------------------------------------------
(* Capability metadata takes the lock only if nobody has it or waits for it. *)

Metadata ==
    /\ work.phase = "none" /\ queue = <<>>
    /\ LET fresh == Expire(session)
           moved == fresh.identity # NoIdentity /\ fresh.identity # disk
           s == IF moved THEN [Fail(fresh, "identity-mismatch") EXCEPT !.identity = disk]
                ELSE fresh IN
       IF s.identity = NoIdentity \/ s.refusal # "none"
       THEN /\ session' = s
            /\ conn' = IF moved THEN Closed ELSE conn
            /\ UNCHANGED work
       ELSE \/ /\ Current
               /\ LET a == Attach(s, conn.decoder.incarnation) IN
                  /\ session' = IF a.error = "none" THEN a.session ELSE Fail(a.session, a.error)
                  /\ conn' = IF a.error = "none" THEN conn ELSE Closed
               /\ UNCHANGED work
            \/ /\ conn.open
               /\ \E reason \in Unusable : session' = Fail(s, reason)
               /\ conn' = Closed
               /\ UNCHANGED work
            \/ /\ ~Current
               /\ session' = s
               /\ conn' = Closed
               /\ work' = [Free EXCEPT !.phase = "metadata"]
    /\ UNCHANGED <<disk, producer, caller, queue, history>>

MetadataEnds ==
    /\ work.phase = "metadata"
    /\ LET a == Attach(session, producer) IN
       \/ /\ work.elapsed < Handshake /\ a.error = "none"
          /\ session' = a.session /\ conn' = Opened(Handshaken(producer))
       \/ /\ work.elapsed < Handshake /\ a.error # "none"
          /\ session' = Fail(a.session, a.error) /\ conn' = Closed
       \/ \E reason \in {"peer-refused", "attachment-timeout"} :
            session' = Fail(session, reason) /\ conn' = Closed
       \/ UNCHANGED <<session, conn>>  \* its HTTP request was dropped
    /\ work' = Free
    /\ UNCHANGED <<disk, producer, caller, queue, history>>

\* The timer spawned at publication locks the session once the capture is old.
ExpiryTimer ==
    /\ work.phase = "none" /\ session.latest.age >= Expiry
    /\ session' = Expire(session)
    /\ UNCHANGED <<disk, producer, conn, caller, queue, work, history>>

-----------------------------------------------------------------------------
(* The environment: the disk, the producer, time. *)

DiskChanges ==
    /\ \E id \in (Identities \cup {NoIdentity}) \ {disk} : disk' = id
    /\ UNCHANGED <<producer, session, conn, caller, queue, work, history>>

ProducerRestarts ==
    /\ producer < MaxIncarnation
    /\ producer' = producer + 1
    /\ UNCHANGED <<disk, session, conn, caller, queue, work, history>>

UpTo(n, cap) == IF n >= cap THEN cap ELSE n + 1

Aged(e) == IF e = NoEvidence THEN e
           ELSE [e EXCEPT !.age = UpTo(e.age, AgeCap), !.published = UpTo(e.published, AgeCap)]

Older(s) == [s EXCEPT !.sinceStart = UpTo(s.sinceStart, Floor), !.latest = Aged(s.latest)]

TimerDue ==
    \/ \E c \in Observers : caller[c].age >= Deadline
    \/ work.phase = "floor" /\ session.sinceStart >= Floor
    \/ work.phase \in {"attach", "metadata"} /\ work.elapsed >= Handshake
    \/ work.phase = "scan" /\ work.elapsed >= ScanLimit

Tick ==
    /\ ~TimerDue
    /\ session' = Older(session)
    /\ caller' = [c \in Callers |-> IF c \in Observers
                                    THEN [caller[c] EXCEPT !.age = UpTo(@, Deadline)]
                                    ELSE caller[c]]
    /\ work' = IF work.phase \in {"attach", "metadata", "scan"}
               THEN [work EXCEPT !.elapsed = @ + 1] ELSE work
    /\ sinceScan' = UpTo(sinceScan, Floor)
    /\ UNCHANGED <<disk, producer, conn, queue, consumed, retried>>

\* conservative_clock: a suspension or a step of the wall clock adds EXPIRY to every
\* age.  (The requests it finds waiting then fail by their own deadline: Leave.)
ClockJumps ==
    /\ session.latest # NoEvidence
    /\ session' = [session EXCEPT !.latest.age = AgeCap, !.latest.published = AgeCap]
    /\ UNCHANGED <<disk, producer, conn, caller, queue, work, history>>

Next ==
    \/ \E c \in Callers : (\E k \in Kinds : Request(c, k)) \/ Leave(c) \/ BodyDropped(c)
    \/ Acquire \/ Answer \/ Release
    \/ FloorPassed \/ HandshakeEnds \/ ScanTimesOut \/ Cancel
    \/ \E f \in Frames : Receive(f)
    \/ Metadata \/ MetadataEnds \/ ExpiryTimer
    \/ DiskChanges \/ ProducerRestarts \/ Tick \/ ClockJumps

Spec == Init /\ [][Next]_vars

-----------------------------------------------------------------------------
(* Properties *)

\* The reservations of everything alive, as the shared budget counts them.
Count(b) == IF b THEN 1 ELSE 0
Assembling(d) == d.assembly # NoAssembly
Reserved ==
    FixedCharge + ResponseCharge * Cardinality(Holding)
      + DecoderCharge * (Count(conn.open) + Count(work.phase \in {"attach", "metadata", "scan"}))
      + CaptureCharge * (Count(session.latest # NoEvidence)
                           + Count(conn.open /\ Assembling(conn.decoder))
                           + Count(work.phase = "scan" /\ Assembling(work.decoder)))

\* Whatever is alive, the next admission, attachment or header finds its reservation
\* within the ceiling: the budget never refuses what the permits admit (memory.rs
\* reserve; the limits of the documentation's table).
ReservationsAlwaysFit ==
    /\ Cardinality(Holding) < Requests => Reserved + ResponseCharge <= Ceiling
    /\ work.phase \in {"attach", "metadata"} => Reserved <= Ceiling
    /\ work.phase = "scan" =>
         \A f \in Frames : (f.kind = "scan_header" /\ AcceptHeader(work.decoder, f).error = "none")
                             => Reserved + CaptureCharge <= Ceiling

Answered(c) == caller[c].pc # "responding" /\ caller'[c].pc = "responding"

\* Evidence of EXPIRY or more is in no answer, however long the refresh, the wait for
\* the lock or a suspension was (session.rs observe, expire, refresh_demand).
AnswersAreFresh ==
    [][\A c \in Callers : Answered(c) => session'.latest.age < Expiry]_vars

\* An answer that does not say its refresh failed meets what its caller asked for: a
\* scan that started after the request, or one published since or within the cadence;
\* whoever's scan it was (session.rs observe: shared captures).
AnswerMeetsDemand ==
    [][\A c \in Callers :
         (Answered(c) /\ session'.latest # NoEvidence /\ ~session'.failed) =>
            IF caller[c].kind = "after_request" THEN session'.latest.age <= caller[c].age
            ELSE \/ session'.latest.published <= caller[c].age
                 \/ session'.latest.age + Slack <= Cadence]_vars

\* Scan requests are FLOOR apart, also when the one before was cancelled, failed or
\* asked for on another connection (session.rs refresh_demand, last_start).
ScansAreApart ==
    [][work.phase # "scan" /\ work'.phase = "scan" => sinceScan >= Floor]_vars

\* The session goes over to another incarnation of the producer only on a retry that
\* was made after evidence was last served (session.rs connect, accept_incarnation_change).
RestartNeedsRetry ==
    [][session.incarnation \notin {0, session'.incarnation} => retried]_vars

Promise == INSTANCE ObservationPromise WITH
    Incarnation <- Incarnations, MaxScan <- MaxSequence, used <- consumed,
    held <- [incarnation |-> session.latest.incarnation,
             sequence |-> session.latest.sequence, age |-> session.latest.age]

\* The broker implements the promise: every scan consumes a sequence number that no
\* scan before it had, across cancelled scans and reconnections; only the last one
\* consumed is published, and what is held only ages until it is dropped or replaced.
KeepsObservationPromise == Promise!Spec
=============================================================================
