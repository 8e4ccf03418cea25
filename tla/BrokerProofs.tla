------------------------------ MODULE BrokerProofs -----------------------------
(********************************************************************************)
(* Proofs about the observation broker, for any number of callers and permits,  *)
(* any durations of its limits, and a producer that restarts and sends what it  *)
(* likes.                                                                       *)
(********************************************************************************)
EXTENDS ObservationBroker, FiniteSetTheorems, SequenceTheorems, TLAPS

Session == [identity : Identities \cup {NoIdentity},
            latest : [incarnation : 0..MaxIncarnation, sequence : 0..MaxSequence,
                      age : 0..AgeCap, published : 0..AgeCap],
            sinceStart : 0..Floor, refusal : Refusals \cup {"none"},
            incarnation : 0..MaxIncarnation, sequence : 0..MaxSequence,
            accept : BOOLEAN, failed : BOOLEAN]

-----------------------------------------------------------------------------
(* The inductive invariant, besides types. *)

\* What a session says of itself: a refusal leaves no evidence, nor does a change of incarnation
\* that is accepted but not made, and evidence is of the incarnation attached to and of a sequence
\* that is no longer to be had.
Coherent(s) ==
    /\ s.refusal # "none" => s.latest = NoEvidence
    /\ s.accept => s.latest = NoEvidence
    /\ s.latest # NoEvidence =>
         /\ s.incarnation # 0
         /\ s.latest.incarnation = s.incarnation
         /\ s.latest.sequence <= s.sequence

SessionInv ==
    /\ Coherent(session)
    /\ session.accept => retried
    /\ session.incarnation <= producer
    /\ session.sinceStart = sinceScan

\* The session knows of every sequence consumed, but for those of a scan under way, which its
\* decoder knows; of incarnations to come nothing is consumed.
ConsumedInv ==
    /\ \A i \in Incarnations : i > session.incarnation => consumed[i] = 0
    /\ (session.incarnation # 0 /\ work.phase # "scan") =>
         consumed[session.incarnation] <= session.sequence

\* One decoder: an idle connection is not assembling, and is given up by whoever refreshes.
ConnectionInv ==
    /\ conn.open => ~Assembling(conn.decoder)
    /\ work.phase \in {"attach", "metadata", "scan"} => ~conn.open

\* A scan is of the session's incarnation, and what it assembles is its latest sequence, which
\* the session has not seen.
ScanInv ==
    work.phase = "scan" =>
      LET d == work.decoder IN
      /\ ~session.accept
      /\ d.incarnation = session.incarnation
      /\ session.sequence <= d.sequence
      /\ consumed[d.incarnation] <= d.sequence
      /\ Assembling(d) =>
           /\ d.assembly.sequence = d.sequence
           /\ consumed[d.incarnation] = d.sequence
           /\ session.sequence < d.sequence

\* Whoever has the lock.
WorkInv ==
    /\ work.phase \in {"none", "metadata"} => work.by = Nobody
    /\ work.by # Nobody => caller[work.by].pc = "refreshing"
    /\ work.phase \in {"floor", "attach", "scan", "metadata"} => session.refusal = "none"
    /\ work.phase = "attach" => session.sinceStart >= Floor

\* Whoever waits for the lock waits once.
QueueInv ==
    /\ \A i \in DOMAIN queue : caller[queue[i]].pc = "queued"
    /\ \A i, j \in DOMAIN queue : queue[i] = queue[j] => i = j

\* A refresh serves the one who asked for it: its scan is younger than the request.
DemandInv ==
    work.by # Nobody =>
      /\ work.phase = "scan" => work.elapsed <= caller[work.by].age
      /\ (work.phase = "done" /\ ~session.failed /\ session.latest # NoEvidence) =>
           \/ session.latest.age >= Expiry
           \/ /\ session.latest.age <= caller[work.by].age
              /\ session.latest.published <= caller[work.by].age

\* No more requests are held than there are permits.
PermitInv == IsFiniteSet(Holding) /\ Cardinality(Holding) <= Requests

BrokerInv ==
    /\ TypeOK /\ SessionInv /\ ConsumedInv /\ ConnectionInv /\ ScanInv /\ WorkInv /\ QueueInv
    /\ DemandInv /\ PermitInv

-----------------------------------------------------------------------------
(* The decoder. *)

LEMMA HandshakenIsADecoder ==
    ASSUME NEW i \in Incarnations
    PROVE  /\ Handshaken(i) \in Decoder
           /\ Handshaken(i).incarnation = i
           /\ ~Assembling(Handshaken(i))
BY WireAssumption DEF Handshaken, Decoder, NoAssembly, Assembling, Incarnations

LEMMA ScanBegins ==
    ASSUME NEW d \in Decoder, ~Assembling(d), NEW n \in 0..MaxSequence
    PROVE  LET b == BeginScan(SetSequenceFloor(d, n)) IN
           /\ b \in Decoder /\ ~Assembling(b)
           /\ b.incarnation = d.incarnation
           /\ n <= b.sequence
<1> USE WireAssumption DEF Decoder, Assembling
<1>1. PICK m \in 0..MaxSequence : n <= m /\ SetSequenceFloor(d, n) = [d EXCEPT !.sequence = m]
  <2>1. CASE n > d.sequence
    BY <2>1 DEF SetSequenceFloor
  <2>2. CASE ~(n > d.sequence)
    BY <2>2 DEF SetSequenceFloor
  <2>3. QED
    BY <2>1, <2>2
<1>2. BeginScan(SetSequenceFloor(d, n)) = [[d EXCEPT !.sequence = m] EXCEPT !.requested = TRUE]
  BY <1>1 DEF BeginScan
<1>3. QED
  BY <1>1, <1>2

\* A frame is refused, begins an assembly with a sequence above all before, continues one, or
\* completes it.
Begins(d, r) ==
    /\ ~Assembling(d) /\ Assembling(r.decoder) /\ r.capture = 0
    /\ r.decoder.assembly.sequence = r.decoder.sequence
    /\ d.sequence < r.decoder.sequence

Continues(d, r) ==
    /\ Assembling(d) /\ Assembling(r.decoder) /\ r.capture = 0
    /\ r.decoder.assembly.sequence = d.assembly.sequence
    /\ r.decoder.sequence = d.sequence

Completes(d, r) ==
    /\ Assembling(d) /\ ~Assembling(r.decoder)
    /\ r.capture = d.assembly.sequence
    /\ r.decoder.sequence = d.sequence

LEMMA AcceptedFrames ==
    ASSUME NEW d \in Decoder, NEW f \in Frames
    PROVE  LET r == Accept(d, f) IN
           /\ r.decoder \in Decoder
           /\ r.decoder.incarnation = d.incarnation
           /\ r.error # "none" => r.decoder.sequence = d.sequence
           /\ r.error = "none" => Begins(d, r) \/ Continues(d, r) \/ Completes(d, r)
<1> USE WireAssumption DEF Incarnations, Sequences
<1>1. CASE f \in ScanHeaders
  <2> DEFINE assembly == [sequence |-> f.sequence, records |-> 0]
             numbered == [d EXCEPT !.sequence = f.sequence]
             begun    == [numbered EXCEPT !.assembly = assembly]
  <2>1. /\ Accept(d, f) = AcceptHeader(d, f)
        /\ f.sequence \in Sequences
    BY <1>1 DEF Accept, ScanHeaders
  <2>2. /\ numbered \in Decoder /\ numbered.sequence = f.sequence
        /\ numbered.incarnation = d.incarnation
    BY <2>1 DEF Decoder
  <2>3. assembly \in [sequence : 0..MaxSequence, records : 0..RecordLimit] /\ assembly # NoAssembly
    BY <2>1 DEF NoAssembly
  <2>4. /\ begun \in Decoder /\ begun.sequence = f.sequence /\ begun.incarnation = d.incarnation
        /\ begun.assembly = assembly
    <3> HIDE DEF numbered, assembly
    <3>1. QED
      BY <2>2, <2>3 DEF Decoder
  <2>5. CASE d.assembly # NoAssembly \/ ~d.requested \/ f.incarnation # d.incarnation
               \/ f.sequence <= d.sequence
    BY <2>1, <2>5 DEF AcceptHeader, Refused
  <2>6. CASE ~(d.assembly # NoAssembly \/ ~d.requested \/ f.incarnation # d.incarnation
                 \/ f.sequence <= d.sequence)
    <3>1. AcceptHeader(d, f) = Taken(begun)
      BY <2>6 DEF AcceptHeader
    <3>2. d.sequence < f.sequence
      BY <2>1, <2>6 DEF Decoder
    <3>3. QED
      <4> HIDE DEF begun
      <4>1. QED
        BY <2>1, <2>3, <2>4, <2>6, <3>1, <3>2 DEF Taken, Begins, Assembling
  <2>7. QED
    BY <2>5, <2>6
<1>2. CASE f \in PageRecords \cup ScanFooters
  <2> DEFINE longer    == [d.assembly EXCEPT !.records = @ + 1]
             continued == [d EXCEPT !.assembly = longer]
             closed    == [d EXCEPT !.assembly = NoAssembly]
             completed == [closed EXCEPT !.requested = FALSE]
  <2>1. Accept(d, f) = AcceptBody(d, f)
    BY <1>2 DEF Accept, PageRecords, ScanFooters
  <2>2. d.assembly \in [sequence : 0..MaxSequence, records : 0..RecordLimit]
    BY DEF Decoder
  <2>3. \/ /\ AcceptBody(d, f).decoder = d /\ AcceptBody(d, f).error # "none"
        \/ /\ AcceptBody(d, f) = Taken(continued)
           /\ d.assembly # NoAssembly /\ d.assembly.records # RecordLimit
        \/ /\ AcceptBody(d, f) = [decoder |-> completed, capture |-> d.assembly.sequence, error |-> "none"]
           /\ d.assembly # NoAssembly
    <3>1. CASE d.assembly = NoAssembly
      BY <3>1 DEF AcceptBody, Refused
    <3>2. CASE d.assembly # NoAssembly /\ f.incarnation # d.incarnation
      BY <3>2 DEF AcceptBody, Refused
    <3>3. CASE /\ d.assembly # NoAssembly /\ f.incarnation = d.incarnation
               /\ f.sequence # d.assembly.sequence
      BY <3>3 DEF AcceptBody, Refused
    <3>4. CASE /\ d.assembly # NoAssembly /\ f.incarnation = d.incarnation
               /\ f.sequence = d.assembly.sequence /\ f.kind = "page"
      BY <3>4 DEF AcceptBody, Refused
    <3>5. CASE /\ d.assembly # NoAssembly /\ f.incarnation = d.incarnation
               /\ f.sequence = d.assembly.sequence /\ f.kind # "page"
      BY <3>5 DEF AcceptBody, Refused
    <3>6. QED
      BY <3>1, <3>2, <3>3, <3>4, <3>5
  <2>4. CASE AcceptBody(d, f).decoder = d /\ AcceptBody(d, f).error # "none"
    BY <2>1, <2>4
  <2>5. CASE /\ AcceptBody(d, f) = Taken(continued)
             /\ d.assembly # NoAssembly /\ d.assembly.records # RecordLimit
    <3>1. /\ longer \in [sequence : 0..MaxSequence, records : 0..RecordLimit]
          /\ longer.sequence = d.assembly.sequence /\ longer # NoAssembly
      BY <2>2, <2>5 DEF NoAssembly
    <3>2. /\ continued \in Decoder /\ continued.incarnation = d.incarnation
          /\ continued.sequence = d.sequence /\ continued.assembly = longer
      <4> HIDE DEF longer
      <4>1. QED
        BY <3>1 DEF Decoder
    <3>3. QED
      <4> HIDE DEF continued, longer
      <4>1. QED
        BY <2>1, <2>5, <3>1, <3>2 DEF Taken, Continues, Assembling
  <2>6. CASE /\ AcceptBody(d, f) = [decoder |-> completed, capture |-> d.assembly.sequence,
                                    error |-> "none"]
             /\ d.assembly # NoAssembly
    <3>1. /\ closed \in Decoder /\ closed.incarnation = d.incarnation
          /\ closed.sequence = d.sequence /\ closed.assembly = NoAssembly
      BY DEF Decoder, NoAssembly
    <3>2. /\ completed \in Decoder /\ completed.incarnation = d.incarnation
          /\ completed.sequence = d.sequence /\ completed.assembly = NoAssembly
      <4> HIDE DEF closed
      <4>1. QED
        BY <3>1 DEF Decoder
    <3>3. QED
      <4> HIDE DEF completed
      <4>1. QED
        BY <2>1, <2>6, <3>2 DEF Completes, Assembling
  <2>7. QED
    BY <2>3, <2>4, <2>5, <2>6
<1>3. CASE f \in ErrorFrames \cup MalformedFrames
  BY <1>3 DEF Accept, ErrorFrames, MalformedFrames, Refused, Decoder
<1>4. QED
  BY <1>1, <1>2, <1>3 DEF Frames

-----------------------------------------------------------------------------
(* The pure steps of the session. *)

LEMMA NoEvidenceIsEvidence ==
    NoEvidence \in [incarnation : 0..MaxIncarnation, sequence : 0..MaxSequence,
                    age : 0..AgeCap, published : 0..AgeCap]
BY WireAssumption, BrokerAssumption DEF NoEvidence, AgeCap

\* Steps that do no more than discard the evidence.
Discards(s, t) ==
    /\ t \in Session /\ Coherent(t)
    /\ t.latest \in {s.latest, NoEvidence}
    /\ t.incarnation = s.incarnation /\ t.sequence = s.sequence
    /\ t.sinceStart = s.sinceStart /\ t.accept = s.accept

LEMMA SessionDiscards ==
    ASSUME NEW s \in Session, Coherent(s)
    PROVE  /\ Discards(s, Expire(s))
           /\ Discards(s, BeforeRefresh(s))
           /\ \A reason : Discards(s, Fail(s, reason))
           /\ \A id \in Identities \cup {NoIdentity} : Discards(s, Bind(s, id))
<1> USE NoEvidenceIsEvidence DEF Discards, Coherent, Session
<1>1. Discards(s, Expire(s)) /\ Discards(s, BeforeRefresh(s))
  BY DEF Expire, BeforeRefresh
<1>2. ASSUME NEW reason PROVE Discards(s, Fail(s, reason))
  <2>1. CASE reason \in Refusals
    <3> DEFINE t == [s EXCEPT !.failed = TRUE, !.latest = NoEvidence, !.refusal = reason]
    <3>1. t \in Session
      BY <2>1
    <3>2. Discards(s, t)
      BY <2>1, <3>1
    <3>3. QED
      BY <2>1, <3>2 DEF Fail
  <2>2. CASE reason \notin Refusals
    BY <2>2 DEF Fail
  <2>3. QED
    BY <2>1, <2>2
<1>3. ASSUME NEW id \in Identities \cup {NoIdentity} PROVE Discards(s, Bind(s, id))
  <2>1. CASE Mismatched(s, id)
    <3> DEFINE t == [s EXCEPT !.identity = id, !.latest = NoEvidence, !.refusal = "identity-mismatch"]
    <3>1. t \in Session
      BY DEF Refusals
    <3>2. Discards(s, t)
      BY <3>1
    <3>3. QED
      BY <2>1, <3>2 DEF Bind
  <2>2. CASE ~Mismatched(s, id)
    BY <2>2 DEF Bind
  <2>3. QED
    BY <2>1, <2>2
<1>4. QED
  BY <1>1, <1>2, <1>3

\* A retry accepts another incarnation only of a session that refuses.
LEMMA LiftAccepts ==
    ASSUME NEW s \in Session, Coherent(s), NEW kind
    PROVE  LET t == Lift(s, kind) IN
           /\ t \in Session /\ Coherent(t)
           /\ t.latest = s.latest /\ t.identity = s.identity
           /\ t.incarnation = s.incarnation /\ t.sequence = s.sequence
           /\ t.sinceStart = s.sinceStart
           /\ \/ t = s
              \/ kind = "retry" /\ t.refusal = "none" /\ t.latest = NoEvidence
BY DEF Lift, Coherent, Session

\* The connection is attached to an incarnation, or nothing but evidence changes.
LEMMA AttachJoins ==
    ASSUME NEW s \in Session, Coherent(s), NEW i \in Incarnations
    PROVE  LET a == Attach(s, i) t == a.session IN
           /\ t \in Session /\ Coherent(t)
           /\ t.latest \in {s.latest, NoEvidence}
           /\ t.sinceStart = s.sinceStart /\ t.refusal = s.refusal
           /\ a.error # "none" => /\ t.incarnation = s.incarnation /\ t.sequence = s.sequence
                                  /\ t.accept = s.accept
           /\ a.error = "none" =>
                /\ t.incarnation = i /\ ~t.accept
                /\ t.sequence = IF s.incarnation \notin {0, i} THEN 0 ELSE s.sequence
                /\ s.incarnation \notin {0, i} => s.accept
<1> DEFINE changed == s.incarnation \notin {0, i}
           known == [s EXCEPT !.latest = IF changed THEN NoEvidence ELSE s.latest]
           numbered == [known EXCEPT !.sequence = IF changed THEN 0 ELSE s.sequence]
           joined == [numbered EXCEPT !.incarnation = i]
           attached == [joined EXCEPT !.accept = FALSE]
<1> USE WireAssumption, NoEvidenceIsEvidence
<1>1. /\ known \in Session
      /\ known.latest = IF changed THEN NoEvidence ELSE s.latest
      /\ known.sinceStart = s.sinceStart /\ known.refusal = s.refusal
      /\ known.incarnation = s.incarnation /\ known.sequence = s.sequence
      /\ known.accept = s.accept
  <2>1. CASE changed
    BY <2>1 DEF Session
  <2>2. CASE ~changed
    BY <2>2 DEF Session
  <2>3. QED
    BY <2>1, <2>2
<1>2. /\ numbered \in Session
      /\ numbered.latest = known.latest /\ numbered.sinceStart = s.sinceStart
      /\ numbered.refusal = s.refusal
      /\ numbered.sequence = IF changed THEN 0 ELSE s.sequence
  <2> HIDE DEF known
  <2>1. CASE changed
    BY <1>1, <2>1 DEF Session
  <2>2. CASE ~changed
    BY <1>1, <2>2 DEF Session
  <2>3. QED
    BY <2>1, <2>2
<1>3. /\ joined \in Session
      /\ joined.latest = known.latest /\ joined.sinceStart = s.sinceStart
      /\ joined.refusal = s.refusal /\ joined.sequence = numbered.sequence
      /\ joined.incarnation = i
  <2> HIDE DEF known, numbered
  <2>1. QED
    BY <1>2 DEF Session, Incarnations
<1>4. /\ attached \in Session
      /\ attached.latest = known.latest /\ attached.sinceStart = s.sinceStart
      /\ attached.refusal = s.refusal /\ attached.sequence = numbered.sequence
      /\ attached.incarnation = i /\ ~attached.accept
  <2> HIDE DEF known, numbered, joined
  <2>1. QED
    BY <1>3 DEF Session
<1>5. \/ Attach(s, i) = [session |-> s, error |-> "identity-mismatch"]
      \/ Attach(s, i) = [session |-> known, error |-> "incarnation-changed"] /\ changed
      \/ Attach(s, i) = [session |-> attached, error |-> "none"] /\ (changed => s.accept)
  BY DEF Attach, Session
<1>6. QED
  <2> HIDE DEF known, numbered, joined, attached
  <2>1. CASE Attach(s, i) = [session |-> s, error |-> "identity-mismatch"]
    BY <2>1
  <2>2. CASE Attach(s, i) = [session |-> known, error |-> "incarnation-changed"] /\ changed
    BY <1>1, <2>2 DEF Coherent
  <2>3. CASE Attach(s, i) = [session |-> attached, error |-> "none"] /\ (changed => s.accept)
    BY <1>1, <1>2, <1>4, <2>3 DEF Coherent, Incarnations
  <2>4. QED
    BY <1>5, <2>1, <2>2, <2>3

\* Whatever way a scan ends, the session knows of the sequence its decoder knows of.
LEMMA LeaseCounts ==
    ASSUME NEW s \in Session, Coherent(s), NEW d \in Decoder
    PROVE  LET t == LeaseDropped(s, d) IN
           /\ t \in Session /\ Coherent(t)
           /\ t.sequence >= s.sequence /\ t.sequence >= d.sequence
           /\ t.sequence \in {s.sequence, d.sequence}
           /\ t.incarnation = s.incarnation /\ t.sinceStart = s.sinceStart
           /\ t.accept = s.accept /\ t.latest = s.latest /\ t.refusal = s.refusal
<1>1. CASE d.sequence > s.sequence
  BY <1>1, WireAssumption DEF LeaseDropped, Coherent, Session, Decoder
<1>2. CASE ~(d.sequence > s.sequence)
  BY <1>2, WireAssumption DEF LeaseDropped, Coherent, Session, Decoder
<1>3. QED
  BY <1>1, <1>2

LEMMA SessionAges ==
    ASSUME NEW s \in Session, Coherent(s)
    PROVE  LET t == Older(s) IN
           /\ t \in Session /\ Coherent(t)
           /\ t.incarnation = s.incarnation /\ t.sequence = s.sequence
           /\ t.accept = s.accept /\ t.refusal = s.refusal /\ t.failed = s.failed
           /\ t.sinceStart = UpTo(s.sinceStart, Floor)
           /\ t.latest = Aged(s.latest)
           /\ s.latest = NoEvidence => t.latest = NoEvidence
           /\ s.latest # NoEvidence =>
                /\ t.latest.incarnation = s.latest.incarnation
                /\ t.latest.sequence = s.latest.sequence
                /\ t.latest.age = UpTo(s.latest.age, AgeCap)
                /\ t.latest.published = UpTo(s.latest.published, AgeCap)
<1> DEFINE older == [s EXCEPT !.sinceStart = UpTo(s.sinceStart, Floor)]
<1> USE WireAssumption, BrokerAssumption, NoEvidenceIsEvidence
<1>1. /\ UpTo(s.latest.age, AgeCap) \in 0..AgeCap
      /\ UpTo(s.latest.published, AgeCap) \in 0..AgeCap
      /\ UpTo(s.sinceStart, Floor) \in 0..Floor
  BY DEF UpTo, Session, AgeCap
<1>2. /\ Aged(s.latest) \in [incarnation : 0..MaxIncarnation, sequence : 0..MaxSequence,
                             age : 0..AgeCap, published : 0..AgeCap]
      /\ s.latest = NoEvidence => Aged(s.latest) = NoEvidence
      /\ s.latest # NoEvidence =>
           /\ Aged(s.latest).incarnation = s.latest.incarnation
           /\ Aged(s.latest).sequence = s.latest.sequence
           /\ Aged(s.latest).age = UpTo(s.latest.age, AgeCap)
           /\ Aged(s.latest).published = UpTo(s.latest.published, AgeCap)
  BY <1>1 DEF Aged, Session
<1>3. /\ older \in Session
      /\ older.incarnation = s.incarnation /\ older.sequence = s.sequence
      /\ older.accept = s.accept /\ older.refusal = s.refusal /\ older.failed = s.failed
      /\ older.sinceStart = UpTo(s.sinceStart, Floor)
  BY <1>1 DEF Session
<1>4. Older(s) = [older EXCEPT !.latest = Aged(s.latest)]
  BY DEF Session, Older
<1>5. /\ Older(s) \in Session
      /\ Older(s).incarnation = s.incarnation /\ Older(s).sequence = s.sequence
      /\ Older(s).accept = s.accept /\ Older(s).refusal = s.refusal /\ Older(s).failed = s.failed
      /\ Older(s).sinceStart = UpTo(s.sinceStart, Floor)
      /\ Older(s).latest = Aged(s.latest)
  <2> HIDE DEF older
  <2>1. QED
    BY <1>2, <1>3, <1>4 DEF Session
<1>6. QED
  BY <1>2, <1>5 DEF Coherent

-----------------------------------------------------------------------------
(* What callers do. *)

Call == [pc : {"idle", "queued", "refreshing", "responding"}, kind : Kinds,
         identity : Identities \cup {NoIdentity}, age : 0..Deadline]

LEMMA AwayIsACall ==
    /\ Away \in Call
    /\ \A pc \in {"idle", "queued", "refreshing", "responding"} :
         /\ [Away EXCEPT !.pc = pc] \in Call
         /\ [Away EXCEPT !.pc = pc].pc = pc
BY BrokerAssumption DEF Away, Call, Kinds

Work == [phase : {"none", "floor", "attach", "scan", "done", "metadata"},
         by : Callers \cup {Nobody}, elapsed : 0..ScanLimit, decoder : Decoder]

LEMMA FreeIsWork ==
    /\ NoConnection \in Decoder /\ ~Assembling(NoConnection)
    /\ Free \in Work /\ Free.phase = "none" /\ Free.by = Nobody /\ Free.elapsed = 0
<1>1. NoConnection \in Decoder /\ ~Assembling(NoConnection)
  BY HandshakenIsADecoder, WireAssumption DEF NoConnection, Incarnations
<1>2. 0 \in 0..ScanLimit
  BY BrokerAssumption
<1>3. QED
  BY <1>1, <1>2 DEF Free, Work

\* A permit is taken by a request only, which finds one.
LEMMA PermitsAreKept ==
    ASSUME BrokerInv,
           \A c \in Callers : caller'[c].pc # "idle" => caller[c].pc # "idle"
    PROVE  PermitInv'
<1>1. Holding' \subseteq Holding
  BY DEF Holding
<1>2. IsFiniteSet(Holding) /\ Cardinality(Holding) <= Requests
  BY DEF BrokerInv, PermitInv
<1>3. IsFiniteSet(Holding') /\ Cardinality(Holding') <= Cardinality(Holding)
  BY <1>1, <1>2, FS_Subset
<1>4. Cardinality(Holding) \in Nat /\ Cardinality(Holding') \in Nat /\ Requests \in Nat
  BY <1>2, <1>3, FS_CardinalityType, BrokerAssumption
<1>5. QED
  BY <1>2, <1>3, <1>4 DEF PermitInv

\* A step of callers that does not touch what the lock protects.
LEMMA CallersKeep ==
    ASSUME BrokerInv,
           UNCHANGED <<disk, producer, session, conn, history>>,
           caller' \in [Callers -> Call], queue' \in Seq(Callers), QueueInv', PermitInv',
           \/ work' = work /\ (work.by # Nobody => caller'[work.by] = caller[work.by])
           \/ /\ work' = [work EXCEPT !.by = Nobody]
           \/ /\ work' = Free
              /\ work.phase # "scan"
    PROVE  BrokerInv'
<1> USE DEF history
<1>1. Free \in Work /\ Free.phase = "none" /\ Free.by = Nobody
  BY FreeIsWork
<1>2. /\ work' \in Work
      /\ \/ /\ work'.phase = work.phase /\ work'.elapsed = work.elapsed
            /\ work'.decoder = work.decoder
         \/ work' = Free /\ work.phase # "scan"
      /\ work'.by # Nobody => work'.by = work.by /\ work' = work /\ caller'[work.by] = caller[work.by]
  <2>1. CASE work' = work /\ (work.by # Nobody => caller'[work.by] = caller[work.by])
    BY <2>1 DEF BrokerInv, TypeOK, Work
  <2>2. CASE work' = [work EXCEPT !.by = Nobody]
    BY <2>2 DEF BrokerInv, TypeOK, Work
  <2>3. CASE work' = Free /\ work.phase # "scan"
    BY <1>1, <2>3
  <2>4. QED
    BY <2>1, <2>2, <2>3
<1>3. TypeOK'
  BY <1>2 DEF BrokerInv, TypeOK, Call, Work
<1>4. SessionInv' /\ ConsumedInv'
  BY <1>1, <1>2 DEF BrokerInv, SessionInv, ConsumedInv
<1>5. ConnectionInv'
  BY <1>1, <1>2 DEF BrokerInv, ConnectionInv
<1>6. ScanInv'
  <2> SUFFICES ASSUME work'.phase = "scan"
               PROVE  ScanInv'
    BY DEF ScanInv
  <2>1. work.phase = "scan" /\ work'.decoder = work.decoder
    BY <1>1, <1>2
  <2>2. QED
    BY <2>1 DEF BrokerInv, ScanInv
<1>7. WorkInv'
  BY <1>1, <1>2 DEF BrokerInv, WorkInv
<1>8. DemandInv'
  BY <1>2 DEF BrokerInv, DemandInv
<1>9. QED
  BY <1>3, <1>4, <1>5, <1>6, <1>7, <1>8 DEF BrokerInv

LEMMA RequestKeeps ==
    ASSUME BrokerInv, NEW c \in Callers, NEW k \in Kinds, Request(c, k)
    PROVE  BrokerInv'
<1> DEFINE call == [Away EXCEPT !.pc = "queued", !.kind = k, !.identity = disk]
<1>1. call \in Call /\ call.pc = "queued"
  <2> DEFINE queued == [Away EXCEPT !.pc = "queued"]
             asked == [queued EXCEPT !.kind = k]
  <2>1. queued \in Call /\ queued.pc = "queued"
    BY AwayIsACall
  <2>2. asked \in Call /\ asked.pc = "queued"
    <3> HIDE DEF queued
    <3>1. QED
      BY <2>1 DEF Call
  <2>3. disk \in Identities \cup {NoIdentity} /\ call = [asked EXCEPT !.identity = disk]
    BY DEF BrokerInv, TypeOK
  <2>4. QED
    <3> HIDE DEF asked, call
    <3>1. QED
      BY <2>2, <2>3 DEF Call
<1>2. /\ caller' \in [Callers -> Call] /\ caller'[c].pc = "queued"
      /\ \A b \in Callers \ {c} : caller'[b] = caller[b]
  <2>1. caller' = [caller EXCEPT ![c] = call]
    BY DEF Request
  <2> HIDE DEF call
  <2>2. QED
    BY <1>1, <2>1 DEF BrokerInv, TypeOK, Call
<1>3. queue' \in Seq(Callers)
  BY DEF Request, BrokerInv, TypeOK
<1>4. PermitInv'
  <2>1. Holding' = Holding \cup {c} /\ c \notin Holding
    <3>1. /\ Holding' = {b \in Callers : caller'[b].pc # "idle"}
          /\ caller[c].pc = "idle"
      BY DEF Holding, Request
    <3>2. QED
      BY <1>2, <3>1 DEF Holding
  <2>2. IsFiniteSet(Holding) /\ Cardinality(Holding) < Requests
    BY DEF Request, BrokerInv, PermitInv
  <2>3. IsFiniteSet(Holding') /\ Cardinality(Holding') = Cardinality(Holding) + 1
    BY <2>1, <2>2, FS_AddElement
  <2>4. Cardinality(Holding) \in Nat /\ Requests \in Nat
    BY <2>2, FS_CardinalityType, BrokerAssumption
  <2>5. QED
    BY <2>2, <2>3, <2>4 DEF PermitInv
<1>5. work' = work /\ (work.by # Nobody => caller'[work.by] = caller[work.by])
  BY DEF Request, BrokerInv, TypeOK, WorkInv
<1>6. QueueInv'
  <2>1. /\ DOMAIN queue' = 1 .. Len(queue) + 1 /\ queue'[Len(queue) + 1] = c
        /\ \A i \in 1 .. Len(queue) : queue'[i] = queue[i] /\ i \in DOMAIN queue
        /\ caller[c].pc = "idle"
    BY DEF Request, BrokerInv, TypeOK
  <2>2. \A i \in 1 .. Len(queue) : queue[i] # c /\ queue[i] \in Callers
    BY <2>1 DEF BrokerInv, QueueInv, TypeOK
  <2>3. \A i \in 1 .. Len(queue) + 1 : caller'[queue'[i]].pc = "queued"
    <3> TAKE i \in 1 .. Len(queue) + 1
    <3>1. CASE i = Len(queue) + 1
      BY <1>2, <2>1, <3>1
    <3>2. CASE i # Len(queue) + 1
      <4>1. i \in 1 .. Len(queue)
        BY <3>2 DEF BrokerInv, TypeOK
      <4>2. QED
        BY <1>2, <2>1, <2>2, <4>1 DEF BrokerInv, QueueInv
    <3>3. QED
      BY <3>1, <3>2
  <2>4. \A i, j \in 1 .. Len(queue) + 1 : queue'[i] = queue'[j] => i = j
    <3>1. \A i, j \in 1 .. Len(queue) : queue[i] = queue[j] => i = j
      BY <2>1 DEF BrokerInv, QueueInv
    <3>2. Len(queue) \in Nat
      BY DEF BrokerInv, TypeOK
    <3>3. QED
      BY <2>1, <2>2, <3>1, <3>2
  <2>5. QED
    BY <2>1, <2>3, <2>4 DEF QueueInv
<1>7. QED
  BY <1>2, <1>3, <1>4, <1>5, <1>6, CallersKeep DEF Request

\* What becomes idle.
LEMMA CallerLeaves ==
    ASSUME BrokerInv, NEW c \in Callers, caller' = [caller EXCEPT ![c] = Away]
    PROVE  /\ caller' \in [Callers -> Call]
           /\ PermitInv'
           /\ \A b \in Callers \ {c} : caller'[b] = caller[b]
<1>1. caller' \in [Callers -> Call]
  BY AwayIsACall DEF BrokerInv, TypeOK, Call
<1>2. \A b \in Callers : caller'[b].pc # "idle" => caller[b].pc # "idle"
  BY DEF BrokerInv, TypeOK, Away
<1>3. QED
  BY <1>1, <1>2, PermitsAreKept DEF BrokerInv, TypeOK

LEMMA RemovedFromQueue ==
    ASSUME NEW q \in Seq(Callers), NEW i \in DOMAIN q
    PROVE  /\ RemoveAt(q, i) \in Seq(Callers)
           /\ DOMAIN RemoveAt(q, i) = 1 .. Len(q) - 1
           /\ \A j \in 1 .. Len(q) - 1 : RemoveAt(q, i)[j] = IF j < i THEN q[j] ELSE q[j + 1]
<1> DEFINE a == SubSeq(q, 1, i - 1)
           b == SubSeq(q, i + 1, Len(q))
<1>1. a \in Seq(Callers) /\ Len(a) = i - 1 /\ \A j \in 1 .. i - 1 : a[j] = q[j]
  OBVIOUS
<1>2. b \in Seq(Callers) /\ Len(b) = Len(q) - i /\ \A j \in 1 .. Len(q) - i : b[j] = q[i + j]
  OBVIOUS
<1>3. RemoveAt(q, i) = a \o b
  BY DEF RemoveAt
<1> HIDE DEF a, b
<1>4. /\ a \o b \in Seq(Callers) /\ Len(a \o b) = Len(q) - 1
      /\ \A j \in 1 .. Len(q) - 1 : (a \o b)[j] = IF j <= i - 1 THEN a[j] ELSE b[j - (i - 1)]
  BY <1>1, <1>2, ConcatProperties, SMTT(30)
<1>5. \A j \in 1 .. Len(q) - 1 : (a \o b)[j] = IF j < i THEN q[j] ELSE q[j + 1]
  <2> TAKE j \in 1 .. Len(q) - 1
  <2>1. CASE j < i
    BY <1>1, <1>4, <2>1
  <2>2. CASE ~(j < i)
    <3>1. /\ j - (i - 1) \in 1 .. Len(q) - i /\ i + (j - (i - 1)) = j + 1
          /\ ~(j <= i - 1)
      BY <2>2
    <3>2. b[j - (i - 1)] = q[j + 1]
      BY <1>2, <3>1
    <3>3. (a \o b)[j] = b[j - (i - 1)]
      BY <1>4, <3>1
    <3>4. QED
      BY <2>2, <3>2, <3>3
  <2>3. QED
    BY <2>1, <2>2
<1>6. DOMAIN (a \o b) = 1 .. Len(q) - 1
  BY <1>4
<1>7. QED
  BY <1>3, <1>4, <1>5, <1>6

\* A queue in which everybody waits once, of callers that are not disturbed.
LEMMA QueueStays ==
    ASSUME BrokerInv, UNCHANGED queue,
           \A b \in Callers : caller[b].pc = "queued" => caller'[b] = caller[b]
    PROVE  queue' \in Seq(Callers) /\ QueueInv'
<1>1. queue \in Seq(Callers)
  BY DEF BrokerInv, TypeOK
<1>2. \A i \in DOMAIN queue : queue[i] \in Callers /\ caller[queue[i]].pc = "queued"
  BY <1>1 DEF BrokerInv, QueueInv
<1>3. \A i \in DOMAIN queue : caller'[queue[i]].pc = "queued"
  BY <1>2
<1>4. QED
  BY <1>1, <1>3 DEF BrokerInv, QueueInv

LEMMA LeaveKeeps ==
    ASSUME BrokerInv, NEW c \in Callers, Leave(c)
    PROVE  BrokerInv'
<1>1. /\ caller' \in [Callers -> Call] /\ PermitInv'
      /\ \A b \in Callers \ {c} : caller'[b] = caller[b]
  BY CallerLeaves DEF Leave
<1>2. queue' \in Seq(Callers) /\ QueueInv'
  <2>1. CASE caller[c].pc = "refreshing" /\ UNCHANGED queue
    BY <1>1, <2>1, QueueStays
  <2>2. ASSUME NEW i \in DOMAIN queue, queue[i] = c, queue' = RemoveAt(queue, i)
        PROVE  queue' \in Seq(Callers) /\ QueueInv'
    <3>1. queue \in Seq(Callers)
      BY DEF BrokerInv, TypeOK
    <3>2. /\ queue' \in Seq(Callers) /\ DOMAIN queue' = 1 .. Len(queue) - 1
          /\ \A j \in DOMAIN queue' : queue'[j] = IF j < i THEN queue[j] ELSE queue[j + 1]
      BY <2>2, <3>1, RemovedFromQueue
    <3>3. \A j \in DOMAIN queue' : \E k \in DOMAIN queue : queue'[j] = queue[k] /\ k # i
      BY <3>1, <3>2
    <3>4. \A j \in DOMAIN queue' : queue'[j] \in Callers \ {c} /\ caller[queue'[j]].pc = "queued"
      BY <2>2, <3>1, <3>3 DEF BrokerInv, QueueInv
    <3>5. \A j, k \in DOMAIN queue' : queue'[j] = queue'[k] => j = k
      <4> DEFINE Was(j) == IF j < i THEN j ELSE j + 1
      <4>1. \A j \in DOMAIN queue' : Was(j) \in DOMAIN queue /\ queue'[j] = queue[Was(j)]
        BY <3>1, <3>2
      <4>2. \A j, k \in DOMAIN queue' : Was(j) = Was(k) => j = k
        BY <3>1, <3>2
      <4>3. \A j, k \in DOMAIN queue : queue[j] = queue[k] => j = k
        BY DEF BrokerInv, QueueInv
      <4>4. QED
        <5> HIDE DEF Was
        <5>1. QED
          BY <4>1, <4>2, <4>3
    <3>6. \A j \in DOMAIN queue' : caller'[queue'[j]].pc = "queued"
      BY <1>1, <3>4
    <3>7. QED
      BY <3>2, <3>5, <3>6 DEF QueueInv
  <2>3. QED
    BY <2>1, <2>2 DEF Leave
<1>3. CASE work.by = c
  BY <1>1, <1>2, <1>3, CallersKeep DEF Leave
<1>4. CASE work.by # c
  <2>1. work' = work /\ (work.by # Nobody => caller'[work.by] = caller[work.by])
    BY <1>1, <1>4 DEF Leave, BrokerInv, TypeOK
  <2>2. QED
    BY <1>1, <1>2, <2>1, CallersKeep DEF Leave
<1>5. QED
  BY <1>3, <1>4

LEMMA BodyDroppedKeeps ==
    ASSUME BrokerInv, NEW c \in Callers, BodyDropped(c)
    PROVE  BrokerInv'
<1>1. /\ caller' \in [Callers -> Call] /\ PermitInv'
      /\ \A b \in Callers \ {c} : caller'[b] = caller[b]
  BY CallerLeaves DEF BodyDropped
<1>2. work' = work /\ (work.by # Nobody => caller'[work.by] = caller[work.by])
  BY <1>1 DEF BodyDropped, BrokerInv, TypeOK, WorkInv
<1>3. queue' \in Seq(Callers) /\ QueueInv'
  BY <1>1, QueueStays DEF BodyDropped
<1>4. QED
  BY <1>1, <1>2, <1>3, CallersKeep DEF BodyDropped

LEMMA ReleaseKeeps ==
    ASSUME BrokerInv, Release
    PROVE  BrokerInv'
<1>1. /\ caller' \in [Callers -> Call] /\ queue' \in Seq(Callers)
      /\ QueueInv' /\ PermitInv'
  BY DEF Release, BrokerInv, TypeOK, Call, QueueInv, PermitInv, Holding
<1>2. QED
  BY <1>1, CallersKeep DEF Release

-----------------------------------------------------------------------------
(* What is done with the session: by a caller that has the lock, and by its refresh. *)

\* A session when no scan is under way.
Settled(s) ==
    /\ s \in Session /\ Coherent(s)
    /\ s.accept => retried
    /\ s.incarnation <= producer
    /\ s.sinceStart = sinceScan
    /\ \A i \in Incarnations : i > s.incarnation => consumed[i] = 0
    /\ s.incarnation # 0 => consumed[s.incarnation] <= s.sequence

LEMMA SettledSession ==
    ASSUME BrokerInv, work.phase # "scan"
    PROVE  Settled(session)
BY DEF BrokerInv, TypeOK, SessionInv, ConsumedInv, Settled, Session

LEMMA DiscardingSettles ==
    ASSUME NEW s, NEW t, Settled(s), Discards(s, t)
    PROVE  Settled(t)
BY DEF Settled, Discards

\* Attached to the producer of the moment, which is not older than the session's.
LEMMA AttachSettles ==
    ASSUME BrokerInv, NEW s, Settled(s)
    PROVE  Settled(Attach(s, producer).session)
<1> DEFINE a == Attach(s, producer) t == a.session
<1>1. producer \in Incarnations /\ consumed \in [Incarnations -> 0..MaxSequence]
  BY DEF BrokerInv, TypeOK
<1>2. s \in Session /\ Coherent(s)
  BY DEF Settled
<1>3. /\ t \in Session /\ Coherent(t) /\ t.sinceStart = s.sinceStart
      /\ a.error # "none" => /\ t.incarnation = s.incarnation /\ t.sequence = s.sequence
                             /\ t.accept = s.accept
      /\ a.error = "none" =>
           /\ t.incarnation = producer /\ ~t.accept
           /\ t.sequence = IF s.incarnation \notin {0, producer} THEN 0 ELSE s.sequence
  BY <1>1, <1>2, AttachJoins
<1> SUFFICES Settled(t)
  OBVIOUS
<1> HIDE DEF t, a
<1>4. CASE a.error # "none"
  BY <1>3, <1>4 DEF Settled
<1>5. CASE a.error = "none"
  <2>1. s.incarnation \in 0..MaxIncarnation /\ s.sequence \in 0..MaxSequence
    BY <1>2 DEF Session
  <2>2. \A i \in Incarnations : i > producer => consumed[i] = 0
    BY <1>1, <2>1 DEF Settled, Incarnations
  <2>3. consumed[producer] <= t.sequence
    <3>1. CASE s.incarnation = producer
      BY <1>1, <1>3, <1>5, <2>1, <3>1 DEF Settled, Incarnations
    <3>2. CASE s.incarnation # producer
      <4>1. producer > s.incarnation
        BY <1>1, <2>1, <3>2 DEF Settled, Incarnations
      <4>2. consumed[producer] = 0
        BY <1>1, <4>1 DEF Settled
      <4>3. t.sequence \in 0..MaxSequence
        BY <1>3 DEF Session
      <4>4. QED
        BY <4>2, <4>3
    <3>3. QED
      BY <3>1, <3>2
  <2>4. QED
    BY <1>1, <1>3, <1>5, <2>2, <2>3 DEF Settled, Incarnations
<1>6. QED
  BY <1>4, <1>5

\* The session a caller finds once it has the lock.
Entered(c) == Bind(Expire(session), caller[c].identity)
Found(c) == Lift(Entered(c), caller[c].kind)

LEMMA FoundSession ==
    ASSUME BrokerInv, work.phase # "scan", NEW c \in Callers
    PROVE  /\ Found(c) \in Session /\ Coherent(Found(c))
           /\ Found(c).incarnation = session.incarnation /\ Found(c).sequence = session.sequence
           /\ Found(c).sinceStart = session.sinceStart
           /\ Found(c).latest \in {Expire(session).latest, NoEvidence}
           /\ Found(c).accept => \/ retried
                                 \/ /\ caller[c].kind = "retry"
                                    /\ Found(c).refusal = "none" /\ Found(c).latest = NoEvidence
<1>1. session \in Session /\ Coherent(session) /\ (session.accept => retried)
  BY SettledSession DEF Settled
<1>2. caller[c].identity \in Identities \cup {NoIdentity}
  BY DEF BrokerInv, TypeOK
<1>3. Discards(session, Expire(session))
  BY <1>1, SessionDiscards
<1>4. Discards(Expire(session), Entered(c))
  BY <1>2, <1>3, SessionDiscards DEF Discards, Entered
<1>5. /\ Found(c) \in Session /\ Coherent(Found(c))
      /\ Found(c).latest = Entered(c).latest
      /\ Found(c).incarnation = Entered(c).incarnation /\ Found(c).sequence = Entered(c).sequence
      /\ Found(c).sinceStart = Entered(c).sinceStart
      /\ \/ Found(c) = Entered(c)
         \/ /\ caller[c].kind = "retry"
            /\ Found(c).refusal = "none" /\ Found(c).latest = NoEvidence
  BY <1>4, LiftAccepts DEF Discards, Found
<1>6. QED
  BY <1>1, <1>3, <1>4, <1>5 DEF Discards

LEMMA ClosedIsConnection ==
    Closed \in [open : BOOLEAN, decoder : Decoder] /\ ~Closed.open
BY FreeIsWork DEF Closed

\* The first in the queue: the others still wait once when it is gone.
LEMMA HeadLeaves ==
    ASSUME BrokerInv, queue # <<>>, queue' = Tail(queue),
           \A b \in Callers \ {Head(queue)} : caller'[b] = caller[b]
    PROVE  /\ Head(queue) \in Callers /\ caller[Head(queue)].pc = "queued"
           /\ queue' \in Seq(Callers) /\ QueueInv'
<1>1. queue \in Seq(Callers) /\ Len(queue) \in Nat \ {0}
  BY DEF BrokerInv, TypeOK
<1>2. Head(queue) = queue[1] /\ 1 \in DOMAIN queue
  BY <1>1
<1>3. /\ queue' \in Seq(Callers) /\ DOMAIN queue' = 1 .. Len(queue) - 1
      /\ \A i \in 1 .. Len(queue) - 1 : queue'[i] = queue[i + 1] /\ i + 1 \in DOMAIN queue
  BY <1>1
<1>4. \A i \in DOMAIN queue : queue[i] \in Callers /\ caller[queue[i]].pc = "queued"
  BY <1>1 DEF BrokerInv, QueueInv
<1>5. \A i, j \in DOMAIN queue : queue[i] = queue[j] => i = j
  BY DEF BrokerInv, QueueInv
<1>6. \A i \in DOMAIN queue' : caller'[queue'[i]].pc = "queued"
  <2> TAKE i \in DOMAIN queue'
  <2>1. queue'[i] = queue[i + 1] /\ i + 1 \in DOMAIN queue /\ i + 1 # 1
    BY <1>3
  <2>2. queue[i + 1] # Head(queue)
    BY <1>2, <1>5, <2>1
  <2>3. QED
    BY <1>4, <2>1, <2>2
<1>7. \A i, j \in DOMAIN queue' : queue'[i] = queue'[j] => i = j
  <2> TAKE i, j \in DOMAIN queue'
  <2>1. queue'[i] = queue'[j] => i + 1 = j + 1
    BY <1>3, <1>5
  <2>2. i \in Int /\ j \in Int
    BY <1>1, <1>3
  <2>3. QED
    BY <2>1, <2>2
<1>8. QED
  BY <1>2, <1>3, <1>4, <1>6, <1>7 DEF QueueInv

\* An answer leaves the caller with its body, or without.
LEMMA ResponseIsSent ==
    ASSUME BrokerInv, NEW c \in Callers, caller[c].pc # "idle", NEW s \in Session, Respond(c, s)
    PROVE  /\ caller' \in [Callers -> Call] /\ PermitInv'
           /\ \A b \in Callers \ {c} : caller'[b] = caller[b]
           /\ caller'[c].pc \in {"idle", "responding"}
           /\ retried' \in BOOLEAN /\ (retried /\ s.latest = NoEvidence => retried')
<1>1. PICK pc \in {"idle", "responding"} : caller' = [caller EXCEPT ![c] = [Away EXCEPT !.pc = pc]]
  <2>1. CASE caller[c].age >= Deadline
    <3>1. [Away EXCEPT !.pc = "idle"] = Away
      BY DEF Away
    <3>2. QED
      BY <2>1, <3>1 DEF Respond
  <2>2. CASE ~(caller[c].age >= Deadline)
    BY <2>2 DEF Respond
  <2>3. QED
    BY <2>1, <2>2
<1>2. [Away EXCEPT !.pc = pc] \in Call /\ [Away EXCEPT !.pc = pc].pc = pc
  BY AwayIsACall
<1>3. /\ caller' \in [Callers -> Call] /\ caller'[c].pc = pc
      /\ \A b \in Callers \ {c} : caller'[b] = caller[b]
  BY <1>1, <1>2 DEF BrokerInv, TypeOK, Call
<1>4. PermitInv'
  BY <1>3, PermitsAreKept
<1>5. retried' \in BOOLEAN /\ (retried /\ s.latest = NoEvidence => retried')
  BY DEF Respond, BrokerInv, TypeOK
<1>6. QED
  BY <1>3, <1>4, <1>5

LEMMA AcquireKeeps ==
    ASSUME BrokerInv, Acquire
    PROVE  BrokerInv'
<1> DEFINE c == Head(queue)
<1>1. c \in Callers /\ caller[c].pc = "queued" /\ work.phase = "none" /\ work.by = Nobody
  <2>1. queue # <<>> /\ queue \in Seq(Callers)
    BY DEF Acquire, BrokerInv, TypeOK
  <2>2. c = queue[1] /\ 1 \in DOMAIN queue
    BY <2>1
  <2>3. QED
    BY <2>1, <2>2 DEF Acquire, BrokerInv, QueueInv, WorkInv
<1>2. /\ session' = Found(c)
      /\ \/ /\ Found(c).refusal # "none" \/ Shared(Found(c), caller[c])
            /\ Respond(c, Found(c)) /\ UNCHANGED work
         \/ /\ ~(Found(c).refusal # "none" \/ Shared(Found(c), caller[c]))
            /\ caller' = [caller EXCEPT ![c] = [Away EXCEPT !.pc = "refreshing", !.age = caller[c].age,
                    !.kind = IF caller[c].kind = "after_request" THEN "after_request" ELSE "plain"]]
            /\ work' = [Free EXCEPT !.phase = "floor", !.by = c]
            /\ retried' = (retried \/ caller[c].kind = "retry")
      /\ conn' \in {conn, Closed} /\ queue' = Tail(queue) /\ queue # <<>>
      /\ UNCHANGED <<disk, producer, sinceScan, consumed>>
  BY DEF Acquire, Found, Entered
<1>3. /\ Found(c) \in Session /\ Coherent(Found(c))
      /\ Found(c).incarnation = session.incarnation /\ Found(c).sequence = session.sequence
      /\ Found(c).sinceStart = session.sinceStart
      /\ Found(c).accept => \/ retried
                            \/ /\ caller[c].kind = "retry"
                               /\ Found(c).refusal = "none" /\ Found(c).latest = NoEvidence
  BY <1>1, FoundSession
<1> HIDE DEF c
<1>4. /\ caller' \in [Callers -> Call] /\ PermitInv'
      /\ \A b \in Callers \ {c} : caller'[b] = caller[b]
      /\ retried' \in BOOLEAN /\ (Found(c).accept => retried')
      /\ work' \in Work
      /\ \/ work' = work
         \/ /\ work'.phase = "floor" /\ work'.by = c
            /\ caller'[c].pc = "refreshing" /\ Found(c).refusal = "none"
  <2>1. CASE /\ Found(c).refusal # "none" \/ Shared(Found(c), caller[c])
             /\ Respond(c, Found(c)) /\ UNCHANGED work
    <3>1. /\ caller' \in [Callers -> Call] /\ PermitInv'
          /\ \A b \in Callers \ {c} : caller'[b] = caller[b]
          /\ retried' \in BOOLEAN /\ (retried /\ Found(c).latest = NoEvidence => retried')
      BY <1>1, <1>3, <2>1, ResponseIsSent
    <3>2. Found(c).accept => retried /\ Found(c).latest = NoEvidence
      BY <1>3, <2>1 DEF Coherent, Shared
    <3>3. QED
      BY <2>1, <3>1, <3>2 DEF BrokerInv, TypeOK, Work
  <2>2. CASE /\ ~(Found(c).refusal # "none" \/ Shared(Found(c), caller[c]))
             /\ caller' = [caller EXCEPT ![c] = [Away EXCEPT !.pc = "refreshing", !.age = caller[c].age,
                    !.kind = IF caller[c].kind = "after_request" THEN "after_request" ELSE "plain"]]
             /\ work' = [Free EXCEPT !.phase = "floor", !.by = c]
             /\ retried' = (retried \/ caller[c].kind = "retry")
    <3> DEFINE kind == IF caller[c].kind = "after_request" THEN "after_request" ELSE "plain"
               turned == [Away EXCEPT !.pc = "refreshing"]
               aged == [turned EXCEPT !.age = caller[c].age]
               call == [aged EXCEPT !.kind = kind]
    <3>1. turned \in Call /\ turned.pc = "refreshing"
      BY AwayIsACall
    <3>2. aged \in Call /\ aged.pc = "refreshing"
      <4>1. caller[c].age \in 0..Deadline
        BY <1>1 DEF BrokerInv, TypeOK
      <4> HIDE DEF turned
      <4>2. QED
        BY <3>1, <4>1 DEF Call
    <3>3. call \in Call /\ call.pc = "refreshing"
      <4>1. kind \in Kinds
        BY DEF Kinds
      <4> HIDE DEF aged, kind
      <4>2. QED
        BY <3>2, <4>1 DEF Call
    <3>4. caller' = [caller EXCEPT ![c] = call]
      BY <2>2
    <3>5. /\ caller' \in [Callers -> Call] /\ caller'[c].pc = "refreshing"
          /\ \A b \in Callers \ {c} : caller'[b] = caller[b]
      <4> HIDE DEF call
      <4>1. QED
        BY <1>1, <3>3, <3>4 DEF BrokerInv, TypeOK, Call
    <3>6. PermitInv'
      BY <1>1, <3>5, PermitsAreKept
    <3>7. work' \in Work /\ work'.phase = "floor" /\ work'.by = c
      BY <1>1, <2>2, FreeIsWork DEF Work
    <3>8. retried' \in BOOLEAN /\ (Found(c).accept => retried')
      BY <1>3, <2>2 DEF BrokerInv, TypeOK
    <3>9. QED
      BY <2>2, <3>5, <3>6, <3>7, <3>8
  <2>3. QED
    BY <1>2, <2>1, <2>2
<1>5. queue' \in Seq(Callers) /\ QueueInv'
  BY <1>2, <1>4, HeadLeaves DEF c
<1>6. TypeOK'
  BY <1>2, <1>3, <1>4, <1>5, ClosedIsConnection DEF BrokerInv, TypeOK, Session, Call, Work
<1>7. SessionInv' /\ ConsumedInv'
  BY <1>1, <1>2, <1>3, <1>4 DEF BrokerInv, SessionInv, ConsumedInv
<1>8. ConnectionInv'
  BY <1>1, <1>2, <1>4, ClosedIsConnection DEF BrokerInv, ConnectionInv
<1>9. ScanInv' /\ DemandInv'
  BY <1>1, <1>4 DEF ScanInv, DemandInv
<1>10. WorkInv'
  BY <1>1, <1>2, <1>4 DEF BrokerInv, WorkInv
<1>11. QED
  BY <1>4, <1>5, <1>6, <1>7, <1>8, <1>9, <1>10 DEF BrokerInv

LEMMA AnswerKeeps ==
    ASSUME BrokerInv, Answer
    PROVE  BrokerInv'
<1>1. /\ work.by \in Callers /\ caller[work.by].pc = "refreshing"
      /\ work.phase = "done" /\ work' = Free
      /\ session' = Expire(session) /\ Respond(work.by, session')
      /\ UNCHANGED <<disk, producer, conn, queue, sinceScan, consumed>>
  BY DEF Answer, BrokerInv, TypeOK, WorkInv
<1>2. Settled(session)
  BY <1>1, SettledSession
<1>3. Discards(session, session') /\ session' \in Session
  BY <1>1, <1>2, SessionDiscards DEF Settled, Discards
<1>4. /\ caller' \in [Callers -> Call] /\ PermitInv'
      /\ \A b \in Callers \ {work.by} : caller'[b] = caller[b]
      /\ retried' \in BOOLEAN /\ (retried /\ session'.latest = NoEvidence => retried')
  BY <1>1, <1>3, ResponseIsSent
<1>5. queue' \in Seq(Callers) /\ QueueInv'
  BY <1>1, <1>4, QueueStays
<1>6. TypeOK'
  BY <1>1, <1>3, <1>4, <1>5, FreeIsWork DEF BrokerInv, TypeOK, Session, Call, Work
<1>7. SessionInv' /\ ConsumedInv'
  BY <1>1, <1>2, <1>3, <1>4, FreeIsWork
  DEF BrokerInv, SessionInv, ConsumedInv, Settled, Discards, Coherent
<1>8. ConnectionInv' /\ ScanInv' /\ DemandInv' /\ WorkInv'
  BY <1>1, FreeIsWork DEF BrokerInv, ConnectionInv, ScanInv, DemandInv, WorkInv
<1>9. QED
  BY <1>4, <1>5, <1>6, <1>7, <1>8 DEF BrokerInv

-----------------------------------------------------------------------------
(* The refresh. *)

\* A step of the lock's holder that leaves the callers as they are.
LEMMA HolderKeeps ==
    ASSUME BrokerInv, UNCHANGED <<disk, producer, caller, queue, retried>>,
           session' \in Session, SessionInv', ConsumedInv',
           conn' \in [open : BOOLEAN, decoder : Decoder], ConnectionInv',
           work' \in Work, work'.by \in {work.by, Nobody}, ScanInv',
           work'.phase \in {"none", "metadata"} => work'.by = Nobody,
           work'.phase \in {"floor", "attach", "scan", "metadata"} => session'.refusal = "none",
           work'.phase = "attach" => session'.sinceStart >= Floor,
           DemandInv',
           sinceScan' \in 0..Floor, consumed' \in [Incarnations -> 0..MaxSequence]
    PROVE  BrokerInv'
<1>1. TypeOK'
  BY DEF BrokerInv, TypeOK, Session, Work
<1>2. WorkInv'
  BY DEF BrokerInv, WorkInv
<1>3. QueueInv' /\ PermitInv'
  BY DEF BrokerInv, QueueInv, PermitInv, Holding
<1>4. QED
  BY <1>1, <1>2, <1>3 DEF BrokerInv

LEMMA FinishedIsWork ==
    ASSUME BrokerInv
    PROVE  /\ Finished \in Work /\ Finished.phase = "done" /\ Finished.by = work.by
BY FreeIsWork DEF Finished, Work, BrokerInv, TypeOK

LEMMA SettledHolds ==
    ASSUME BrokerInv, NEW s, Settled(s), session' = s, work'.phase # "scan",
           UNCHANGED <<producer, retried, consumed, sinceScan>>
    PROVE  session' \in Session /\ SessionInv' /\ ConsumedInv'
BY DEF Settled, SessionInv, ConsumedInv

LEMMA RefreshFailsKeeps ==
    ASSUME BrokerInv, NEW s, Settled(s), NEW reason, RefreshFails(s, reason),
           UNCHANGED <<disk, producer, caller, queue, retried>>
    PROVE  BrokerInv'
<1>1. /\ session' = Fail(s, reason) /\ conn' = Closed /\ work' = Finished
      /\ UNCHANGED <<sinceScan, consumed>>
  BY DEF RefreshFails
<1>2. Settled(Fail(s, reason))
  <2>1. Discards(s, Fail(s, reason))
    BY SessionDiscards DEF Settled
  <2>2. QED
    BY <2>1, DiscardingSettles
<1>3. work' \in Work /\ work'.phase = "done" /\ work'.by = work.by
  BY <1>1, FinishedIsWork
<1>4. session' \in Session /\ SessionInv' /\ ConsumedInv'
  BY <1>1, <1>2, <1>3, SettledHolds
<1>5. session'.failed
  BY <1>1 DEF Fail, Settled, Session
<1>6. DemandInv' /\ ScanInv'
  BY <1>3, <1>5 DEF DemandInv, ScanInv
<1>7. conn' \in [open : BOOLEAN, decoder : Decoder] /\ ConnectionInv'
  BY <1>1, ClosedIsConnection DEF ConnectionInv
<1>8. sinceScan' \in 0..Floor /\ consumed' \in [Incarnations -> 0..MaxSequence]
  BY <1>1 DEF BrokerInv, TypeOK
<1>9. QED
  BY <1>3, <1>4, <1>6, <1>7, <1>8, HolderKeeps

LEMMA AttachedKeeps ==
    ASSUME BrokerInv, NEW s, Settled(s), s.refusal = "none",
           NEW d \in Decoder, ~Assembling(d), d.incarnation = producer,
           Attached(s, d), UNCHANGED <<disk, producer, caller, queue, retried>>
    PROVE  BrokerInv'
<1> DEFINE a == Attach(s, d.incarnation)
<1>1. CASE a.error # "none"
  <2>1. Settled(a.session)
    BY AttachSettles
  <2>2. QED
    BY <1>1, <2>1, RefreshFailsKeeps DEF Attached
<1>2. CASE a.error = "none"
  <2> DEFINE t == [a.session EXCEPT !.sinceStart = 0]
             b == BeginScan(SetSequenceFloor(d, a.session.sequence))
  <2>1. /\ producer \in Incarnations /\ s \in Session /\ Coherent(s)
        /\ consumed \in [Incarnations -> 0..MaxSequence] /\ sinceScan \in 0..Floor
    BY DEF BrokerInv, TypeOK, Settled
  <2>2. /\ session' = t /\ conn' = Closed
        /\ work' = [work EXCEPT !.phase = "scan", !.elapsed = 0, !.decoder = b]
        /\ sinceScan' = 0 /\ UNCHANGED consumed
    BY <1>2 DEF Attached
  <2>3. /\ a.session \in Session /\ Settled(a.session) /\ a.session.refusal = "none"
        /\ a.session.incarnation = d.incarnation /\ ~a.session.accept
    BY <1>2, <2>1, AttachJoins, AttachSettles DEF Settled
  <2> HIDE DEF a
  <2>4. /\ t \in Session /\ t.incarnation = producer /\ ~t.accept /\ t.refusal = "none"
        /\ t.sinceStart = 0 /\ t.latest = a.session.latest /\ t.sequence = a.session.sequence
    BY <2>3, BrokerAssumption DEF Session
  <2>5. /\ b \in Decoder /\ ~Assembling(b) /\ b.incarnation = producer
        /\ a.session.sequence <= b.sequence
    <3>1. a.session.sequence \in 0..MaxSequence
      BY <2>3 DEF Session
    <3>2. QED
      BY <3>1, ScanBegins
  <2> HIDE DEF t, b
  <2>6. /\ work' \in Work /\ work'.phase = "scan" /\ work'.by = work.by
        /\ work'.elapsed = 0 /\ work'.decoder = b
    <3>1. 0 \in 0..ScanLimit /\ work \in Work
      BY BrokerAssumption DEF BrokerInv, TypeOK, Work
    <3>2. QED
      BY <2>2, <2>5, <3>1 DEF Work
  <2>7. SessionInv'
    BY <2>1, <2>2, <2>3, <2>4 DEF SessionInv, Settled, Coherent, Incarnations
  <2>8. ConsumedInv'
    BY <2>1, <2>2, <2>3, <2>4, <2>6 DEF ConsumedInv, Settled
  <2>9. ScanInv'
    <3>1. /\ producer \in Incarnations /\ producer # 0
          /\ t.sequence \in 0..MaxSequence /\ b.sequence \in 0..MaxSequence
      <4>1. producer \in Incarnations /\ producer # 0
        BY <2>1 DEF Incarnations
      <4>2. t.sequence \in 0..MaxSequence
        BY <2>4 DEF Session
      <4>3. b.sequence \in 0..MaxSequence
        BY <2>5 DEF Decoder
      <4>4. QED
        BY <4>1, <4>2, <4>3
    <3>2. consumed[producer] <= t.sequence
      BY <2>3, <2>4, <3>1 DEF Settled
    <3>3. consumed[producer] <= b.sequence
      BY <2>1, <2>4, <2>5, <3>1, <3>2
    <3>4. QED
      BY <2>2, <2>4, <2>5, <2>6, <3>3 DEF ScanInv
  <2>10. DemandInv'
    BY <2>2, <2>6 DEF DemandInv, BrokerInv, TypeOK
  <2>11. conn' \in [open : BOOLEAN, decoder : Decoder] /\ ConnectionInv'
    BY <2>2, ClosedIsConnection DEF ConnectionInv
  <2>12. sinceScan' \in 0..Floor /\ consumed' \in [Incarnations -> 0..MaxSequence]
    BY <2>1, <2>2, BrokerAssumption
  <2>13. QED
    BY <2>2, <2>4, <2>6, <2>7, <2>8, <2>9, <2>10, <2>11, <2>12, HolderKeeps
<1>3. QED
  BY <1>1, <1>2

LEMMA FloorPassedKeeps ==
    ASSUME BrokerInv, FloorPassed
    PROVE  BrokerInv'
<1> DEFINE s == BeforeRefresh(session)
<1>1. /\ work.phase = "floor" /\ session.sinceStart >= Floor
      /\ UNCHANGED <<disk, producer, caller, queue, retried>>
      /\ session.refusal = "none"
  BY DEF FloorPassed, BrokerInv, WorkInv
<1>2. Settled(session)
  BY <1>1, SettledSession
<1>3. Discards(session, s) /\ s.refusal = "none"
  BY <1>1, <1>2, SessionDiscards DEF Settled, BeforeRefresh, Session
<1>4. Settled(s) /\ s.sinceStart = session.sinceStart
  BY <1>2, <1>3, DiscardingSettles DEF Discards
<1> HIDE DEF s
<1>5. CASE Current /\ Attached(s, conn.decoder)
  <2>1. conn.decoder \in Decoder /\ ~Assembling(conn.decoder) /\ conn.decoder.incarnation = producer
    BY <1>5 DEF Current, BrokerInv, TypeOK, ConnectionInv
  <2>2. QED
    BY <1>1, <1>3, <1>4, <1>5, <2>1, AttachedKeeps
<1>6. CASE \E reason \in Unusable : RefreshFails(s, reason)
  BY <1>1, <1>4, <1>6, RefreshFailsKeeps
<1>7. CASE /\ session' = s /\ conn' = Closed
           /\ work' = [work EXCEPT !.phase = "attach", !.elapsed = 0]
           /\ UNCHANGED <<sinceScan, consumed>>
  <2>1. work' \in Work /\ work'.phase = "attach" /\ work'.by = work.by
    <3>1. 0 \in 0..ScanLimit /\ work \in Work
      BY BrokerAssumption DEF BrokerInv, TypeOK, Work
    <3>2. QED
      BY <1>7, <3>1 DEF Work
  <2>2. session' \in Session /\ SessionInv' /\ ConsumedInv'
    BY <1>1, <1>4, <1>7, <2>1, SettledHolds
  <2>3. conn' \in [open : BOOLEAN, decoder : Decoder] /\ ConnectionInv'
    BY <1>7, ClosedIsConnection DEF ConnectionInv
  <2>4. ScanInv' /\ DemandInv'
    BY <2>1 DEF ScanInv, DemandInv
  <2>5. sinceScan' \in 0..Floor /\ consumed' \in [Incarnations -> 0..MaxSequence]
    BY <1>7 DEF BrokerInv, TypeOK
  <2>6. QED
    BY <1>1, <1>3, <1>4, <1>7, <2>1, <2>2, <2>3, <2>4, <2>5, HolderKeeps
<1>8. QED
  BY <1>5, <1>6, <1>7 DEF FloorPassed, s

LEMMA HandshakeEndsKeeps ==
    ASSUME BrokerInv, HandshakeEnds
    PROVE  BrokerInv'
<1>1. /\ work.phase = "attach" /\ session.refusal = "none"
      /\ UNCHANGED <<disk, producer, caller, queue, retried>>
  BY DEF HandshakeEnds, BrokerInv, WorkInv
<1>2. Settled(session)
  BY <1>1, SettledSession
<1>3. CASE Attached(session, Handshaken(producer))
  <2>1. producer \in Incarnations
    BY DEF BrokerInv, TypeOK
  <2>2. QED
    BY <1>1, <1>2, <1>3, <2>1, HandshakenIsADecoder, AttachedKeeps
<1>4. ASSUME NEW reason, RefreshFails(session, reason) PROVE BrokerInv'
  BY <1>1, <1>2, <1>4, RefreshFailsKeeps
<1>5. QED
  BY <1>3, <1>4 DEF HandshakeEnds

\* However a scan ends, the session it leaves is one without a scan.
LEMMA LeaseSettles ==
    ASSUME BrokerInv, work.phase = "scan",
           NEW d \in Decoder, d.sequence = work.decoder.sequence
    PROVE  Settled(LeaseDropped(session, d))
<1> DEFINE t == LeaseDropped(session, d)
<1>1. /\ session \in Session /\ Coherent(session) /\ ~session.accept
      /\ session.incarnation <= producer /\ session.sinceStart = sinceScan
      /\ \A i \in Incarnations : i > session.incarnation => consumed[i] = 0
      /\ consumed[session.incarnation] <= d.sequence
  BY DEF BrokerInv, TypeOK, Session, SessionInv, ConsumedInv, ScanInv
<1>2. /\ t \in Session /\ Coherent(t) /\ t.sequence >= d.sequence
      /\ t.incarnation = session.incarnation /\ t.sinceStart = session.sinceStart
      /\ t.accept = session.accept
  BY <1>1, LeaseCounts
<1>3. work.decoder \in Decoder /\ work.decoder.incarnation = session.incarnation
  BY DEF BrokerInv, TypeOK, ScanInv
<1>4. session.incarnation \in Incarnations
  BY <1>3 DEF Decoder
<1>5. consumed[session.incarnation] \in 0..MaxSequence
  BY <1>4 DEF BrokerInv, TypeOK
<1>6. t.sequence \in 0..MaxSequence /\ d.sequence \in 0..MaxSequence
  BY <1>2 DEF Session, Decoder
<1> HIDE DEF t
<1>7. consumed[t.incarnation] <= t.sequence
  BY <1>1, <1>2, <1>5, <1>6
<1>8. QED
  <2>1. Settled(t)
    BY <1>1, <1>2, <1>7 DEF Settled
  <2>2. QED
    BY <2>1 DEF t

LEMMA ReceiveKeeps ==
    ASSUME BrokerInv, NEW f \in Frames, Receive(f)
    PROVE  BrokerInv'
<1> DEFINE d == work.decoder
           r == Accept(d, f)
           s == LeaseDropped(session, r.decoder)
<1>1. /\ work.phase = "scan" /\ d \in Decoder /\ session \in Session
      /\ session.refusal = "none" /\ ~session.accept /\ Coherent(session)
      /\ d.incarnation = session.incarnation /\ session.sequence <= d.sequence
      /\ consumed[d.incarnation] <= d.sequence
      /\ Assembling(d) => /\ d.assembly.sequence = d.sequence
                          /\ consumed[d.incarnation] = d.sequence
                          /\ session.sequence < d.sequence
      /\ UNCHANGED <<disk, producer, caller, queue, retried>>
      /\ consumed \in [Incarnations -> 0..MaxSequence] /\ sinceScan \in 0..Floor
      /\ work \in Work /\ ~conn.open /\ conn \in [open : BOOLEAN, decoder : Decoder]
  BY DEF Receive, BrokerInv, TypeOK, Session, Work, WorkInv, ScanInv, SessionInv, ConnectionInv
<1>2. /\ r.decoder \in Decoder /\ r.decoder.incarnation = d.incarnation
      /\ r.error # "none" => r.decoder.sequence = d.sequence
      /\ r.error = "none" => Begins(d, r) \/ Continues(d, r) \/ Completes(d, r)
  BY <1>1, AcceptedFrames
<1>3. /\ d.sequence \in 0..MaxSequence /\ d.incarnation \in Incarnations
      /\ r.decoder.sequence \in 0..MaxSequence /\ session.sequence \in 0..MaxSequence
  <2> HIDE DEF r, d
  <2>1. d.sequence \in 0..MaxSequence /\ d.incarnation \in Incarnations
    BY <1>1 DEF Decoder
  <2>2. r.decoder.sequence \in 0..MaxSequence
    BY <1>2 DEF Decoder
  <2>3. QED
    BY <1>1, <2>1, <2>2 DEF Session
<1>4. CASE r.error # "none"
  <2>1. Settled(s)
    BY <1>1, <1>2, <1>4, LeaseSettles
  <2>2. RefreshFails(s, r.error)
    BY <1>4 DEF Receive
  <2>3. QED
    BY <1>1, <2>1, <2>2, RefreshFailsKeeps
<1>5. CASE r.error = "none" /\ r.capture = 0
  <2>1. /\ work' = [work EXCEPT !.decoder = r.decoder]
        /\ consumed' = [consumed EXCEPT ![r.decoder.incarnation] = r.decoder.sequence]
        /\ UNCHANGED <<session, conn, sinceScan>>
    BY <1>5 DEF Receive
  <2> HIDE DEF r, s
  <2>2. Begins(d, r) \/ Continues(d, r)
    <3>1. ~Completes(d, r)
      BY <1>1, <1>3, <1>5 DEF Completes
    <3>2. QED
      BY <1>2, <1>5, <3>1
  <2>3. /\ Assembling(r.decoder) /\ r.decoder.assembly.sequence = r.decoder.sequence
        /\ session.sequence < r.decoder.sequence
    <3>1. CASE Begins(d, r)
      BY <1>1, <1>3, <3>1 DEF Begins
    <3>2. CASE Continues(d, r)
      BY <1>1, <3>2 DEF Continues
    <3>3. QED
      BY <2>2, <3>1, <3>2
  <2>4. /\ work' \in Work /\ work'.phase = "scan" /\ work'.by = work.by
        /\ work'.elapsed = work.elapsed /\ work'.decoder = r.decoder
    BY <1>1, <1>2, <2>1 DEF Work
  <2>5. /\ consumed' \in [Incarnations -> 0..MaxSequence]
        /\ consumed'[d.incarnation] = r.decoder.sequence
        /\ \A i \in Incarnations \ {d.incarnation} : consumed'[i] = consumed[i]
    <3> HIDE DEF d
    <3>1. QED
      BY <1>1, <1>2, <1>3, <2>1
  <2>6. SessionInv'
    BY <1>1, <2>1 DEF BrokerInv, SessionInv
  <2>7. ConsumedInv'
    <3>1. \A i \in Incarnations : i > session.incarnation => i # d.incarnation /\ consumed[i] = 0
      BY <1>1, <1>3 DEF BrokerInv, ConsumedInv, Incarnations
    <3>2. QED
      BY <2>1, <2>4, <2>5, <3>1 DEF ConsumedInv
  <2>8. ScanInv'
    BY <1>1, <1>2, <1>3, <2>1, <2>3, <2>4, <2>5 DEF ScanInv
  <2>9. ConnectionInv'
    BY <1>1, <2>1 DEF ConnectionInv
  <2>10. DemandInv'
    BY <1>1, <2>1, <2>4 DEF BrokerInv, DemandInv
  <2>11. QED
    BY <1>1, <2>1, <2>4, <2>5, <2>6, <2>7, <2>8, <2>9, <2>10, HolderKeeps
<1>6. CASE r.error = "none" /\ r.capture # 0
  <2> DEFINE e == [incarnation |-> r.decoder.incarnation, sequence |-> r.capture,
                   age |-> work.elapsed, published |-> 0]
             succeeded == [s EXCEPT !.failed = FALSE]
             t == [succeeded EXCEPT !.latest = e]
  <2>1. /\ session' = t /\ conn' = Opened(r.decoder) /\ work' = Finished
        /\ UNCHANGED <<sinceScan, consumed>>
    BY <1>6 DEF Receive
  <2>2. Completes(d, r)
    BY <1>2, <1>6 DEF Begins, Continues
  <2>3. /\ r.capture = d.sequence /\ r.decoder.sequence = d.sequence /\ ~Assembling(r.decoder)
        /\ Assembling(d)
    BY <1>1, <2>2 DEF Completes
  <2>4. Settled(s)
    BY <1>1, <1>2, <2>3, LeaseSettles
  <2>5. /\ s.incarnation = session.incarnation /\ s.refusal = "none" /\ ~s.accept
        /\ s.sequence >= d.sequence /\ s.sinceStart = session.sinceStart /\ s \in Session
    BY <1>1, <1>2, <2>3, LeaseCounts
  <2>6. work.elapsed \in 0..AgeCap
    BY <1>1, BrokerAssumption DEF Work, AgeCap
  <2>7. e \in [incarnation : 0..MaxIncarnation, sequence : 0..MaxSequence,
               age : 0..AgeCap, published : 0..AgeCap]
    <3> HIDE DEF r, d
    <3>1. /\ r.decoder.incarnation \in 0..MaxIncarnation /\ r.capture \in 0..MaxSequence
          /\ 0 \in 0..AgeCap
      BY <1>2, <1>3, <2>3, BrokerAssumption DEF Incarnations, AgeCap
    <3>2. QED
      BY <2>6, <3>1
  <2>8. /\ e.incarnation = session.incarnation /\ e.sequence = d.sequence
        /\ e.age = work.elapsed /\ e.published = 0
    BY <1>1, <1>2, <2>3
  <2> HIDE DEF e, s, r
  <2>9. /\ t \in Session /\ t.latest = e /\ ~t.failed /\ t.refusal = "none" /\ ~t.accept
        /\ t.incarnation = session.incarnation /\ t.sequence = s.sequence
        /\ t.sinceStart = session.sinceStart
    <3>1. /\ succeeded \in Session /\ ~succeeded.failed /\ succeeded.refusal = "none"
          /\ ~succeeded.accept /\ succeeded.incarnation = session.incarnation
          /\ succeeded.sequence = s.sequence /\ succeeded.sinceStart = session.sinceStart
      BY <2>5 DEF Session
    <3> HIDE DEF succeeded
    <3>2. QED
      BY <2>7, <3>1 DEF Session
  <2>10. session.incarnation # 0
    BY <1>1, <1>3 DEF Incarnations
  <2> HIDE DEF t, d
  <2>11. Settled(t)
    BY <1>3, <2>4, <2>5, <2>8, <2>9, <2>10 DEF Settled, Coherent
  <2>12. work' \in Work /\ work'.phase = "done" /\ work'.by = work.by
    BY <2>1, FinishedIsWork
  <2>13. session' \in Session /\ SessionInv' /\ ConsumedInv'
    BY <1>1, <2>1, <2>11, <2>12, SettledHolds
  <2>14. ConnectionInv' /\ conn' \in [open : BOOLEAN, decoder : Decoder]
    BY <1>2, <2>1, <2>3, <2>12 DEF ConnectionInv, Opened
  <2>15. ScanInv'
    BY <2>12 DEF ScanInv
  <2>16. DemandInv'
    <3> SUFFICES ASSUME work'.by # Nobody PROVE DemandInv'
      BY DEF DemandInv
    <3>1. work.elapsed <= caller[work.by].age /\ work.by \in Callers
      BY <1>1, <2>12 DEF BrokerInv, DemandInv, Work
    <3>2. caller[work.by].age \in 0..Deadline
      BY <3>1 DEF BrokerInv, TypeOK
    <3>3. QED
      BY <1>1, <2>1, <2>8, <2>9, <2>12, <3>1, <3>2 DEF DemandInv
  <2>17. QED
    BY <1>1, <2>1, <2>12, <2>13, <2>14, <2>15, <2>16, HolderKeeps
<1>7. QED
  BY <1>4, <1>5, <1>6

LEMMA ScanTimesOutKeeps ==
    ASSUME BrokerInv, ScanTimesOut
    PROVE  BrokerInv'
<1>1. work.phase = "scan" /\ work.decoder \in Decoder
  BY DEF ScanTimesOut, BrokerInv, TypeOK
<1>2. Settled(LeaseDropped(session, work.decoder))
  BY <1>1, LeaseSettles
<1>3. QED
  BY <1>2, RefreshFailsKeeps DEF ScanTimesOut

LEMMA CancelKeeps ==
    ASSUME BrokerInv, Cancel
    PROVE  BrokerInv'
<1>1. /\ work.phase \in {"floor", "attach", "scan"} /\ work' = Free
      /\ UNCHANGED <<disk, producer, caller, queue, retried, sinceScan, consumed>>
      /\ conn' \in {conn, Closed} /\ conn \in [open : BOOLEAN, decoder : Decoder]
      /\ conn.open => ~Assembling(conn.decoder)
  BY DEF Cancel, history, BrokerInv, TypeOK, ConnectionInv
<1>2. work' \in Work /\ work'.phase = "none" /\ work'.by = Nobody
  BY <1>1, FreeIsWork
<1>3. Settled(session')
  <2>1. CASE work.phase = "scan"
    <3>1. work.decoder \in Decoder
      BY DEF BrokerInv, TypeOK
    <3>2. QED
      BY <2>1, <3>1, LeaseSettles DEF Cancel
  <2>2. CASE work.phase # "scan"
    BY <2>2, SettledSession DEF Cancel
  <2>3. QED
    BY <2>1, <2>2
<1>4. session' \in Session /\ SessionInv' /\ ConsumedInv'
  BY <1>1, <1>2, <1>3, SettledHolds
<1>5. /\ conn' \in [open : BOOLEAN, decoder : Decoder]
      /\ ConnectionInv'
  BY <1>1, <1>2, ClosedIsConnection DEF ConnectionInv
<1>6. ScanInv' /\ DemandInv'
  BY <1>2 DEF ScanInv, DemandInv
<1>7. sinceScan' \in 0..Floor /\ consumed' \in [Incarnations -> 0..MaxSequence]
  BY <1>1 DEF BrokerInv, TypeOK
<1>8. QED
  BY <1>1, <1>2, <1>4, <1>5, <1>6, <1>7, HolderKeeps

-----------------------------------------------------------------------------
(* Capability metadata, the timer and the environment. *)

\* The session of a lock's holder that is no refresh, left settled.
LEMMA MetadataLeaves ==
    ASSUME BrokerInv, work.phase \in {"none", "metadata"}, NEW s, Settled(s), session' = s,
           work' = Free \/ (work' = work /\ work.phase = "none"),
           conn' \in [open : BOOLEAN, decoder : Decoder], conn'.open => ~Assembling(conn'.decoder),
           UNCHANGED <<disk, producer, caller, queue, history>>
    PROVE  BrokerInv'
<1>1. work' \in Work /\ work'.phase = "none" /\ work'.by = Nobody
  BY FreeIsWork DEF BrokerInv, TypeOK, WorkInv, Work
<1>2. session' \in Session /\ SessionInv' /\ ConsumedInv'
  BY <1>1, SettledHolds DEF history
<1>3. ConnectionInv' /\ ScanInv' /\ DemandInv'
  BY <1>1 DEF ConnectionInv, ScanInv, DemandInv
<1>4. sinceScan' \in 0..Floor /\ consumed' \in [Incarnations -> 0..MaxSequence]
  BY DEF history, BrokerInv, TypeOK
<1>5. QED
  BY <1>1, <1>2, <1>3, <1>4, HolderKeeps DEF history

\* The session metadata finds: without what has expired, or failed and of the disk's identity.
MovedAway == Expire(session).identity # NoIdentity /\ Expire(session).identity # disk
Looked == IF MovedAway THEN [Fail(Expire(session), "identity-mismatch") EXCEPT !.identity = disk]
          ELSE Expire(session)

LEMMA LookedSettles ==
    ASSUME BrokerInv, work.phase # "scan"
    PROVE  Settled(Looked) /\ Looked.incarnation = session.incarnation
<1> DEFINE failed == Fail(Expire(session), "identity-mismatch")
           t == [failed EXCEPT !.identity = disk]
<1>1. Settled(Expire(session)) /\ Expire(session).incarnation = session.incarnation
  BY SettledSession, SessionDiscards, DiscardingSettles DEF Settled, Discards
<1>2. Settled(failed) /\ failed.incarnation = session.incarnation
  BY <1>1, SessionDiscards, DiscardingSettles DEF Settled, Discards
<1>3. disk \in Identities \cup {NoIdentity}
  BY DEF BrokerInv, TypeOK
<1> HIDE DEF failed
<1>4. /\ t \in Session /\ t.latest = failed.latest /\ t.incarnation = failed.incarnation
      /\ t.sequence = failed.sequence /\ t.refusal = failed.refusal
      /\ t.accept = failed.accept /\ t.sinceStart = failed.sinceStart
  BY <1>2, <1>3 DEF Settled, Session
<1> HIDE DEF t
<1>5. Settled(t) /\ t.incarnation = session.incarnation
  BY <1>2, <1>4 DEF Settled, Coherent
<1>6. QED
  BY <1>1, <1>5 DEF Looked, t, failed

LEMMA MetadataKeeps ==
    ASSUME BrokerInv, Metadata
    PROVE  BrokerInv'
<1> DEFINE s == Looked
<1>1. /\ work.phase = "none" /\ UNCHANGED <<disk, producer, caller, queue, history>>
      /\ conn \in [open : BOOLEAN, decoder : Decoder]
      /\ conn.open => ~Assembling(conn.decoder)
  BY DEF Metadata, BrokerInv, TypeOK, ConnectionInv
<1>2. Settled(s)
  BY <1>1, LookedSettles
<1>3. \/ session' = s /\ conn' \in {conn, Closed} /\ UNCHANGED work
      \/ /\ s.refusal = "none" /\ Current
         /\ session' = (IF Attach(s, conn.decoder.incarnation).error = "none"
                        THEN Attach(s, conn.decoder.incarnation).session
                        ELSE Fail(Attach(s, conn.decoder.incarnation).session,
                                  Attach(s, conn.decoder.incarnation).error))
         /\ conn' \in {conn, Closed} /\ UNCHANGED work
      \/ /\ \E reason \in Unusable : session' = Fail(s, reason)
         /\ conn' = Closed /\ UNCHANGED work
      \/ /\ s.refusal = "none"
         /\ session' = s /\ conn' = Closed /\ work' = [Free EXCEPT !.phase = "metadata"]
  BY DEF Metadata, Looked, MovedAway
<1> HIDE DEF s
<1>4. CASE session' = s /\ conn' \in {conn, Closed} /\ UNCHANGED work
  BY <1>1, <1>2, <1>4, ClosedIsConnection, MetadataLeaves
<1>5. CASE /\ s.refusal = "none" /\ Current
           /\ session' = (IF Attach(s, conn.decoder.incarnation).error = "none"
                          THEN Attach(s, conn.decoder.incarnation).session
                          ELSE Fail(Attach(s, conn.decoder.incarnation).session,
                                    Attach(s, conn.decoder.incarnation).error))
           /\ conn' \in {conn, Closed} /\ UNCHANGED work
  <2>1. conn.decoder.incarnation = producer
    BY <1>5 DEF Current
  <2>2. Settled(Attach(s, producer).session)
    BY <1>2, AttachSettles
  <2>3. Settled(Fail(Attach(s, producer).session, Attach(s, producer).error))
    BY <2>2, SessionDiscards, DiscardingSettles DEF Settled
  <2>4. Settled(session')
    BY <1>5, <2>1, <2>2, <2>3
  <2>5. QED
    BY <1>1, <1>5, <2>4, ClosedIsConnection, MetadataLeaves
<1>6. CASE /\ s.refusal = "none"
           /\ session' = s /\ conn' = Closed /\ work' = [Free EXCEPT !.phase = "metadata"]
  <2>1. work' \in Work /\ work'.phase = "metadata" /\ work'.by = Nobody
    BY <1>6, FreeIsWork DEF Work
  <2>2. session' \in Session /\ SessionInv' /\ ConsumedInv'
    BY <1>1, <1>2, <1>6, <2>1, SettledHolds DEF history
  <2>3. ConnectionInv' /\ ScanInv' /\ DemandInv'
    BY <1>6, <2>1, ClosedIsConnection DEF ConnectionInv, ScanInv, DemandInv
  <2>4. sinceScan' \in 0..Floor /\ consumed' \in [Incarnations -> 0..MaxSequence]
    BY <1>1 DEF history, BrokerInv, TypeOK
  <2>5. QED
    BY <1>1, <1>6, <2>1, <2>2, <2>3, <2>4, ClosedIsConnection, HolderKeeps DEF history
<1>7. CASE /\ \E reason \in Unusable : session' = Fail(s, reason)
           /\ conn' = Closed /\ UNCHANGED work
  <2>1. PICK reason \in Unusable : session' = Fail(s, reason)
    BY <1>7
  <2>2. Settled(session')
    BY <1>2, <2>1, SessionDiscards, DiscardingSettles DEF Settled
  <2>3. QED
    BY <1>1, <1>7, <2>2, ClosedIsConnection, MetadataLeaves
<1>8. QED
  BY <1>3, <1>4, <1>5, <1>6, <1>7

LEMMA MetadataEndsKeeps ==
    ASSUME BrokerInv, MetadataEnds
    PROVE  BrokerInv'
<1> DEFINE a == Attach(session, producer)
<1>1. /\ work.phase = "metadata" /\ work' = Free /\ ~conn.open
      /\ UNCHANGED <<disk, producer, caller, queue, history>>
      /\ conn \in [open : BOOLEAN, decoder : Decoder] /\ producer \in Incarnations
  BY DEF MetadataEnds, BrokerInv, TypeOK, ConnectionInv
<1>2. Settled(session)
  BY <1>1, SettledSession
<1>3. Settled(a.session)
  BY <1>2, AttachSettles
<1>4. \A reason : Settled(Fail(session, reason)) /\ Settled(Fail(a.session, reason))
  BY <1>2, <1>3, SessionDiscards, DiscardingSettles DEF Settled
<1>5. Settled(session') /\ conn' \in {conn, Closed, Opened(Handshaken(producer))}
  BY <1>2, <1>3, <1>4 DEF MetadataEnds
<1>6. /\ Opened(Handshaken(producer)) \in [open : BOOLEAN, decoder : Decoder]
      /\ Opened(Handshaken(producer)).decoder = Handshaken(producer)
      /\ ~Assembling(Handshaken(producer))
  BY <1>1, HandshakenIsADecoder DEF Opened
<1>7. conn' \in [open : BOOLEAN, decoder : Decoder] /\ (conn'.open => ~Assembling(conn'.decoder))
  BY <1>1, <1>5, <1>6, ClosedIsConnection
<1>8. PICK s : Settled(s) /\ session' = s
  BY <1>5
<1>9. work' = Free \/ (work' = work /\ work.phase = "none")
  BY <1>1
<1>10. QED
  BY <1>1, <1>7, <1>8, <1>9, MetadataLeaves

LEMMA ExpiryTimerKeeps ==
    ASSUME BrokerInv, ExpiryTimer
    PROVE  BrokerInv'
<1>1. /\ work.phase = "none" /\ session' = Expire(session)
      /\ UNCHANGED <<disk, producer, conn, caller, queue, work, history>>
      /\ conn \in [open : BOOLEAN, decoder : Decoder] /\ (conn.open => ~Assembling(conn.decoder))
  BY DEF ExpiryTimer, BrokerInv, TypeOK, ConnectionInv
<1>2. Settled(Expire(session))
  BY <1>1, SettledSession, SessionDiscards, DiscardingSettles DEF Settled
<1>3. /\ work' = work /\ UNCHANGED <<disk, producer, caller, queue, history>>
      /\ conn' \in [open : BOOLEAN, decoder : Decoder]
      /\ conn'.open => ~Assembling(conn'.decoder)
  BY <1>1
<1>4. QED
  BY <1>1, <1>2, <1>3, MetadataLeaves

LEMMA EnvironmentKeeps ==
    ASSUME BrokerInv, DiskChanges \/ ProducerRestarts
    PROVE  BrokerInv'
<1>1. /\ UNCHANGED <<session, conn, caller, queue, work, sinceScan, consumed, retried>>
      /\ disk' \in Identities \cup {NoIdentity}
      /\ producer' \in Incarnations /\ producer <= producer'
  <2>1. producer \in Incarnations /\ disk \in Identities \cup {NoIdentity}
    BY DEF BrokerInv, TypeOK
  <2>2. CASE DiskChanges
    BY <2>1, <2>2 DEF DiskChanges, history, Incarnations
  <2>3. CASE ProducerRestarts
    BY <2>1, <2>3, WireAssumption DEF ProducerRestarts, history, Incarnations
  <2>4. QED
    BY <2>2, <2>3
<1>2. TypeOK'
  BY <1>1 DEF BrokerInv, TypeOK
<1>3. SessionInv'
  BY <1>1 DEF BrokerInv, TypeOK, SessionInv, Incarnations
<1>4. ConsumedInv' /\ ConnectionInv' /\ ScanInv' /\ WorkInv' /\ QueueInv' /\ DemandInv' /\ PermitInv'
  BY <1>1 DEF BrokerInv, ConsumedInv, ConnectionInv, ScanInv, WorkInv, QueueInv, DemandInv,
              PermitInv, Holding
<1>5. QED
  BY <1>2, <1>3, <1>4 DEF BrokerInv

LEMMA ClockJumpsKeeps ==
    ASSUME BrokerInv, ClockJumps
    PROVE  BrokerInv'
<1> DEFINE e == [session.latest EXCEPT !.age = AgeCap, !.published = AgeCap]
<1>1. /\ session.latest # NoEvidence
      /\ UNCHANGED <<disk, producer, conn, caller, queue, work, sinceScan, consumed, retried>>
      /\ session \in Session /\ session.refusal = "none" /\ ~session.accept
      /\ Coherent(session)
  BY DEF ClockJumps, history, BrokerInv, TypeOK, Session, SessionInv, Coherent
<1>2. session' = [session EXCEPT !.latest = e]
  BY <1>1 DEF ClockJumps, Session
<1>3. /\ e \in [incarnation : 0..MaxIncarnation, sequence : 0..MaxSequence,
                age : 0..AgeCap, published : 0..AgeCap]
      /\ e.incarnation = session.latest.incarnation /\ e.sequence = session.latest.sequence
      /\ e.age = Expiry
  <2>1. AgeCap \in 0..AgeCap
    BY BrokerAssumption DEF AgeCap
  <2>2. QED
    BY <1>1, <2>1 DEF Session, AgeCap
<1> HIDE DEF e
<1>4. /\ session' \in Session /\ session'.latest = e /\ session'.sinceStart = session.sinceStart
      /\ session'.incarnation = session.incarnation /\ session'.sequence = session.sequence
      /\ session'.accept = session.accept /\ session'.refusal = session.refusal
      /\ session'.failed = session.failed
  BY <1>1, <1>2, <1>3 DEF Session
<1>5. SessionInv'
  BY <1>1, <1>3, <1>4 DEF BrokerInv, SessionInv, Coherent
<1>6. ConsumedInv' /\ ConnectionInv'
  BY <1>1, <1>4 DEF BrokerInv, ConsumedInv, ConnectionInv
<1>7. ScanInv'
  BY <1>1, <1>4 DEF BrokerInv, ScanInv
<1>8. DemandInv'
  BY <1>1, <1>3, <1>4, BrokerAssumption DEF BrokerInv, DemandInv
<1>9. /\ work' \in Work /\ work'.by \in {work.by, Nobody}
      /\ conn' \in [open : BOOLEAN, decoder : Decoder]
      /\ sinceScan' \in 0..Floor /\ consumed' \in [Incarnations -> 0..MaxSequence]
      /\ work'.phase \in {"none", "metadata"} => work'.by = Nobody
      /\ work'.phase \in {"floor", "attach", "scan", "metadata"} => session'.refusal = "none"
      /\ work'.phase = "attach" => session'.sinceStart >= Floor
      /\ UNCHANGED <<disk, producer, caller, queue, retried>>
  BY <1>1, <1>4 DEF BrokerInv, TypeOK, Work, WorkInv
<1>10. QED
  BY <1>4, <1>5, <1>6, <1>7, <1>8, <1>9, HolderKeeps

LEMMA TickKeeps ==
    ASSUME BrokerInv, Tick
    PROVE  BrokerInv'
<1>1. /\ session \in Session /\ Coherent(session)
      /\ caller \in [Callers -> Call] /\ work \in Work
      /\ sinceScan \in 0..Floor /\ session.sinceStart = sinceScan
      /\ UNCHANGED <<disk, producer, conn, queue, consumed, retried>>
  BY DEF Tick, BrokerInv, TypeOK, Session, Call, Work, SessionInv
<1>2. /\ session' \in Session /\ Coherent(session')
      /\ session'.incarnation = session.incarnation /\ session'.sequence = session.sequence
      /\ session'.accept = session.accept /\ session'.refusal = session.refusal
      /\ session'.failed = session.failed
      /\ session'.sinceStart = UpTo(session.sinceStart, Floor)
      /\ session.latest = NoEvidence => session'.latest = NoEvidence
      /\ session.latest # NoEvidence =>
           /\ session'.latest.age = UpTo(session.latest.age, AgeCap)
           /\ session'.latest.published = UpTo(session.latest.published, AgeCap)
  BY <1>1, SessionAges DEF Tick
<1>3. /\ caller' \in [Callers -> Call]
      /\ \A c \in Callers : caller'[c].pc = caller[c].pc
      /\ \A c \in Observers : caller[c].age < Deadline /\ caller'[c].age = caller[c].age + 1
  <2>1. ASSUME NEW c \in Callers
        PROVE  /\ caller'[c] \in Call /\ caller'[c].pc = caller[c].pc
               /\ c \in Observers => /\ caller[c].age < Deadline
                                     /\ caller'[c].age = caller[c].age + 1
    <3>1. CASE c \in Observers
      <4>1. caller[c].age \in 0..Deadline /\ ~(caller[c].age >= Deadline) /\ Deadline \in Nat
        BY <1>1, <2>1, <3>1, BrokerAssumption DEF Tick, TimerDue, Call
      <4>2. UpTo(caller[c].age, Deadline) = caller[c].age + 1 /\ caller[c].age + 1 \in 0..Deadline
        BY <4>1 DEF UpTo
      <4>3. caller'[c] = [caller[c] EXCEPT !.age = UpTo(caller[c].age, Deadline)]
        BY <2>1, <3>1 DEF Tick
      <4>4. QED
        BY <1>1, <2>1, <4>1, <4>2, <4>3 DEF Call
    <3>2. CASE c \notin Observers
      BY <1>1, <2>1, <3>2 DEF Tick
    <3>3. QED
      BY <3>1, <3>2
  <2>2. caller' = [c \in Callers |-> caller'[c]]
    BY DEF Tick
  <2>3. caller' \in [Callers -> Call]
    BY <2>1, <2>2
  <2>4. QED
    BY <2>1, <2>3 DEF Observers
<1>4. /\ work' \in Work /\ work'.phase = work.phase /\ work'.by = work.by
      /\ work'.decoder = work.decoder
      /\ work.phase = "scan" => work'.elapsed = work.elapsed + 1
  <2>1. CASE work.phase \in {"attach", "metadata", "scan"}
    <3>1. work.elapsed \in 0..ScanLimit /\ work.elapsed + 1 \in 0..ScanLimit
      <4>1. work.elapsed \in 0..ScanLimit /\ work.elapsed < ScanLimit
        BY <1>1, <2>1, BrokerAssumption DEF Tick, TimerDue, Work
      <4>2. QED
        BY <4>1, BrokerAssumption
    <3>2. work' = [work EXCEPT !.elapsed = work.elapsed + 1]
      BY <2>1 DEF Tick
    <3>3. QED
      BY <1>1, <3>1, <3>2 DEF Work
  <2>2. CASE work.phase \notin {"attach", "metadata", "scan"}
    BY <1>1, <2>2 DEF Tick
  <2>3. QED
    BY <2>1, <2>2
<1>5. sinceScan' \in 0..Floor /\ sinceScan' = session'.sinceStart
  BY <1>1, <1>2, BrokerAssumption DEF Tick, UpTo
<1>6. TypeOK'
  BY <1>1, <1>2, <1>3, <1>4, <1>5 DEF BrokerInv, TypeOK, Session, Call, Work
<1>7. SessionInv' /\ ConsumedInv'
  BY <1>1, <1>2, <1>4, <1>5 DEF BrokerInv, SessionInv, ConsumedInv
<1>8. ConnectionInv' /\ ScanInv'
  BY <1>1, <1>2, <1>4 DEF BrokerInv, ConnectionInv, ScanInv
<1>9. WorkInv'
  <2>1. session.sinceStart >= Floor => session'.sinceStart >= Floor
    BY <1>1, <1>2, BrokerAssumption DEF UpTo
  <2>2. work.by # Nobody => work.by \in Callers
    BY <1>1 DEF Work
  <2>3. QED
    BY <1>2, <1>3, <1>4, <2>1, <2>2 DEF BrokerInv, WorkInv
<1>10. QueueInv'
  <2>1. \A i \in DOMAIN queue : queue[i] \in Callers
    BY DEF BrokerInv, TypeOK
  <2>2. QED
    BY <1>1, <1>3, <2>1 DEF BrokerInv, QueueInv
<1>11. PermitInv'
  BY <1>3, PermitsAreKept
<1>12. DemandInv'
  <2> SUFFICES ASSUME work.by # Nobody PROVE DemandInv'
    BY <1>4 DEF DemandInv
  <2> DEFINE c == work.by
  <2>1. /\ c \in Observers /\ c \in Callers /\ caller'[c].age = caller[c].age + 1
        /\ caller[c].age \in 0..Deadline
    <3>1. c \in Callers /\ caller[c].pc = "refreshing"
      BY <1>1 DEF BrokerInv, WorkInv, Work
    <3>2. caller[c].age \in 0..Deadline
      BY <1>1, <3>1 DEF Call
    <3>3. QED
      BY <1>3, <3>1, <3>2 DEF Observers
  <2>2. work'.phase = "scan" => work'.elapsed <= caller'[work'.by].age
    BY <1>1, <1>4, <2>1 DEF BrokerInv, DemandInv, Work
  <2>3. ASSUME work'.phase = "done", ~session'.failed, session'.latest # NoEvidence
        PROVE  \/ session'.latest.age >= Expiry
               \/ /\ session'.latest.age <= caller'[c].age
                  /\ session'.latest.published <= caller'[c].age
    <3>1. /\ session.latest # NoEvidence
          /\ session'.latest.age = UpTo(session.latest.age, AgeCap)
          /\ session'.latest.published = UpTo(session.latest.published, AgeCap)
      BY <1>2, <2>3
    <3>2. \/ session.latest.age >= Expiry
          \/ /\ session.latest.age <= caller[c].age
             /\ session.latest.published <= caller[c].age
      BY <1>2, <1>4, <2>3, <3>1 DEF BrokerInv, DemandInv
    <3>3. session.latest.age \in 0..Expiry /\ session.latest.published \in 0..Expiry /\ Expiry \in Nat
      BY <1>1, BrokerAssumption DEF Session, AgeCap
    <3>4. /\ session'.latest.age = IF session.latest.age >= Expiry THEN Expiry
                                   ELSE session.latest.age + 1
          /\ session'.latest.published = IF session.latest.published >= Expiry THEN Expiry
                                         ELSE session.latest.published + 1
      BY <3>1 DEF UpTo, AgeCap
    <3>5. session'.latest.age <= session.latest.age + 1
          /\ session'.latest.published <= session.latest.published + 1
      BY <3>3, <3>4
    <3>6. CASE session.latest.age >= Expiry
      BY <3>3, <3>4, <3>6
    <3>7. CASE /\ session.latest.age <= caller[c].age
               /\ session.latest.published <= caller[c].age
      <4>1. session'.latest.age \in Int /\ session'.latest.published \in Int
        BY <3>3, <3>4
      <4>2. QED
        BY <2>1, <3>3, <3>5, <3>7, <4>1
    <3>8. QED
      BY <3>2, <3>6, <3>7
  <2>4. QED
    BY <1>4, <2>2, <2>3 DEF DemandInv
<1>13. QED
  BY <1>6, <1>7, <1>8, <1>9, <1>10, <1>11, <1>12 DEF BrokerInv

-----------------------------------------------------------------------------
(* The invariant, and what follows from it. *)

LEMMA BrokerStarts == Init => BrokerInv
<1> SUFFICES ASSUME Init PROVE BrokerInv
  OBVIOUS
<1> USE DEF Init
<1>1. session \in Session /\ Coherent(session)
  BY NoEvidenceIsEvidence, WireAssumption, BrokerAssumption DEF Session, Coherent
<1>2. caller \in [Callers -> Call] /\ Holding = {}
  BY AwayIsACall DEF Holding, Away
<1>3. TypeOK
  <2>1. producer \in Incarnations /\ sinceScan \in 0..Floor /\ 0 \in 0..MaxSequence
    BY WireAssumption, BrokerAssumption DEF Incarnations
  <2>2. conn \in [open : BOOLEAN, decoder : Decoder] /\ work \in Work /\ queue \in Seq(Callers)
    BY FreeIsWork, ClosedIsConnection
  <2>3. disk \in Identities \cup {NoIdentity} /\ retried \in BOOLEAN
    OBVIOUS
  <2>4. consumed \in [Incarnations -> 0..MaxSequence]
    BY <2>1
  <2> QED
    BY <1>1, <1>2, <2>1, <2>2, <2>3, <2>4 DEF TypeOK, Session, Call, Work
<1>4. SessionInv /\ ConsumedInv
  BY <1>1, WireAssumption DEF SessionInv, ConsumedInv
<1>5. ConnectionInv /\ ScanInv /\ WorkInv /\ DemandInv
  BY FreeIsWork, ClosedIsConnection DEF ConnectionInv, ScanInv, WorkInv, DemandInv
<1>6. QueueInv
  BY DEF QueueInv
<1>7. PermitInv
  BY <1>2, FS_EmptySet, BrokerAssumption DEF PermitInv
<1>8. QED
  BY <1>3, <1>4, <1>5, <1>6, <1>7 DEF BrokerInv

LEMMA BrokerStutters ==
    ASSUME BrokerInv, UNCHANGED vars
    PROVE  BrokerInv'
BY DEF vars, history, BrokerInv, TypeOK, SessionInv, ConsumedInv, ConnectionInv, ScanInv, WorkInv,
       QueueInv, DemandInv, PermitInv, Holding

LEMMA BrokerSteps ==
    ASSUME BrokerInv, Next
    PROVE  BrokerInv'
BY RequestKeeps, LeaveKeeps, BodyDroppedKeeps, AcquireKeeps, AnswerKeeps, ReleaseKeeps,
   FloorPassedKeeps, HandshakeEndsKeeps, ScanTimesOutKeeps, CancelKeeps, ReceiveKeeps,
   MetadataKeeps, MetadataEndsKeeps, ExpiryTimerKeeps, EnvironmentKeeps, TickKeeps, ClockJumpsKeeps
DEF Next

\* The broker's state is typed, its queue without doubles, its session of one incarnation and ahead
\* of every scan it does not run (session.rs: Inner, ScanLease, observe, refresh_demand).
THEOREM BrokerIsCoherent == Spec => []BrokerInv
<1>1. BrokerInv /\ [Next]_vars => BrokerInv'
  BY BrokerSteps, BrokerStutters
<1>2. QED
  BY BrokerStarts, <1>1, PTL DEF Spec

-----------------------------------------------------------------------------
(* Scan requests. *)

\* Only an attachment starts a scan.
LEMMA ScanStarts ==
    ASSUME BrokerInv, Next, work.phase # "scan", work'.phase = "scan"
    PROVE  FloorPassed \/ HandshakeEnds
<1>1. ASSUME NEW c \in Callers, NEW k \in Kinds PROVE ~Request(c, k)
  BY DEF Request
<1>2. ASSUME NEW c \in Callers PROVE ~Leave(c) /\ ~BodyDropped(c)
  BY DEF Leave, BodyDropped, BrokerInv, TypeOK
<1>3. ~Acquire
  <2>1. [Free EXCEPT !.phase = "floor", !.by = Head(queue)].phase = "floor"
    BY DEF Free
  <2>2. QED
    BY <2>1 DEF Acquire
<1>4. ~Answer /\ ~Release /\ ~Cancel /\ ~MetadataEnds
  BY FreeIsWork DEF Answer, Release, Cancel, MetadataEnds
<1>5. ~Metadata
  <2>1. [Free EXCEPT !.phase = "metadata"].phase = "metadata"
    BY DEF Free
  <2>2. QED
    BY <2>1 DEF Metadata
<1>6. ~ScanTimesOut /\ \A f \in Frames : ~Receive(f)
  BY DEF ScanTimesOut, Receive
<1>7. ~ExpiryTimer /\ ~DiskChanges /\ ~ProducerRestarts /\ ~ClockJumps
  BY DEF ExpiryTimer, DiskChanges, ProducerRestarts, ClockJumps
<1>8. ~Tick
  BY DEF Tick, BrokerInv, TypeOK
<1>9. QED
  BY <1>1, <1>2, <1>3, <1>4, <1>5, <1>6, <1>7, <1>8 DEF Next

\* Scan requests are Floor apart, whatever became of the one before and whichever connection
\* sends the next (session.rs refresh_demand, last_start).
THEOREM ScansKeepTheFloor == Spec => ScansAreApart
<1>1. ASSUME BrokerInv, Next, work.phase # "scan", work'.phase = "scan"
      PROVE  sinceScan >= Floor
  <2>1. session.sinceStart = sinceScan /\ (work.phase = "attach" => session.sinceStart >= Floor)
    BY <1>1 DEF BrokerInv, SessionInv, WorkInv
  <2>2. FloorPassed \/ HandshakeEnds
    BY <1>1, ScanStarts
  <2>3. QED
    BY <2>1, <2>2 DEF FloorPassed, HandshakeEnds
<1>2. BrokerInv /\ [Next]_vars => [work.phase # "scan" /\ work'.phase = "scan" => sinceScan >= Floor]_vars
  BY <1>1
<1>3. QED
  BY <1>2, BrokerIsCoherent, PTL DEF Spec, ScansAreApart

-----------------------------------------------------------------------------
(* Restarts of the producer. *)

\* A step between captures: evidence is kept or dropped, and of another incarnation the session is
\* on a retry only.
Lesser(t) ==
    /\ t.latest \in {session.latest, NoEvidence}
    /\ session.incarnation \notin {0, t.incarnation} => retried

LEMMA DiscardsAreLesser ==
    ASSUME NEW s, NEW t, Lesser(s), Discards(s, t)
    PROVE  Lesser(t)
BY DEF Lesser, Discards

LEMMA AttachIsLesser ==
    ASSUME NEW s, Settled(s), Lesser(s), s.incarnation = session.incarnation,
           NEW i \in Incarnations
    PROVE  Lesser(Attach(s, i).session)
<1>1. /\ s \in Session /\ Coherent(s) /\ (s.accept => retried)
      /\ s.latest \in {session.latest, NoEvidence}
  BY DEF Settled, Lesser
<1>2. /\ Attach(s, i).session.latest \in {s.latest, NoEvidence}
      /\ s.incarnation \notin {0, Attach(s, i).session.incarnation} => s.accept
  BY <1>1, AttachJoins
<1>3. QED
  BY <1>1, <1>2 DEF Lesser

LEMMA FailsAreLesser ==
    ASSUME NEW s, Settled(s), Lesser(s), NEW reason
    PROVE  Lesser(Fail(s, reason))
BY SessionDiscards, DiscardsAreLesser DEF Settled

LEMMA AttachedIsLesser ==
    ASSUME BrokerInv, NEW s, Settled(s), Lesser(s), s.incarnation = session.incarnation,
           NEW d, Attached(s, d), d.incarnation = producer
    PROVE  Lesser(session') /\ consumed' = consumed
<1> DEFINE a == Attach(s, producer)
<1>1. producer \in Incarnations
  BY DEF BrokerInv, TypeOK
<1>2. Settled(a.session) /\ Lesser(a.session)
  BY <1>1, AttachSettles, AttachIsLesser
<1>3. CASE a.error # "none"
  <2>1. session' = Fail(a.session, a.error) /\ consumed' = consumed
    BY <1>3 DEF Attached, RefreshFails
  <2>2. Lesser(Fail(a.session, a.error))
    BY <1>2, FailsAreLesser
  <2>3. QED
    BY <2>1, <2>2 DEF Lesser
<1>4. CASE a.error = "none"
  <2>1. session' = [a.session EXCEPT !.sinceStart = 0] /\ consumed' = consumed
    BY <1>4 DEF Attached
  <2> HIDE DEF a
  <2>2. session'.latest = a.session.latest /\ session'.incarnation = a.session.incarnation
    BY <1>2, <2>1 DEF Settled, Session
  <2>3. QED
    BY <1>2, <2>1, <2>2 DEF Lesser
<1>5. QED
  BY <1>3, <1>4

\* Of all steps, only a frame consumes a sequence or brings evidence, and only time ages it.
LEMMA LesserSteps ==
    ASSUME BrokerInv, Next, ~Tick, ~ClockJumps, \A f \in Frames : ~Receive(f)
    PROVE  Lesser(session') /\ consumed' = consumed
<1> USE DEF history
<1>1. /\ session \in Session /\ Coherent(session) /\ Lesser(session)
      /\ producer \in Incarnations /\ work.decoder \in Decoder
  BY DEF BrokerInv, TypeOK, Session, SessionInv, Lesser
<1>2. Lesser(Expire(session)) /\ Lesser(BeforeRefresh(session))
  BY <1>1, SessionDiscards, DiscardsAreLesser
<1>3. ASSUME NEW c \in Callers,
             (\E k \in Kinds : Request(c, k)) \/ Leave(c) \/ BodyDropped(c)
      PROVE  Lesser(session') /\ consumed' = consumed
  BY <1>1, <1>3 DEF Request, Leave, BodyDropped, Lesser
<1>4. CASE Acquire
  <2>1. Head(queue) \in Callers /\ work.phase # "scan"
    BY <1>4 DEF Acquire, BrokerInv, TypeOK
  <2>2. session' = Found(Head(queue)) /\ consumed' = consumed
    BY <1>4 DEF Acquire, Found, Entered
  <2>3. QED
    BY <1>2, <2>1, <2>2, FoundSession DEF Lesser
<1>5. CASE Answer \/ ExpiryTimer
  BY <1>2, <1>5 DEF Answer, ExpiryTimer, Lesser
<1>6. CASE FloorPassed
  <2> DEFINE s == BeforeRefresh(session)
  <2>1. Discards(session, s) /\ Settled(session)
    BY <1>1, <1>6, SessionDiscards, SettledSession DEF FloorPassed
  <2>2. Settled(s) /\ s.incarnation = session.incarnation /\ Lesser(s)
    BY <1>2, <2>1, DiscardingSettles DEF Discards
  <2> HIDE DEF s
  <2>3. CASE Current /\ Attached(s, conn.decoder)
    BY <2>2, <2>3, AttachedIsLesser DEF Current
  <2>4. CASE \E reason \in Unusable : RefreshFails(s, reason)
    BY <2>2, <2>4, FailsAreLesser DEF RefreshFails, Lesser
  <2>5. CASE session' = s /\ UNCHANGED consumed
    BY <2>2, <2>5 DEF Lesser
  <2>6. QED
    BY <1>6, <2>3, <2>4, <2>5 DEF FloorPassed, s
<1>7. CASE HandshakeEnds
  <2>1. Settled(session)
    BY <1>7, SettledSession DEF HandshakeEnds
  <2>2. CASE Attached(session, Handshaken(producer))
    BY <1>1, <2>1, <2>2, HandshakenIsADecoder, AttachedIsLesser
  <2>3. ASSUME NEW reason, RefreshFails(session, reason)
        PROVE  Lesser(session') /\ consumed' = consumed
    BY <1>1, <2>1, <2>3, FailsAreLesser DEF RefreshFails, Lesser
  <2>4. QED
    BY <1>7, <2>2, <2>3 DEF HandshakeEnds
<1>8. CASE ScanTimesOut \/ Cancel
  <2> DEFINE s == LeaseDropped(session, work.decoder)
  <2>1. s.latest = session.latest /\ s.incarnation = session.incarnation
    BY <1>1, LeaseCounts
  <2>2. Lesser(s)
    BY <2>1 DEF Lesser
  <2>3. CASE ScanTimesOut
    <3>1. Settled(s) /\ session' = Fail(s, "scan-timeout") /\ consumed' = consumed
      BY <1>1, <2>3, LeaseSettles DEF ScanTimesOut, RefreshFails
    <3>2. QED
      BY <2>2, <3>1, FailsAreLesser DEF Lesser
  <2>4. CASE Cancel
    BY <1>1, <2>2, <2>4 DEF Cancel, Lesser
  <2>5. QED
    BY <1>8, <2>3, <2>4
<1>9. CASE Metadata
  <2>1. Settled(Looked) /\ Looked.incarnation = session.incarnation
    BY <1>9, LookedSettles DEF Metadata
  <2>2. Lesser(Looked)
    <3>1. Settled(Expire(session))
      BY <1>1, <1>9, SettledSession, SessionDiscards, DiscardingSettles DEF Metadata
    <3>2. Settled(Fail(Expire(session), "identity-mismatch"))
          /\ Lesser(Fail(Expire(session), "identity-mismatch"))
      BY <1>2, <3>1, FailsAreLesser, SessionDiscards, DiscardingSettles DEF Settled
    <3>3. QED
      BY <1>2, <3>2 DEF Looked, Lesser, Settled, Session
  <2>3. /\ consumed' = consumed
        /\ \/ session' = Looked
           \/ \E reason \in Unusable : session' = Fail(Looked, reason)
           \/ /\ Current
              /\ \/ session' = Attach(Looked, conn.decoder.incarnation).session
                 \/ session' = Fail(Attach(Looked, conn.decoder.incarnation).session,
                                    Attach(Looked, conn.decoder.incarnation).error)
    BY <1>9 DEF Metadata, Looked, MovedAway
  <2>4. Settled(Attach(Looked, producer).session) /\ Lesser(Attach(Looked, producer).session)
    BY <1>1, <2>1, <2>2, AttachSettles, AttachIsLesser
  <2>5. Lesser(Fail(Attach(Looked, producer).session, Attach(Looked, producer).error))
    BY <2>4, FailsAreLesser
  <2>6. ASSUME NEW reason \in Unusable PROVE Lesser(Fail(Looked, reason))
    BY <2>1, <2>2, FailsAreLesser
  <2>7. QED
    BY <2>2, <2>3, <2>4, <2>5, <2>6 DEF Current, Lesser
<1>10. CASE MetadataEnds
  <2> DEFINE a == Attach(session, producer)
  <2>1. Settled(session)
    BY <1>10, SettledSession DEF MetadataEnds
  <2>2. Settled(a.session) /\ Lesser(a.session)
    BY <1>1, <2>1, AttachSettles, AttachIsLesser
  <2>3. \A reason : Lesser(Fail(a.session, reason)) /\ Lesser(Fail(session, reason))
    BY <1>1, <2>1, <2>2, FailsAreLesser
  <2>4. /\ consumed' = consumed
        /\ \/ session' = a.session \/ session' = Fail(a.session, a.error)
           \/ \E reason : session' = Fail(session, reason)
           \/ session' = session
    BY <1>10 DEF MetadataEnds
  <2> HIDE DEF a
  <2>5. QED
    BY <1>1, <2>2, <2>3, <2>4 DEF Lesser
<1>11. CASE Release \/ DiskChanges \/ ProducerRestarts
  BY <1>1, <1>11 DEF Release, DiskChanges, ProducerRestarts, Lesser
<1>12. QED
  BY <1>3, <1>4, <1>5, <1>6, <1>7, <1>8, <1>9, <1>10, <1>11 DEF Next

\* What a frame does to the session and to what is consumed.
LEMMA ReceiveSteps ==
    ASSUME BrokerInv, NEW f \in Frames, Receive(f)
    PROVE  /\ session'.incarnation = session.incarnation
           /\ \/ /\ session'.latest \in {session.latest, NoEvidence} /\ consumed' = consumed
              \/ /\ session' = session
                 /\ \E n \in 1..MaxSequence :
                      /\ n > consumed[session.incarnation]
                      /\ consumed' = [consumed EXCEPT ![session.incarnation] = n]
              \/ /\ session'.latest.incarnation = session.incarnation
                 /\ session'.latest.sequence = consumed[session.incarnation]
                 /\ session'.latest.age \in 0..AgeCap
                 /\ session.sequence < consumed[session.incarnation]
                 /\ consumed' = consumed
<1> DEFINE d == work.decoder
           r == Accept(d, f)
           s == LeaseDropped(session, r.decoder)
<1>1. /\ work.phase = "scan" /\ d \in Decoder /\ session \in Session /\ Coherent(session)
      /\ d.incarnation = session.incarnation /\ session.sequence <= d.sequence
      /\ consumed[d.incarnation] <= d.sequence
      /\ Assembling(d) => /\ d.assembly.sequence = d.sequence
                          /\ consumed[d.incarnation] = d.sequence
                          /\ session.sequence < d.sequence
      /\ consumed \in [Incarnations -> 0..MaxSequence] /\ work \in Work
  BY DEF Receive, BrokerInv, TypeOK, Session, Work, ScanInv, SessionInv
<1>2. /\ r.decoder \in Decoder /\ r.decoder.incarnation = d.incarnation
      /\ r.error = "none" => Begins(d, r) \/ Continues(d, r) \/ Completes(d, r)
  BY <1>1, AcceptedFrames
<1>3. s \in Session /\ Coherent(s) /\ s.latest = session.latest /\ s.incarnation = session.incarnation
  BY <1>1, <1>2, LeaseCounts
<1>4. /\ d.sequence \in 0..MaxSequence /\ d.incarnation \in Incarnations
      /\ r.decoder.sequence \in 0..MaxSequence /\ session.sequence \in 0..MaxSequence
  <2> HIDE DEF r, d
  <2>1. d.sequence \in 0..MaxSequence /\ d.incarnation \in Incarnations
    BY <1>1 DEF Decoder
  <2>2. r.decoder.sequence \in 0..MaxSequence
    BY <1>2 DEF Decoder
  <2>3. QED
    BY <1>1, <2>1, <2>2 DEF Session
<1>5. CASE r.error # "none"
  <2>1. session' = Fail(s, r.error) /\ consumed' = consumed
    BY <1>5 DEF Receive, RefreshFails
  <2> HIDE DEF s, r
  <2>2. QED
    BY <1>3, <2>1, SessionDiscards DEF Discards
<1>6. CASE r.error = "none" /\ r.capture = 0
  <2>1. /\ consumed' = [consumed EXCEPT ![r.decoder.incarnation] = r.decoder.sequence]
        /\ session' = session
    BY <1>6 DEF Receive
  <2> HIDE DEF r, s, d
  <2>2. CASE Begins(d, r)
    <3>1. /\ r.decoder.sequence \in 1..MaxSequence
          /\ r.decoder.sequence > consumed[session.incarnation]
      BY <1>1, <1>4, <2>2 DEF Begins
    <3>2. QED
      BY <1>1, <1>2, <2>1, <3>1
  <2>3. CASE Continues(d, r)
    <3>1. consumed' = consumed
      BY <1>1, <1>2, <1>4, <2>1, <2>3 DEF Continues
    <3>2. QED
      BY <2>1, <3>1
  <2>4. CASE Completes(d, r)
    BY <1>1, <1>4, <1>6, <2>4 DEF Completes
  <2>5. QED
    BY <1>2, <1>6, <2>2, <2>3, <2>4
<1>7. CASE r.error = "none" /\ r.capture # 0
  <2> DEFINE e == [incarnation |-> r.decoder.incarnation, sequence |-> r.capture,
                   age |-> work.elapsed, published |-> 0]
  <2>1. session' = [s EXCEPT !.failed = FALSE, !.latest = e] /\ consumed' = consumed
    BY <1>7 DEF Receive
  <2>2. Completes(d, r)
    BY <1>2, <1>7 DEF Begins, Continues
  <2>3. work.elapsed \in 0..AgeCap
    BY <1>1, BrokerAssumption DEF Work, AgeCap
  <2>4. /\ e.incarnation = session.incarnation /\ e.sequence = consumed[session.incarnation]
        /\ e.age \in 0..AgeCap
    BY <1>1, <1>2, <2>2, <2>3 DEF Completes
  <2> HIDE DEF e, s, r, d
  <2>5. session'.latest = e /\ session'.incarnation = session.incarnation
    BY <1>3, <2>1 DEF Session
  <2>6. QED
    BY <1>1, <2>1, <2>2, <2>4, <2>5 DEF Completes
<1>8. QED
  BY <1>5, <1>6, <1>7

\* What time does.
LEMMA TimeSteps ==
    ASSUME BrokerInv, Tick \/ ClockJumps
    PROVE  /\ session'.incarnation = session.incarnation /\ consumed' = consumed
           /\ session.latest = NoEvidence => session'.latest = NoEvidence
           /\ session.latest # NoEvidence =>
                /\ session'.latest.incarnation = session.latest.incarnation
                /\ session'.latest.sequence = session.latest.sequence
                /\ session'.latest.age \in session.latest.age .. AgeCap
<1>1. session \in Session /\ Coherent(session) /\ session.latest.age \in 0..AgeCap
  BY DEF BrokerInv, TypeOK, Session, SessionInv
<1>2. CASE Tick
  <2>1. UpTo(session.latest.age, AgeCap) \in session.latest.age .. AgeCap
    BY <1>1, BrokerAssumption DEF UpTo, AgeCap
  <2>2. QED
    BY <1>1, <1>2, <2>1, SessionAges DEF Tick
<1>3. CASE ClockJumps
  <2>1. /\ session.latest # NoEvidence /\ consumed' = consumed
        /\ session' = [session EXCEPT !.latest.age = AgeCap, !.latest.published = AgeCap]
    BY <1>3 DEF ClockJumps, history
  <2>2. /\ session'.latest.age = AgeCap /\ session'.incarnation = session.incarnation
        /\ session'.latest.incarnation = session.latest.incarnation
        /\ session'.latest.sequence = session.latest.sequence
    BY <1>1, <2>1 DEF Session
  <2>3. QED
    BY <1>1, <2>1, <2>2, BrokerAssumption DEF AgeCap
<1>4. QED
  BY <1>2, <1>3

\* A session goes over to another incarnation of the producer only on a retry made since evidence
\* was last served (session.rs connect, accept_incarnation_change).
THEOREM RestartsAreAccepted == Spec => RestartNeedsRetry
<1>1. BrokerInv /\ [Next]_vars => [session.incarnation \notin {0, session'.incarnation} => retried]_vars
  <2> SUFFICES ASSUME BrokerInv, Next PROVE session.incarnation \notin {0, session'.incarnation} => retried
    OBVIOUS
  <2>1. CASE Tick \/ ClockJumps
    BY <2>1, TimeSteps
  <2>2. ASSUME NEW f \in Frames, Receive(f)
        PROVE  session'.incarnation = session.incarnation
    BY <2>2, ReceiveSteps
  <2>3. CASE ~Tick /\ ~ClockJumps /\ \A f \in Frames : ~Receive(f)
    BY <2>3, LesserSteps DEF Lesser
  <2>4. QED
    BY <2>1, <2>2, <2>3
<1>2. QED
  BY <1>1, BrokerIsCoherent, PTL DEF Spec, RestartNeedsRetry

-----------------------------------------------------------------------------
(* The promise, step by step. *)

HeldBy(s) == [incarnation |-> s.latest.incarnation, sequence |-> s.latest.sequence,
              age |-> s.latest.age]

LEMMA PromiseSteps ==
    ASSUME BrokerInv, Next
    PROVE  Promise!Next \/ (consumed' = consumed /\ HeldBy(session') = HeldBy(session))
<1> DEFINE held == HeldBy(session)
<1> USE DEF HeldBy
<1>1. /\ session \in Session /\ Coherent(session)
      /\ consumed \in [Incarnations -> 0..MaxSequence]
  BY DEF BrokerInv, TypeOK, Session, SessionInv
<1>2. /\ session.sequence \in 0..MaxSequence /\ session.incarnation \in 0..MaxIncarnation
      /\ session.latest.age \in 0..AgeCap /\ session.latest.sequence \in 0..MaxSequence
  BY <1>1 DEF Session
<1>3. ASSUME session'.latest \in {session.latest, NoEvidence}, consumed' = consumed
      PROVE  Promise!Next \/ (consumed' = consumed /\ HeldBy(session') = HeldBy(session))
  <2>1. CASE session'.latest = session.latest
    BY <1>3, <2>1
  <2>2. CASE session'.latest = NoEvidence
    BY <1>3, <2>2 DEF Promise!Next, Promise!Drop, Promise!Nothing, NoEvidence
  <2>3. QED
    BY <1>3, <2>1, <2>2
<1>4. CASE Tick \/ ClockJumps
  <2>1. CASE session.latest = NoEvidence
    BY <1>3, <1>4, <2>1, TimeSteps
  <2>2. CASE session.latest # NoEvidence
    <3>1. /\ held # Promise!Nothing
      BY <1>1, <2>2 DEF Coherent, Promise!Nothing
    <3>2. /\ session'.latest.age \in held.age .. AgeCap /\ consumed' = consumed
          /\ HeldBy(session') = [held EXCEPT !.age = session'.latest.age]
      BY <1>4, <2>2, TimeSteps
    <3>3. Promise!Age
      BY <3>1, <3>2 DEF Promise!Age
    <3>4. QED
      BY <3>3 DEF Promise!Next
  <2>3. QED
    BY <2>1, <2>2
<1>5. ASSUME NEW f \in Frames, Receive(f)
      PROVE  Promise!Next \/ (consumed' = consumed /\ HeldBy(session') = HeldBy(session))
  <2>1. session.incarnation \in Incarnations
    <3>1. work.decoder \in Decoder /\ work.decoder.incarnation = session.incarnation
      BY <1>5 DEF Receive, BrokerInv, TypeOK, ScanInv
    <3>2. QED
      BY <3>1 DEF Decoder
  <2>2. CASE session'.latest \in {session.latest, NoEvidence} /\ consumed' = consumed
    BY <1>3, <2>2
  <2>3. CASE /\ session' = session
             /\ \E n \in 1..MaxSequence :
                  /\ n > consumed[session.incarnation]
                  /\ consumed' = [consumed EXCEPT ![session.incarnation] = n]
    <3>1. Promise!Consume
      BY <2>1, <2>3 DEF Promise!Consume
    <3>2. QED
      BY <3>1 DEF Promise!Next
  <2>4. CASE /\ session'.latest.incarnation = session.incarnation
             /\ session'.latest.sequence = consumed[session.incarnation]
             /\ session'.latest.age \in 0..AgeCap
             /\ session.sequence < consumed[session.incarnation]
             /\ consumed' = consumed
    <3>1. /\ consumed[session.incarnation] \in 0..MaxSequence
          /\ consumed[session.incarnation] > 0
      BY <1>1, <1>2, <2>1, <2>4
    <3>2. /\ session.incarnation >= held.incarnation
          /\ session.incarnation = held.incarnation => consumed[session.incarnation] > held.sequence
      <4>1. CASE session.latest = NoEvidence
        BY <1>2, <3>1, <4>1 DEF NoEvidence
      <4>2. CASE session.latest # NoEvidence
        BY <1>1, <1>2, <2>4, <3>1, <4>2 DEF Coherent
      <4>3. QED
        BY <4>1, <4>2
    <3>3. HeldBy(session') = [incarnation |-> session.incarnation,
                              sequence |-> consumed[session.incarnation],
                              age |-> session'.latest.age]
      BY <2>4
    <3>4. Promise!Publish
      BY <2>1, <2>4, <3>1, <3>2, <3>3 DEF Promise!Publish
    <3>5. QED
      BY <3>4 DEF Promise!Next
  <2>5. QED
    BY <1>5, <2>2, <2>3, <2>4, ReceiveSteps
<1>6. CASE ~Tick /\ ~ClockJumps /\ \A f \in Frames : ~Receive(f)
  BY <1>3, <1>6, LesserSteps DEF Lesser
<1>7. QED
  BY <1>4, <1>5, <1>6

\* The broker implements the promise it makes of its evidence: a scan consumes a sequence that no
\* scan before it had, only the last one consumed is published, and what is held only ages until it
\* is dropped or replaced (session.rs ScanLease, publish, expire; wire.rs Decoder).
THEOREM PromiseIsKept == Spec => KeepsObservationPromise
<1>1. Init => Promise!Init
  BY DEF Init, Promise!Init, Promise!Nothing, NoEvidence
<1>2. BrokerInv /\ [Next]_vars =>
        [Promise!Next]_<<consumed, [incarnation |-> session.latest.incarnation,
                                    sequence |-> session.latest.sequence,
                                    age |-> session.latest.age]>>
  <2> SUFFICES ASSUME BrokerInv, [Next]_vars
               PROVE  Promise!Next \/ (consumed' = consumed /\ HeldBy(session') = HeldBy(session))
    BY DEF HeldBy
  <2>1. CASE Next
    BY <2>1, PromiseSteps
  <2>2. CASE UNCHANGED vars
    BY <2>2 DEF vars, history
  <2>3. QED
    BY <2>1, <2>2
<1>3. QED
  BY <1>1, <1>2, BrokerIsCoherent, PTL DEF Spec, KeepsObservationPromise, Promise!Spec

-----------------------------------------------------------------------------
(* Answers. *)

\* Only the holder of the lock is answered: whoever gets it, or whose refresh is done.
LEMMA WhoIsAnswered ==
    ASSUME BrokerInv, Next, NEW c \in Callers, Answered(c)
    PROVE  \/ Acquire /\ c = Head(queue) /\ Respond(c, session')
           \/ Answer /\ c = work.by
<1> USE DEF Answered
<1>1. caller \in [Callers -> Call]
  BY DEF BrokerInv, TypeOK, Call
<1>2. ASSUME NEW b \in Callers, NEW k \in Kinds, Request(b, k) PROVE FALSE
  <2> DEFINE call == [Away EXCEPT !.pc = "queued", !.kind = k, !.identity = disk]
  <2>1. call.pc = "queued"
    BY DEF Away
  <2> HIDE DEF call
  <2>2. caller' = [caller EXCEPT ![b] = call]
    BY <1>2 DEF Request, call
  <2>3. QED
    BY <1>1, <2>1, <2>2
<1>3. ASSUME NEW b \in Callers, Leave(b) \/ BodyDropped(b) PROVE FALSE
  <2>1. caller' = [caller EXCEPT ![b] = Away] /\ Away.pc = "idle"
    BY <1>3 DEF Leave, BodyDropped, Away
  <2>2. QED
    BY <1>1, <2>1
<1>4. ASSUME NEW b \in Callers, NEW t \in Session, Respond(b, t), caller[b].pc # "idle"
      PROVE  c = b
  BY <1>4, ResponseIsSent
<1>5. CASE Acquire
  <2> DEFINE b == Head(queue)
  <2>1. b \in Callers /\ caller[b].pc = "queued" /\ work.phase = "none"
    <3>1. queue # <<>> /\ queue \in Seq(Callers)
      BY <1>5 DEF Acquire, BrokerInv, TypeOK
    <3>2. b = queue[1] /\ 1 \in DOMAIN queue
      BY <3>1
    <3>3. QED
      BY <1>5, <3>1, <3>2 DEF Acquire, BrokerInv, QueueInv
  <2>2. session' = Found(b) /\ Found(b) \in Session
    BY <1>5, <2>1, FoundSession DEF Acquire, Found, Entered
  <2>3. \/ Respond(b, Found(b))
        \/ caller' = [caller EXCEPT ![b] = [Away EXCEPT !.pc = "refreshing", !.age = caller[b].age,
              !.kind = IF caller[b].kind = "after_request" THEN "after_request" ELSE "plain"]]
    BY <1>5 DEF Acquire, Found, Entered
  <2>4. \A n, k : [Away EXCEPT !.pc = "refreshing", !.age = n, !.kind = k].pc = "refreshing"
    BY DEF Away
  <2> HIDE DEF b
  <2>5. CASE caller' = [caller EXCEPT ![b] = [Away EXCEPT !.pc = "refreshing", !.age = caller[b].age,
              !.kind = IF caller[b].kind = "after_request" THEN "after_request" ELSE "plain"]]
    BY <1>1, <2>1, <2>4, <2>5
  <2>6. CASE Respond(b, Found(b))
    BY <1>4, <1>5, <2>1, <2>2, <2>6 DEF b
  <2>7. QED
    BY <2>3, <2>5, <2>6
<1>6. CASE Answer
  <2>1. work.by \in Callers /\ caller[work.by].pc = "refreshing" /\ Respond(work.by, session')
    BY <1>6 DEF Answer, BrokerInv, TypeOK, WorkInv
  <2>2. session' \in Session
    BY <1>6, BrokerSteps DEF BrokerInv, TypeOK, Session
  <2>3. QED
    BY <1>4, <1>6, <2>1, <2>2
<1>7. CASE Tick
  BY <1>1, <1>7 DEF Tick, Call
<1>8. CASE UNCHANGED caller
  BY <1>8
<1>9. QED
  BY <1>2, <1>3, <1>5, <1>6, <1>7, <1>8
  DEF Next, Release, FloorPassed, HandshakeEnds, ScanTimesOut, Cancel, Receive, Metadata,
      MetadataEnds, ExpiryTimer, DiskChanges, ProducerRestarts, ClockJumps

\* What is left of evidence once it had to be looked at.
LEMMA ExpiredIsGone ==
    ASSUME NEW s \in Session
    PROVE  Expire(s).latest.age < Expiry
BY BrokerAssumption DEF Expire, NoEvidence, Session, AgeCap

\* No answer holds evidence of Expiry or more (session.rs observe, expire).
THEOREM ExpiredEvidenceIsNotServed == Spec => AnswersAreFresh
<1>1. ASSUME BrokerInv, Next, NEW c \in Callers, Answered(c)
      PROVE  session'.latest.age < Expiry
  <2>1. session \in Session /\ Expire(session).latest.age < Expiry /\ NoEvidence.age < Expiry
    <3>1. session \in Session
      BY <1>1 DEF BrokerInv, TypeOK, Session
    <3>2. NoEvidence.age < Expiry
      BY BrokerAssumption DEF NoEvidence
    <3>3. QED
      BY <3>1, <3>2, ExpiredIsGone
  <2>2. CASE Acquire /\ c = Head(queue)
    <3>1. work.phase # "scan" /\ session' = Found(c)
      BY <2>2 DEF Acquire, Found, Entered
    <3>2. session'.latest \in {Expire(session).latest, NoEvidence}
      BY <1>1, <3>1, FoundSession
    <3>3. QED
      BY <2>1, <3>2
  <2>3. CASE Answer
    BY <2>1, <2>3 DEF Answer
  <2>4. QED
    BY <1>1, <2>2, <2>3, WhoIsAnswered
<1>2. BrokerInv /\ [Next]_vars =>
        [\A c \in Callers : Answered(c) => session'.latest.age < Expiry]_vars
  BY <1>1
<1>3. QED
  BY <1>2, BrokerIsCoherent, PTL DEF Spec, AnswersAreFresh

\* A capture that is served without a failure is one its caller asked for, whoever's scan it was
\* (session.rs observe).
THEOREM DemandsAreMet == Spec => AnswerMeetsDemand
<1> DEFINE Met(c) ==
      (session'.latest # NoEvidence /\ ~session'.failed) =>
        IF caller[c].kind = "after_request" THEN session'.latest.age <= caller[c].age
        ELSE \/ session'.latest.published <= caller[c].age
             \/ session'.latest.age + Slack <= Cadence
<1>1. ASSUME BrokerInv, Next, NEW c \in Callers, Answered(c), session'.latest # NoEvidence,
             ~session'.failed
      PROVE  IF caller[c].kind = "after_request" THEN session'.latest.age <= caller[c].age
             ELSE \/ session'.latest.published <= caller[c].age
                  \/ session'.latest.age + Slack <= Cadence
  <2>1. /\ session \in Session /\ Coherent(session) /\ caller[c].age \in 0..Deadline
    BY <1>1 DEF BrokerInv, TypeOK, Session, SessionInv
  <2>2. CASE Acquire /\ c = Head(queue) /\ Respond(c, session')
    <3>1. work.phase # "scan" /\ session' = Found(c)
      BY <2>2 DEF Acquire, Found, Entered
    <3>2. Found(c) \in Session /\ Coherent(Found(c))
      BY <1>1, <3>1, FoundSession
    <3>3. Found(c).refusal # "none" \/ Shared(Found(c), caller[c])
      <4>1. SUFFICES ASSUME ~(Found(c).refusal # "none" \/ Shared(Found(c), caller[c]))
                     PROVE  FALSE
        OBVIOUS
      <4>2. caller' = [caller EXCEPT ![c] = [Away EXCEPT !.pc = "refreshing", !.age = caller[c].age,
              !.kind = IF caller[c].kind = "after_request" THEN "after_request" ELSE "plain"]]
        BY <2>2, <4>1 DEF Acquire, Found, Entered
      <4>3. \A n, k : [Away EXCEPT !.pc = "refreshing", !.age = n, !.kind = k].pc = "refreshing"
        BY DEF Away
      <4>4. caller'[c].pc = "refreshing"
        BY <1>1, <4>2, <4>3 DEF BrokerInv, TypeOK
      <4>5. QED
        BY <1>1, <4>4 DEF Answered
    <3>4. Shared(Found(c), caller[c])
      BY <1>1, <3>1, <3>2, <3>3 DEF Coherent
    <3>5. Found(c).latest.age \in 0..Expiry
      BY <3>2 DEF Session, AgeCap
    <3>6. QED
      BY <2>1, <3>1, <3>4, <3>5 DEF Shared
  <2>3. CASE Answer /\ c = work.by
    <3>1. session' = Expire(session) /\ work.phase = "done" /\ work.by # Nobody
      BY <2>3 DEF Answer
    <3>2. session' = session /\ session.latest # NoEvidence /\ ~(session.latest.age >= Expiry)
      BY <1>1, <2>1, <3>1 DEF Expire, Session
    <3>3. session.latest.age <= caller[c].age /\ session.latest.published <= caller[c].age
      BY <1>1, <2>3, <3>1, <3>2 DEF BrokerInv, DemandInv
    <3>4. QED
      BY <3>2, <3>3
  <2>4. QED
    BY <1>1, <2>2, <2>3, WhoIsAnswered
<1>2. BrokerInv /\ [Next]_vars => [\A c \in Callers : (Answered(c) /\ session'.latest # NoEvidence
                                                        /\ ~session'.failed) =>
            IF caller[c].kind = "after_request" THEN session'.latest.age <= caller[c].age
            ELSE \/ session'.latest.published <= caller[c].age
                 \/ session'.latest.age + Slack <= Cadence]_vars
  BY <1>1
<1>3. QED
  BY <1>2, BrokerIsCoherent, PTL DEF Spec, AnswerMeetsDemand

-----------------------------------------------------------------------------
(* The budget. *)

LEMMA Products ==
    ASSUME NEW a \in Nat, NEW b \in Nat, NEW c \in Nat, b <= c
    PROVE  a * b \in Nat /\ a * c \in Nat /\ a * b <= a * c
<1>1. PICK k \in Nat : c = b + k
  <2>1. c - b \in Nat /\ c = b + (c - b)
    OBVIOUS
  <2>2. QED
    BY <2>1
<1>2. a * k \in Nat /\ a * b \in Nat /\ a * (b + k) = a * b + a * k
  OBVIOUS
<1>3. QED
  BY <1>1, <1>2

\* What is alive at once: the permits that are taken, one decoder, two captures, of which one is
\* only being assembled.
LEMMA AliveAtOnce ==
    ASSUME BrokerInv
    PROVE  \E h \in 0..Requests, n \in 0..1, m \in 0..2 :
             /\ h = Cardinality(Holding)
             /\ (work.phase = "scan" /\ ~Assembling(work.decoder)) => m <= 1
             /\ Reserved = FixedCharge + ResponseCharge * h + DecoderCharge * n + CaptureCharge * m
<1> DEFINE n == Count(conn.open) + Count(work.phase \in {"attach", "metadata", "scan"})
           m == Count(session.latest # NoEvidence)
                  + Count(conn.open /\ Assembling(conn.decoder))
                  + Count(work.phase = "scan" /\ Assembling(work.decoder))
<1>1. Cardinality(Holding) \in 0..Requests
  <2>1. Cardinality(Holding) \in Nat /\ Cardinality(Holding) <= Requests /\ Requests \in Nat
    BY FS_CardinalityType, BrokerAssumption DEF BrokerInv, PermitInv
  <2>2. QED
    BY <2>1
<1>2. /\ conn.open => ~Assembling(conn.decoder)
      /\ work.phase \in {"attach", "metadata", "scan"} => ~conn.open
  BY DEF BrokerInv, ConnectionInv
<1>3. n \in 0..1
  BY <1>2 DEF Count
<1>4. m \in 0..2 /\ ((work.phase = "scan" /\ ~Assembling(work.decoder)) => m <= 1)
  BY <1>2 DEF Count
<1>5. Reserved = FixedCharge + ResponseCharge * Cardinality(Holding) + DecoderCharge * n
                   + CaptureCharge * m
  BY DEF Reserved
<1> HIDE DEF n, m
<1>6. QED
  BY <1>1, <1>3, <1>4, <1>5

\* The ceiling is never what refuses: whatever is alive, what the permits and the session's lock
\* admit next finds its reservation (memory.rs reserve).
THEOREM ReservationsFit == Spec => []ReservationsAlwaysFit
<1>1. ASSUME BrokerInv PROVE ReservationsAlwaysFit
  <2>1. PICK h \in 0..Requests, n \in 0..1, m \in 0..2 :
          /\ h = Cardinality(Holding)
          /\ (work.phase = "scan" /\ ~Assembling(work.decoder)) => m <= 1
          /\ Reserved = FixedCharge + ResponseCharge * h + DecoderCharge * n + CaptureCharge * m
    BY <1>1, AliveAtOnce
  <2>2. /\ {FixedCharge, ResponseCharge, DecoderCharge, CaptureCharge, Ceiling, Requests} \subseteq Nat
    BY BrokerAssumption
  <2>3. ResponseCharge * h \in Nat /\ ResponseCharge * h <= ResponseCharge * Requests
    BY <2>2, Products
  <2>4. ResponseCharge * Requests \in Nat
    BY <2>2
  <2>5. DecoderCharge * n \in Nat /\ DecoderCharge * n <= DecoderCharge
    BY <2>2
  <2>6. CaptureCharge * m \in Nat /\ CaptureCharge * m <= 2 * CaptureCharge
    BY <2>2
  <2>7. m <= 1 => CaptureCharge * m <= CaptureCharge
    BY <2>2
  <2>8. h < Requests => ResponseCharge * h + ResponseCharge <= ResponseCharge * Requests
    <3>1. SUFFICES ASSUME h < Requests
                   PROVE  ResponseCharge * h + ResponseCharge <= ResponseCharge * Requests
      OBVIOUS
    <3>2. ResponseCharge * (h + 1) <= ResponseCharge * Requests
      BY <2>2, <3>1, Products
    <3>3. ResponseCharge * (h + 1) = ResponseCharge * h + ResponseCharge
      BY <2>2
    <3>4. QED
      BY <3>2, <3>3
  <2> DEFINE R == ResponseCharge * h
             D == DecoderCharge * n
             C == CaptureCharge * m
             A == ResponseCharge * Requests
  <2>9. /\ R \in Nat /\ D \in Nat /\ C \in Nat /\ A \in Nat
        /\ R <= A /\ D <= DecoderCharge /\ C <= 2 * CaptureCharge
        /\ m <= 1 => C <= CaptureCharge
        /\ h < Requests => R + ResponseCharge <= A
        /\ Reserved = FixedCharge + R + D + C
        /\ FixedCharge + DecoderCharge + 2 * CaptureCharge + A <= Ceiling
    BY <2>1, <2>3, <2>4, <2>5, <2>6, <2>7, <2>8, BudgetAssumption
  <2> HIDE DEF R, D, C, A
  <2>10. Cardinality(Holding) < Requests => Reserved + ResponseCharge <= Ceiling
    BY <2>1, <2>2, <2>9
  <2>11. Reserved <= Ceiling
    BY <2>2, <2>9
  <2>12. ASSUME work.phase = "scan", NEW f \in Frames, f.kind = "scan_header",
                AcceptHeader(work.decoder, f).error = "none"
         PROVE  Reserved + CaptureCharge <= Ceiling
    <3>1. ~Assembling(work.decoder)
      BY <2>12 DEF AcceptHeader, Refused, Assembling
    <3>2. QED
      BY <2>1, <2>2, <2>9, <2>12, <3>1
  <2>13. QED
    BY <2>10, <2>11, <2>12 DEF ReservationsAlwaysFit
<1>2. QED
  BY <1>1, BrokerIsCoherent, PTL
=============================================================================
