-------------------------------- MODULE ScanProofs --------------------------------
(***********************************************************************************)
(* Theorems about the fast scan, for any volumes, pages, policies, batches and      *)
(* number of workers: that the facts kept in memory or in the spill file are found  *)
(* and are those that were read, and that what is counted is what is held.          *)
(***********************************************************************************)
EXTENDS FastScan, NaturalSets, SequenceTheorems, TLAPS

-----------------------------------------------------------------------------------
(* FastScan.  Its four recursions: the pages there are to read, the totals of counts, *)
(* the results of a wave, and the search of a store.                                  *)

UpTo(counts, n, upTo) ==
    upTo = [i \in 0 .. n |-> IF i = 0 THEN 0 ELSE upTo[i - 1] + counts[i]]

LEMMA TotalsExist ==
    ASSUME NEW counts
    PROVE  \A n \in Nat : \E upTo : UpTo(counts, n, upTo)
<1> DEFINE S == {n \in Nat : \E upTo : UpTo(counts, n, upTo)}
<1>1. 0 \in S
  <2> DEFINE zero == [i \in 0 .. 0 |-> 0]
  <2>1. zero = [i \in 0 .. 0 |-> IF i = 0 THEN 0 ELSE zero[i - 1] + counts[i]]
    OBVIOUS
  <2>2. UpTo(counts, 0, zero)
    BY <2>1 DEF UpTo
  <2>3. QED
    BY <2>2
<1>2. ASSUME NEW n \in S PROVE n + 1 \in S
  <2>1. PICK upTo : UpTo(counts, n, upTo)
    OBVIOUS
  <2> DEFINE more == [i \in 0 .. n + 1 |-> IF i <= n THEN upTo[i] ELSE upTo[n] + counts[n + 1]]
  <2>2. \A i \in 0 .. n : upTo[i] = IF i = 0 THEN 0 ELSE upTo[i - 1] + counts[i]
    BY <2>1 DEF UpTo
  <2>3. ASSUME NEW i \in 0 .. n + 1
        PROVE more[i] = IF i = 0 THEN 0 ELSE more[i - 1] + counts[i]
    <3>1. CASE i <= n
      BY <2>2, <3>1
    <3>2. CASE i = n + 1
      BY <3>2
    <3>3. QED
      BY <3>1, <3>2
  <2> HIDE DEF more
  <2>4. more = [i \in 0 .. n + 1 |-> more[i]]
    BY DEF more
  <2>5. UpTo(counts, n + 1, more)
    BY <2>3, <2>4 DEF UpTo
  <2>6. QED
    BY <2>5
<1>3. S = Nat
  <2> HIDE DEF S
  <2>1. S \in SUBSET Nat
    BY DEF S
  <2>2. QED
    BY <1>1, <1>2, <2>1, CountingUp
<1>4. QED
  BY <1>3

LEMMA TotalIs ==
    ASSUME NEW counts \in Seq(Nat)
    PROVE  \E upTo : UpTo(counts, Len(counts), upTo) /\ Total(counts) = upTo[Len(counts)]
<1> DEFINE the == CHOOSE upTo : UpTo(counts, Len(counts), upTo)
<1>1. Len(counts) \in Nat
  OBVIOUS
<1>2. UpTo(counts, Len(counts), the)
  BY <1>1, TotalsExist
<1>3. Total(counts) = the[Len(counts)]
  BY DEF Total, UpTo
<1>4. QED
  BY <1>2, <1>3

LEMMA TotalIsNat ==
    ASSUME NEW counts \in Seq(Nat)
    PROVE  Total(counts) \in Nat
<1>1. PICK upTo : UpTo(counts, Len(counts), upTo) /\ Total(counts) = upTo[Len(counts)]
  BY TotalIs
<1>2. \A i \in 0 .. Len(counts) : upTo[i] = IF i = 0 THEN 0 ELSE upTo[i - 1] + counts[i]
  BY <1>1 DEF UpTo
<1> DEFINE S == {i \in Nat : i <= Len(counts) => upTo[i] \in Nat}
<1>3. 0 \in S
  BY <1>2
<1>4. ASSUME NEW i \in S PROVE i + 1 \in S
  <2> SUFFICES ASSUME i + 1 <= Len(counts) PROVE upTo[i + 1] \in Nat
    OBVIOUS
  <2>1. upTo[i] \in Nat /\ counts[i + 1] \in Nat
    OBVIOUS
  <2>2. upTo[i + 1] = upTo[i] + counts[i + 1]
    BY <1>2
  <2>3. QED
    BY <2>1, <2>2
<1>5. S = Nat
  <2> HIDE DEF S
  <2>1. S \in SUBSET Nat
    BY DEF S
  <2>2. QED
    BY <1>3, <1>4, <2>1, CountingUp
<1>6. QED
  BY <1>1, <1>5

\* One count that grows lets the total grow by as much; nothing counted is nothing.
LEMMA TotalGrows ==
    ASSUME NEW counts \in Seq(Nat), NEW v \in 1 .. Len(counts), NEW k \in Nat
    PROVE  Total([counts EXCEPT ![v] = @ + k]) = Total(counts) + k
<1> DEFINE grown == [counts EXCEPT ![v] = @ + k]
<1>1. grown \in Seq(Nat) /\ Len(grown) = Len(counts)
  OBVIOUS
<1>2. \A i \in 1 .. Len(counts) : grown[i] = IF i = v THEN counts[i] + k ELSE counts[i]
  OBVIOUS
<1> HIDE DEF grown
<1>3. PICK upTo : UpTo(counts, Len(counts), upTo) /\ Total(counts) = upTo[Len(counts)]
  BY TotalIs
<1>4. PICK more : UpTo(grown, Len(grown), more) /\ Total(grown) = more[Len(grown)]
  BY <1>1, TotalIs
<1>5. \A i \in 0 .. Len(counts) : upTo[i] = IF i = 0 THEN 0 ELSE upTo[i - 1] + counts[i]
  BY <1>3 DEF UpTo
<1>6. \A i \in 0 .. Len(counts) : more[i] = IF i = 0 THEN 0 ELSE more[i - 1] + grown[i]
  BY <1>1, <1>4 DEF UpTo
<1> DEFINE S == {i \in Nat : i <= Len(counts) =>
                   upTo[i] \in Nat /\ more[i] = IF i < v THEN upTo[i] ELSE upTo[i] + k}
<1>7. 0 \in S
  BY <1>5, <1>6
<1>8. ASSUME NEW i \in S PROVE i + 1 \in S
  <2> SUFFICES ASSUME i + 1 <= Len(counts)
               PROVE upTo[i + 1] \in Nat
                     /\ more[i + 1] = IF i + 1 < v THEN upTo[i + 1] ELSE upTo[i + 1] + k
    OBVIOUS
  <2>1. upTo[i] \in Nat /\ more[i] = IF i < v THEN upTo[i] ELSE upTo[i] + k
    OBVIOUS
  <2>2. upTo[i + 1] = upTo[i] + counts[i + 1] /\ more[i + 1] = more[i] + grown[i + 1]
    BY <1>5, <1>6
  <2>3. counts[i + 1] \in Nat
    OBVIOUS
  <2>4. grown[i + 1] = IF i + 1 = v THEN counts[i + 1] + k ELSE counts[i + 1]
    BY <1>2
  <2>5. i \in Nat /\ v \in Nat
    OBVIOUS
  <2> HIDE DEF S
  <2>6. CASE i + 1 = v
    BY <2>1, <2>2, <2>3, <2>4, <2>5, <2>6
  <2>7. CASE i + 1 < v
    BY <2>1, <2>2, <2>3, <2>4, <2>5, <2>7
  <2>8. CASE i + 1 > v
    BY <2>1, <2>2, <2>3, <2>4, <2>5, <2>8
  <2>9. QED
    BY <2>5, <2>6, <2>7, <2>8
<1>9. S = Nat
  <2> HIDE DEF S
  <2>1. S \in SUBSET Nat
    BY DEF S
  <2>2. QED
    BY <1>7, <1>8, <2>1, CountingUp
<1>10. Len(counts) \in S
  BY <1>9
<1>11. QED
  BY <1>1, <1>3, <1>4, <1>10 DEF grown

LEMMA NothingCounted ==
    ASSUME NEW counts \in Seq(Nat), \A i \in 1 .. Len(counts) : counts[i] = 0
    PROVE  Total(counts) = 0
<1>1. PICK upTo : UpTo(counts, Len(counts), upTo) /\ Total(counts) = upTo[Len(counts)]
  BY TotalIs
<1>2. \A i \in 0 .. Len(counts) : upTo[i] = IF i = 0 THEN 0 ELSE upTo[i - 1] + counts[i]
  BY <1>1 DEF UpTo
<1> DEFINE S == {i \in Nat : i <= Len(counts) => upTo[i] = 0}
<1>3. 0 \in S
  BY <1>2
<1>4. ASSUME NEW i \in S PROVE i + 1 \in S
  BY <1>2
<1>5. S = Nat
  <2> HIDE DEF S
  <2>1. S \in SUBSET Nat
    BY DEF S
  <2>2. QED
    BY <1>3, <1>4, <2>1, CountingUp
<1>6. QED
  BY <1>1, <1>5
-----------------------------------------------------------------------------------

Below(v, n, below) ==
    below = [p \in 0 .. n |-> IF p = 0 THEN <<>>
                              ELSE IF EligibleSector(v, (p - 1) \div PageSpan)
                              THEN Append(below[p - 1], p - 1) ELSE below[p - 1]]

LEMMA BelowExists ==
    ASSUME NEW v
    PROVE  \A n \in Nat : \E below : Below(v, n, below)
<1> DEFINE S == {n \in Nat : \E below : Below(v, n, below)}
           step(f, p) == IF p = 0 THEN <<>>
                         ELSE IF EligibleSector(v, (p - 1) \div PageSpan)
                         THEN Append(f[p - 1], p - 1) ELSE f[p - 1]
<1> HIDE DEF step
<1>1. 0 \in S
  <2> DEFINE zero == [p \in 0 .. 0 |-> <<>>]
  <2>1. zero = [p \in 0 .. 0 |-> step(zero, p)]
    BY DEF step
  <2>2. Below(v, 0, zero)
    BY <2>1 DEF Below, step
  <2>3. QED
    BY <2>2
<1>2. ASSUME NEW n \in S PROVE n + 1 \in S
  <2>1. PICK below : Below(v, n, below)
    OBVIOUS
  <2> DEFINE more == [p \in 0 .. n + 1 |-> IF p <= n THEN below[p] ELSE step(below, p)]
  <2>2. \A p \in 0 .. n : below[p] = step(below, p)
    BY <2>1 DEF Below, step
  <2>3. ASSUME NEW p \in 0 .. n + 1 PROVE more[p] = step(more, p)
    <3>1. p # 0 => more[p - 1] = below[p - 1]
      OBVIOUS
    <3>2. step(more, p) = step(below, p)
      BY <3>1 DEF step
    <3>3. more[p] = step(below, p)
      BY <2>2
    <3>4. QED
      BY <3>2, <3>3
  <2> HIDE DEF more
  <2>4. more = [p \in 0 .. n + 1 |-> more[p]]
    BY DEF more
  <2>5. Below(v, n + 1, more)
    BY <2>3, <2>4 DEF Below, step
  <2>6. QED
    BY <2>5
<1>3. S = Nat
  <2> HIDE DEF S
  <2>1. S \in SUBSET Nat
    BY DEF S
  <2>2. QED
    BY <1>1, <1>2, <2>1, CountingUp
<1>4. QED
  BY <1>3

\* What each step of the cursor does.
LEMMA EligibleIs ==
    ASSUME NEW v, v.total \in Nat
    PROVE  \E below :
             /\ Eligible(v) = below[v.total * PageSpan] /\ below[0] = <<>>
             /\ \A p \in 1 .. v.total * PageSpan :
                  below[p] = IF EligibleSector(v, (p - 1) \div PageSpan)
                             THEN Append(below[p - 1], p - 1) ELSE below[p - 1]
<1> DEFINE n == v.total * PageSpan
           the == CHOOSE below : Below(v, n, below)
<1>1. n \in Nat
  BY ScanAssumption
<1>2. Below(v, n, the)
  BY <1>1, BelowExists
<1>3. Eligible(v) = the[n]
  BY DEF Eligible, Below
<1> HIDE DEF the, n
<1>4. \A p \in 0 .. n : the[p] = IF p = 0 THEN <<>>
                              ELSE IF EligibleSector(v, (p - 1) \div PageSpan)
                              THEN Append(the[p - 1], p - 1) ELSE the[p - 1]
  BY <1>2 DEF Below
<1>5. the[0] = <<>> /\ \A p \in 1 .. n :
                  the[p] = IF EligibleSector(v, (p - 1) \div PageSpan)
                           THEN Append(the[p - 1], p - 1) ELSE the[p - 1]
  BY <1>1, <1>4
<1>6. QED
  BY <1>3, <1>5 DEF n

\* Pages come in ascending order, each once, and none past the volume's end.
Ascending(pages, end) ==
    /\ pages \in Seq(Nat)
    /\ \A i, j \in 1 .. Len(pages) : i < j => pages[i] < pages[j]
    /\ \A i \in 1 .. Len(pages) : pages[i] < end

LEMMA EligibleAscends ==
    ASSUME NEW v, v.total \in Nat
    PROVE  Ascending(Eligible(v), v.total * PageSpan)
<1> DEFINE n == v.total * PageSpan
<1>1. n \in Nat
  BY ScanAssumption
<1>2. PICK below :
             /\ Eligible(v) = below[n] /\ below[0] = <<>>
             /\ \A p \in 1 .. n : below[p] = below[p - 1] \/ below[p] = Append(below[p - 1], p - 1)
  BY EligibleIs
<1> HIDE DEF n
<1> DEFINE S == {p \in Nat : p <= n => Ascending(below[p], p)}
<1>3. 0 \in S
  <2>1. <<>> \in Seq(Nat) /\ Len(<<>>) = 0
    OBVIOUS
  <2>2. Ascending(<<>>, 0)
    BY <2>1 DEF Ascending
  <2>3. QED
    BY <1>2, <2>2
<1>4. ASSUME NEW p \in S PROVE p + 1 \in S
  <2> SUFFICES ASSUME p + 1 <= n PROVE Ascending(below[p + 1], p + 1)
    OBVIOUS
  <2>1. Ascending(below[p], p)
    BY <1>1
  <2>2. below[p + 1] = below[p] \/ below[p + 1] = Append(below[p], p)
    BY <1>1, <1>2
  <2>3. CASE below[p + 1] = below[p]
    BY <2>1, <2>3 DEF Ascending
  <2>4. CASE below[p + 1] = Append(below[p], p)
    BY <2>1, <2>4 DEF Ascending
  <2>5. QED
    BY <2>2, <2>3, <2>4
<1>5. S = Nat
  <2> HIDE DEF S
  <2>1. S \in SUBSET Nat
    BY DEF S
  <2>2. QED
    BY <1>3, <1>4, <2>1, CountingUp
<1>6. QED
  BY <1>1, <1>2, <1>5 DEF n

\* Which pages there are to read does not depend on what was read.
SameGeometry(v, w) == v.total = w.total /\ v.systemLast = w.systemLast /\ v.reserved = w.reserved

LEMMA EligibleIsOfTheGeometry ==
    ASSUME NEW v, NEW w, v.total \in Nat, SameGeometry(v, w)
    PROVE  Eligible(v) = Eligible(w)
<1> DEFINE n == v.total * PageSpan
<1>1. n \in Nat /\ n = w.total * PageSpan /\ w.total \in Nat
  BY ScanAssumption DEF SameGeometry
<1>2. \A s : EligibleSector(v, s) <=> EligibleSector(w, s)
  BY DEF SameGeometry, EligibleSector
<1>3. PICK below :
             /\ Eligible(v) = below[n] /\ below[0] = <<>>
             /\ \A p \in 1 .. n :
                  below[p] = IF EligibleSector(v, (p - 1) \div PageSpan)
                             THEN Append(below[p - 1], p - 1) ELSE below[p - 1]
  BY EligibleIs
<1>4. PICK other :
             /\ Eligible(w) = other[n] /\ other[0] = <<>>
             /\ \A p \in 1 .. n :
                  other[p] = IF EligibleSector(w, (p - 1) \div PageSpan)
                             THEN Append(other[p - 1], p - 1) ELSE other[p - 1]
  BY <1>1, EligibleIs
<1> HIDE DEF n
<1> DEFINE S == {p \in Nat : p <= n => below[p] = other[p]}
<1>5. 0 \in S
  BY <1>3, <1>4
<1>6. ASSUME NEW p \in S PROVE p + 1 \in S
  <2> SUFFICES ASSUME p + 1 <= n PROVE below[p + 1] = other[p + 1]
    OBVIOUS
  <2>1. below[p] = other[p]
    BY <1>1
  <2>2. p + 1 \in 1 .. n /\ p + 1 - 1 = p
    BY <1>1
  <2>3. QED
    BY <1>2, <1>3, <1>4, <2>1, <2>2
<1>7. S = Nat
  <2> HIDE DEF S
  <2>1. S \in SUBSET Nat
    BY DEF S
  <2>2. QED
    BY <1>5, <1>6, <2>1, CountingUp
<1>8. QED
  BY <1>1, <1>3, <1>4, <1>7

-----------------------------------------------------------------------------------
(* Facts, and the search of a store of them. *)

PageFact == [page : Nat, type : Nat, sealed : Nat, units : 0..15, lsa : BOOLEAN, rule : 0..4]
PackedFact == [page : Nat, type : Nat, sealed : Nat, flags : Nat]

LEMMA PackedReadsBack ==
    ASSUME NEW f \in PageFact
    PROVE  Pack(f) \in PackedFact /\ Unpack(Pack(f)) = f
<1> DEFINE flags == f.rule + 8 * f.units + (IF f.lsa THEN 128 ELSE 0)
<1>1. f.rule \in 0 .. 4 /\ f.units \in 0 .. 15 /\ f.lsa \in BOOLEAN
  BY DEF PageFact
<1>2. flags \in Nat /\ flags % 8 = f.rule /\ (flags \div 8) % 16 = f.units /\ (flags >= 128) = f.lsa
  <2>1. PICK r \in 0 .. 4, u \in 0 .. 15 : r = f.rule /\ u = f.units
    BY <1>1
  <2>2. /\ (r + 8 * u) \div 8 = u /\ (r + 8 * u + 128) \div 8 = u + 16
        /\ (r + 8 * u) % 8 = r /\ (r + 8 * u + 128) % 8 = r
        /\ u % 16 = u /\ (u + 16) % 16 = u
    OBVIOUS
  <2>3. CASE f.lsa = TRUE
    <3>1. flags = r + 8 * u + 128
      BY <2>1, <2>3
    <3> HIDE DEF flags
    <3>2. flags \in Nat /\ flags >= 128
      BY <3>1
    <3>3. flags % 8 = f.rule /\ (flags \div 8) % 16 = f.units
      BY <2>1, <2>2, <3>1
    <3>4. (flags >= 128) = TRUE
      BY <3>2
    <3>5. QED
      BY <2>3, <3>2, <3>3, <3>4
  <2>4. CASE f.lsa = FALSE
    <3>1. flags = r + 8 * u
      BY <2>1, <2>4
    <3> HIDE DEF flags
    <3>2. flags \in Nat /\ ~(flags >= 128)
      BY <3>1
    <3>3. flags % 8 = f.rule /\ (flags \div 8) % 16 = f.units
      BY <2>1, <2>2, <3>1
    <3>4. (flags >= 128) = FALSE
      BY <3>2
    <3>5. QED
      BY <2>4, <3>2, <3>3, <3>4
  <2>5. QED
    BY <1>1, <2>3, <2>4
<1>3. Pack(f) = [page |-> f.page, type |-> f.type, sealed |-> f.sealed, flags |-> flags]
  BY DEF Pack
<1> HIDE DEF flags
<1>4. Pack(f) \in PackedFact
  BY <1>2, <1>3 DEF PackedFact, PageFact
<1>5. Unpack(Pack(f)) = [page |-> f.page, type |-> f.type, sealed |-> f.sealed, rule |-> f.rule,
                         units |-> f.units, lsa |-> f.lsa]
  BY <1>2, <1>3 DEF Unpack
<1>6. QED
  BY <1>4, <1>5 DEF PageFact

LEMMA FactOfIsAFact ==
    ASSUME NEW page \in Nat, NEW e \in Envelopes, NEW key \in BOOLEAN
    PROVE  FactOf(page, e, key) \in PageFact /\ FactOf(page, e, key).page = page
<1>1. e \in [intact : BOOLEAN, own : BOOLEAN, type : Nat, flags : Nat, units : 0..15]
  BY ScanAssumption
<1>2. PageTypeOf(FormatProfile, e.type) \in Nat
  BY <1>1 DEF PageTypeOf, UnknownType
<1>3. \A rule : RuleCode(rule) \in 0 .. 4
  BY DEF RuleCode
<1>4. CASE Faulty(e)
  BY <1>1, <1>2, <1>3, <1>4 DEF FactOf, PageFact, UnknownType
<1>5. CASE ~Faulty(e)
  BY <1>1, <1>2, <1>3, <1>5 DEF FactOf, PageFact
<1>6. QED
  BY <1>4, <1>5

\* One look of the search, given what later looks find; `Search` is a search of ranges up to a
\* length.
Narrowed(v, page, f, low, high) ==
    LET middle == (low + high) \div 2 IN
    IF low >= high THEN NoFact
    ELSE IF FactAt(v, middle).page < page THEN f[<<middle + 1, high>>]
    ELSE IF FactAt(v, middle).page > page THEN f[<<low, middle>>]
    ELSE FactAt(v, middle)

Search(v, page, f, size) ==
    /\ f = [r \in (0..v.facts.len) \X (0..v.facts.len) |-> f[r]]
    /\ \A low, high \in 0..v.facts.len :
         high - low <= size => f[<<low, high>>] = Narrowed(v, page, f, low, high)

LEMMA Halves ==
    ASSUME NEW low \in Nat, NEW high \in Nat, low < high
    PROVE  LET middle == (low + high) \div 2 IN middle \in Nat /\ low <= middle /\ middle < high
  OBVIOUS

LEMMA SearchExists ==
    ASSUME NEW v, v.facts.len \in Nat, NEW page
    PROVE  \A size \in Nat : \E f : Search(v, page, f, size)
<1> DEFINE S == {size \in Nat : \E f : Search(v, page, f, size)}
           N == 0 .. v.facts.len
<1>1. 0 \in S
  <2> DEFINE none == [r \in N \X N |-> NoFact]
  <2>1. \A low, high \in N : none[<<low, high>>] = NoFact
    OBVIOUS
  <2>2. none = [r \in N \X N |-> none[r]]
    OBVIOUS
  <2> HIDE DEF none
  <2>3. ASSUME NEW low \in N, NEW high \in N, high - low <= 0
        PROVE none[<<low, high>>] = Narrowed(v, page, none, low, high)
    BY <2>1, <2>3 DEF Narrowed
  <2>4. Search(v, page, none, 0)
    BY <2>2, <2>3 DEF Search
  <2>5. QED
    BY <2>4
<1>2. ASSUME NEW size \in S PROVE size + 1 \in S
  <2>1. PICK f : Search(v, page, f, size)
    OBVIOUS
  <2> DEFINE g == [r \in N \X N |->
                     IF r[2] - r[1] <= size THEN f[r] ELSE Narrowed(v, page, f, r[1], r[2])]
  <2>2. \A low, high \in N : g[<<low, high>>] = IF high - low <= size THEN f[<<low, high>>]
                                            ELSE Narrowed(v, page, f, low, high)
    OBVIOUS
  <2>3. g = [r \in N \X N |-> g[r]]
    OBVIOUS
  <2> HIDE DEF g
  <2>4. ASSUME NEW low \in N, NEW high \in N, high - low <= size + 1
        PROVE g[<<low, high>>] = Narrowed(v, page, g, low, high)
    <3>1. Narrowed(v, page, g, low, high) = Narrowed(v, page, f, low, high)
      <4>1. CASE low >= high
        BY <4>1 DEF Narrowed
      <4>2. CASE low < high
        <5> DEFINE middle == (low + high) \div 2
        <5>1. middle \in N /\ low <= middle /\ middle < high /\ middle + 1 \in N
          BY <4>2, Halves
        <5> HIDE DEF middle
        <5>2. high - (middle + 1) <= size /\ middle - low <= size
          BY <2>4, <5>1
        <5>3. g[<<middle + 1, high>>] = f[<<middle + 1, high>>] /\ g[<<low, middle>>] = f[<<low, middle>>]
          BY <2>2, <5>1, <5>2
        <5>4. QED
          BY <5>3 DEF Narrowed, middle
      <4>3. QED
        BY <4>1, <4>2
    <3>2. high - low <= size => f[<<low, high>>] = Narrowed(v, page, f, low, high)
      BY <2>1 DEF Search
    <3>3. QED
      BY <2>2, <3>1, <3>2
  <2>5. Search(v, page, g, size + 1)
    BY <2>3, <2>4 DEF Search
  <2>6. QED
    BY <2>5
<1>3. S = Nat
  <2> HIDE DEF S
  <2>1. S \in SUBSET Nat
    BY DEF S
  <2>2. QED
    BY <1>1, <1>2, <2>1, CountingUp
<1>4. QED
  BY <1>3

LEMMA PageFactIs ==
    ASSUME NEW v, v.facts.len \in Nat, NEW page
    PROVE  \E f : /\ PageFactOf(v, page) = f[<<0, v.facts.len>>]
                  /\ \A low, high \in 0..v.facts.len : f[<<low, high>>] = Narrowed(v, page, f, low, high)
<1> DEFINE N == 0 .. v.facts.len
           the == CHOOSE f : f = [r \in N \X N |-> Narrowed(v, page, f, r[1], r[2])]
<1>1. PICK f : Search(v, page, f, v.facts.len)
  BY SearchExists
<1>2. \A low, high \in N : f[<<low, high>>] = Narrowed(v, page, f, low, high)
  <2>1. \A low, high \in N : high - low <= v.facts.len
    OBVIOUS
  <2>2. QED
    BY <1>1, <2>1 DEF Search
<1>3. f = [r \in N \X N |-> Narrowed(v, page, f, r[1], r[2])]
  BY <1>1, <1>2 DEF Search
<1>4. the = [r \in N \X N |-> Narrowed(v, page, the, r[1], r[2])]
  BY <1>3
<1>5. PageFactOf(v, page) = the[<<0, v.facts.len>>]
  BY DEF PageFactOf, Narrowed
<1> HIDE DEF the
<1>6. \A low, high \in N : the[<<low, high>>] = Narrowed(v, page, the, low, high)
  BY <1>4
<1>7. QED
  BY <1>5, <1>6

\* In a store of facts in ascending order, a fact is found, and what is not there is not.
Stores(v, facts) ==
    /\ facts \in Seq(PageFact) /\ v.facts.len = Len(facts)
    /\ \A i \in 1..Len(facts) : FactAt(v, i - 1) = facts[i]
    /\ \A i, j \in 1..Len(facts) : i < j => facts[i].page < facts[j].page

LEMMA FactsAreFound ==
    ASSUME NEW v, NEW facts, Stores(v, facts), NEW page \in Nat
    PROVE  /\ \A i \in 1..Len(facts) : facts[i].page = page => PageFactOf(v, page) = facts[i]
           /\ (\A i \in 1..Len(facts) : facts[i].page # page) => PageFactOf(v, page) = NoFact
<1> DEFINE n == v.facts.len
<1>1. n \in Nat /\ n = Len(facts) /\ \A i \in 1..n : facts[i] \in PageFact /\ facts[i].page \in Nat
  <2>1. facts \in Seq(PageFact) /\ n = Len(facts)
    BY DEF Stores
  <2>2. n \in Nat /\ \A i \in 1..n : facts[i] \in PageFact
    BY <2>1
  <2>3. \A g \in PageFact : g.page \in Nat
    BY DEF PageFact
  <2>4. QED
    BY <2>1, <2>2, <2>3
<1>2. PICK f : /\ PageFactOf(v, page) = f[<<0, n>>]
               /\ \A low, high \in 0..n : f[<<low, high>>] = Narrowed(v, page, f, low, high)
  BY <1>1, PageFactIs
<1> HIDE DEF n
<1> DEFINE In(i, low, high) == low < i /\ i <= high /\ facts[i].page = page
           Right(low, high) ==
             /\ \A i \in 1..n : In(i, low, high) => f[<<low, high>>] = facts[i]
             /\ (\A i \in 1..n : ~In(i, low, high)) => f[<<low, high>>] = NoFact
           S == {size \in Nat : \A low, high \in 0..n : high - low <= size => Right(low, high)}
<1>3. 0 \in S
  <2>1. ASSUME NEW low \in 0..n, NEW high \in 0..n, high - low <= 0
        PROVE Right(low, high)
    <3>1. f[<<low, high>>] = NoFact
      <4>1. low >= high
        BY <1>1, <2>1
      <4>2. f[<<low, high>>] = Narrowed(v, page, f, low, high)
        BY <1>2
      <4>3. QED
        BY <4>1, <4>2 DEF Narrowed
    <3>2. \A i \in 1..n : ~In(i, low, high)
      BY <1>1, <2>1
    <3>3. QED
      BY <3>1, <3>2
  <2>2. QED
    BY <2>1
<1>4. ASSUME NEW size \in S PROVE size + 1 \in S
  <2>1. ASSUME NEW low \in 0..n, NEW high \in 0..n, high - low <= size + 1
        PROVE Right(low, high)
    <3>1. CASE low >= high
      <4>1. f[<<low, high>>] = NoFact
        BY <1>2, <3>1 DEF Narrowed
      <4>2. \A i \in 1..n : ~In(i, low, high)
        BY <1>1, <3>1
      <4>3. QED
        BY <4>1, <4>2
    <3>2. CASE low < high
      <4> DEFINE middle == (low + high) \div 2
      <4>1. middle \in 0..n /\ low <= middle /\ middle < high /\ middle + 1 \in 1..n
        BY <1>1, <3>2, Halves
      <4>2. f[<<low, high>>] = IF FactAt(v, middle).page < page THEN f[<<middle + 1, high>>]
                           ELSE IF FactAt(v, middle).page > page THEN f[<<low, middle>>]
                           ELSE FactAt(v, middle)
        BY <1>2, <3>2 DEF Narrowed
      <4>3. FactAt(v, middle) = facts[middle + 1]
        <5>1. FactAt(v, middle + 1 - 1) = facts[middle + 1] /\ middle + 1 - 1 = middle
          <6> HIDE DEF middle
          <6>1. QED
            BY <1>1, <4>1 DEF Stores
        <5>2. QED
          BY <5>1
      <4> HIDE DEF middle
      <4>4. high - (middle + 1) <= size /\ middle - low <= size
        BY <1>1, <2>1, <4>1
      <4>5. Right(middle + 1, high) /\ Right(low, middle)
        BY <1>1, <4>1, <4>4
      <4>6. \A i \in 1..n : /\ i < middle + 1 => facts[i].page < facts[middle + 1].page
                            /\ i > middle + 1 => facts[i].page > facts[middle + 1].page
        BY <1>1, <4>1 DEF Stores
      <4>7. facts[middle + 1].page \in Nat
        BY <1>1, <4>1
      <4>8. CASE facts[middle + 1].page < page
        <5>1. \A i \in 1..n : In(i, low, high) <=> In(i, middle + 1, high)
          BY <1>1, <4>1, <4>6, <4>7, <4>8
        <5>2. f[<<low, high>>] = f[<<middle + 1, high>>]
          BY <4>2, <4>3, <4>8
        <5> HIDE DEF In
        <5>3. QED
          BY <4>5, <5>1, <5>2
      <4>9. CASE facts[middle + 1].page > page
        <5>1. \A i \in 1..n : In(i, low, high) <=> In(i, low, middle)
          BY <1>1, <4>1, <4>6, <4>7, <4>9
        <5>2. f[<<low, high>>] = f[<<low, middle>>]
          BY <4>2, <4>3, <4>7, <4>9
        <5> HIDE DEF In
        <5>3. QED
          BY <4>5, <5>1, <5>2
      <4>10. CASE facts[middle + 1].page = page
        <5>1. f[<<low, high>>] = facts[middle + 1]
          BY <4>2, <4>3, <4>7, <4>10
        <5>2. \A i \in 1..n : In(i, low, high) <=> i = middle + 1
          BY <1>1, <4>1, <4>6, <4>7, <4>10
        <5> HIDE DEF In
        <5>3. QED
          BY <4>1, <5>1, <5>2
      <4>11. QED
        BY <4>7, <4>8, <4>9, <4>10
    <3>3. QED
      BY <1>1, <3>1, <3>2
  <2>2. QED
    BY <2>1
<1>5. S = Nat
  <2> HIDE DEF S
  <2>1. S \in SUBSET Nat
    BY DEF S
  <2>2. QED
    BY <1>3, <1>4, <2>1, CountingUp
<1>6. Right(0, n)
  <2>1. n \in S /\ 0 \in 0..n /\ n \in 0..n /\ n - 0 <= n
    BY <1>1, <1>5
  <2> HIDE DEF Right
  <2>2. QED
    BY <2>1
<1>7. \A i \in 1..n : In(i, 0, n) <=> facts[i].page = page
  BY <1>1
<1> HIDE DEF In
<1>8. QED
  BY <1>1, <1>2, <1>6, <1>7

-----------------------------------------------------------------------------------
(* What a scan knows. *)

Stops == {"none", "interrupted", "unreadable", "resource-limit"}
Failures == {"interrupted", "source", "format", "tde", "spill", "fact-store"}

ScanRecord ==
    [stage : {"none", "geometry", "envelopes", "reconciliation", "complete", "partial", "failed"},
     policy : [memory : Nat, spill : Nat], key : BOOLEAN, volume : Nat, next : Nat, spilling : BOOLEAN,
     resident : Nat, spilled : Nat, evaluated : Nat, notes : Nat, stop : Stops \cup Failures,
     validity : {"unverified", "valid", "invalidated", "torn"}]

FactStore == [spilled : BOOLEAN, offset : Nat, len : Nat, memory : Seq(PackedFact)]
VolumeRecord ==
    [total : Nat, systemLast : Nat, length : Nat, reserved : SUBSET Nat, facts : FactStore]

ReadResult ==
    {[kind |-> "pending"], [kind |-> "cancelled"], [kind |-> "unreadable"]}
    \cup {[kind |-> "fact", envelope |-> e] : e \in Envelopes}

\* The results of a wave up to the n-th: every page before the one that ends the scan has a
\* fact, and what they occupy was admitted.
TakenSound(a, n) ==
    /\ a \in [stop : Stops, resident : Nat, notes : Nat, evaluated : Nat, facts : Seq(PageFact)]
    /\ Len(a.facts) <= n
    /\ a.stop = "none" => Len(a.facts) = n
    /\ \A i \in 1..Len(a.facts) : a.facts[i].page = wave.pages[i]
    /\ a.evaluated = fastScan.evaluated + Len(a.facts) + (IF a.stop = "unreadable" THEN 1 ELSE 0)
    /\ fastScan.resident <= fastScan.policy.memory => a.resident <= fastScan.policy.memory

LEMMA TakenKeeps ==
    ASSUME fastScan \in ScanRecord, NEW n \in Nat, NEW a, TakenSound(a, n), wave.pages[n + 1] \in Nat,
           NEW result \in ReadResult, result.kind # "pending", NEW seen \in BOOLEAN
    PROVE  TakenSound(Taken(a, wave.pages[n + 1], result, seen), n + 1)
<1> DEFINE page == wave.pages[n + 1]
           A == [stop : Stops, resident : Nat, notes : Nat, evaluated : Nat, facts : Seq(PageFact)]
           b == Taken(a, page, result, seen)
<1>1. a \in A /\ Len(a.facts) \in Nat
  BY DEF TakenSound
<1>2. fastScan.policy.memory \in Nat /\ fastScan.key \in BOOLEAN
  BY DEF ScanRecord
<1>3. NoteFacts \in Nat
  BY ScanAssumption
<1>4. CASE a.stop # "none"
  <2>1. b = a
    BY <1>4 DEF Taken
  <2>2. QED
    BY <1>1, <1>4, <2>1 DEF TakenSound
<1>5. CASE a.stop = "none" /\ (seen \/ result.kind = "cancelled")
  <2>1. b = [a EXCEPT !.stop = "interrupted"]
    BY <1>5 DEF Taken, Ended
  <2>2. QED
    BY <1>1, <1>5, <2>1 DEF TakenSound, Stops
<1>6. \A c \in A : OverBudget(c) \in A /\ OverBudget(c).stop = "resource-limit"
                   /\ OverBudget(c).facts = c.facts /\ OverBudget(c).evaluated = c.evaluated
                   /\ OverBudget(c).resident = c.resident
  <2> SUFFICES ASSUME NEW c \in A
               PROVE  OverBudget(c) \in A /\ OverBudget(c).stop = "resource-limit"
                      /\ OverBudget(c).facts = c.facts /\ OverBudget(c).evaluated = c.evaluated
                      /\ OverBudget(c).resident = c.resident
    OBVIOUS
  <2> DEFINE d == [c EXCEPT !.notes = @ + 1]
  <2>1. d \in A /\ d.facts = c.facts /\ d.evaluated = c.evaluated /\ d.resident = c.resident
    OBVIOUS
  <2>2. OverBudget(c) = [d EXCEPT !.stop = "resource-limit"]
    BY DEF OverBudget, Ended
  <2>3. "resource-limit" \in Stops
    BY DEF Stops
  <2> HIDE DEF d
  <2>4. QED
    BY <2>1, <2>2, <2>3
<1>7. \A c \in A : NoteFits(c) => /\ Note(c) \in A /\ Note(c).facts = c.facts
                                  /\ Note(c).evaluated = c.evaluated /\ Note(c).stop = c.stop
                                  /\ Note(c).resident <= fastScan.policy.memory
  <2> SUFFICES ASSUME NEW c \in A, NoteFits(c)
               PROVE  /\ Note(c) \in A /\ Note(c).facts = c.facts
                      /\ Note(c).evaluated = c.evaluated /\ Note(c).stop = c.stop
                      /\ Note(c).resident <= fastScan.policy.memory
    OBVIOUS
  <2>1. Note(c) = [c EXCEPT !.resident = @ + NoteFacts, !.notes = @ + 1]
    BY DEF Note
  <2>2. c.resident + NoteFacts \in Nat /\ c.notes + 1 \in Nat
    BY <1>3
  <2>3. c.resident + NoteFacts <= fastScan.policy.memory
    BY DEF NoteFits
  <2>4. QED
    BY <2>1, <2>2, <2>3
<1>8. CASE a.stop = "none" /\ ~seen /\ result.kind = "unreadable"
  <2>1. CASE NoteFits(a)
    <3>1. b = [Note(a) EXCEPT !.evaluated = @ + 1, !.stop = "unreadable"]
      BY <1>8, <2>1 DEF Taken, Ended
    <3> DEFINE c == Note(a)
    <3>2. c \in A /\ c.facts = a.facts /\ c.evaluated = a.evaluated /\ c.resident <= fastScan.policy.memory
      BY <1>1, <1>7, <2>1
    <3> HIDE DEF c
    <3>3. b = [c EXCEPT !.evaluated = @ + 1, !.stop = "unreadable"]
      BY <3>1 DEF c
    <3>4. b \in A /\ b.facts = a.facts /\ b.evaluated = a.evaluated + 1 /\ b.stop = "unreadable"
          /\ b.resident <= fastScan.policy.memory
      <4>1. "unreadable" \in Stops /\ c.evaluated + 1 \in Nat
        BY <3>2 DEF Stops
      <4> HIDE DEF b
      <4>2. QED
        BY <3>2, <3>3, <4>1
    <3> HIDE DEF b
    <3>5. a.evaluated = fastScan.evaluated + Len(a.facts) /\ fastScan.evaluated \in Nat
      BY <1>1, <1>8 DEF TakenSound, ScanRecord
    <3>6. b.evaluated = fastScan.evaluated + Len(b.facts) + (IF b.stop = "unreadable" THEN 1 ELSE 0)
      BY <3>4, <3>5
    <3>7. Len(b.facts) <= n + 1 /\ \A i \in 1..Len(b.facts) : b.facts[i].page = wave.pages[i]
      BY <1>1, <3>4 DEF TakenSound
    <3>8. b.stop # "none"
      BY <3>4
    <3>9. TakenSound(b, n + 1)
      BY <3>4, <3>6, <3>7, <3>8 DEF TakenSound
    <3>10. QED
      BY <3>9 DEF b
  <2>2. CASE ~NoteFits(a)
    <3>1. b = OverBudget(a)
      BY <1>8, <2>2 DEF Taken
    <3>2. QED
      BY <1>1, <1>6, <1>8, <3>1 DEF TakenSound
  <2>3. QED
    BY <2>1, <2>2
<1>9. CASE a.stop = "none" /\ ~seen /\ result.kind = "fact"
  <2>1. PICK e \in Envelopes : result = [kind |-> "fact", envelope |-> e]
    BY <1>9 DEF ReadResult
  <2> DEFINE faulty == IF Faulty(e) THEN Note(a) ELSE a
             hinted == IF Hinted(e) THEN Note(faulty) ELSE faulty
             fact == FactOf(page, e, fastScan.key)
  <2>2. b = IF Faulty(e) /\ ~NoteFits(a) THEN OverBudget(a)
            ELSE IF Hinted(e) /\ ~NoteFits(faulty) THEN OverBudget(faulty)
            ELSE [hinted EXCEPT !.evaluated = @ + 1, !.facts = Append(@, fact)]
    BY <1>9, <2>1 DEF Taken
  <2>3. fact \in PageFact /\ fact.page = page
    BY <1>2, FactOfIsAFact
  <2>4. CASE Faulty(e) /\ ~NoteFits(a)
    BY <1>1, <1>6, <1>9, <2>2, <2>4 DEF TakenSound
  <2>5. CASE ~(Faulty(e) /\ ~NoteFits(a))
    <3>1. faulty \in A /\ faulty.facts = a.facts /\ faulty.evaluated = a.evaluated /\ faulty.stop = "none"
          /\ (fastScan.resident <= fastScan.policy.memory => faulty.resident <= fastScan.policy.memory)
      BY <1>1, <1>7, <1>9, <2>5 DEF TakenSound
    <3> HIDE DEF faulty
    <3>2. CASE Hinted(e) /\ ~NoteFits(faulty)
      <4>1. b = OverBudget(faulty)
        BY <2>2, <2>5, <3>2
      <4>2. QED
        BY <1>1, <1>6, <1>9, <3>1, <4>1 DEF TakenSound
    <3>3. CASE ~(Hinted(e) /\ ~NoteFits(faulty))
      <4>1. b = [hinted EXCEPT !.evaluated = @ + 1, !.facts = Append(@, fact)]
        BY <2>2, <2>5, <3>3
      <4>2. hinted \in A /\ hinted.facts = a.facts /\ hinted.evaluated = a.evaluated /\ hinted.stop = "none"
            /\ (fastScan.resident <= fastScan.policy.memory => hinted.resident <= fastScan.policy.memory)
        BY <1>7, <3>1, <3>3
      <4> HIDE DEF hinted, fact
      <4>3. b \in A /\ b.facts = Append(a.facts, fact) /\ b.evaluated = a.evaluated + 1
            /\ b.stop = "none" /\ b.resident = hinted.resident
        <5>1. hinted.evaluated + 1 \in Nat /\ Append(hinted.facts, fact) \in Seq(PageFact)
          BY <2>3, <4>2
        <5> HIDE DEF b
        <5>2. QED
          BY <4>1, <4>2, <5>1
      <4>4. Len(b.facts) = Len(a.facts) + 1 /\ b.facts[Len(a.facts) + 1] = fact
            /\ \A i \in 1..Len(a.facts) : b.facts[i] = a.facts[i]
        BY <1>1, <2>3, <4>3
      <4>5. Len(a.facts) = n /\ a.evaluated = fastScan.evaluated + n
        BY <1>9 DEF TakenSound, ScanRecord
      <4>6. \A i \in 1..Len(b.facts) : b.facts[i].page = wave.pages[i]
        <5>1. \A i \in 1..n : a.facts[i].page = wave.pages[i]
          BY <4>5 DEF TakenSound
        <5>2. \A i \in 1..n : b.facts[i].page = wave.pages[i]
          BY <4>4, <4>5, <5>1
        <5>3. b.facts[n + 1].page = wave.pages[n + 1]
          BY <2>3, <4>4, <4>5
        <5>4. Len(b.facts) = n + 1
          BY <4>4, <4>5
        <5>5. QED
          BY <5>2, <5>3, <5>4
      <4>7. b.evaluated = fastScan.evaluated + (n + 1) + 0
        BY <4>3, <4>5 DEF ScanRecord
      <4> HIDE DEF b
      <4>8. b.evaluated = fastScan.evaluated + Len(b.facts) + (IF b.stop = "unreadable" THEN 1 ELSE 0)
        BY <4>3, <4>4, <4>5, <4>7
      <4>9. Len(b.facts) = n + 1
        BY <4>4, <4>5
      <4>10. fastScan.resident <= fastScan.policy.memory => b.resident <= fastScan.policy.memory
        BY <4>2, <4>3
      <4>11. TakenSound(b, n + 1)
        BY <4>3, <4>6, <4>8, <4>9, <4>10 DEF TakenSound
      <4>12. QED
        BY <4>11 DEF b
    <3>4. QED
      BY <3>2, <3>3
  <2>6. QED
    BY <2>4, <2>5
<1>10. result.kind \in {"cancelled", "unreadable", "fact"}
  BY DEF ReadResult
<1>11. QED
  BY <1>4, <1>5, <1>8, <1>9, <1>10

NothingTaken ==
    [stop |-> "none", resident |-> fastScan.resident, notes |-> fastScan.notes,
     evaluated |-> fastScan.evaluated, facts |-> <<>>]

TakenUpTo(results, seen, n, take) ==
    take = [i \in 0..n |-> IF i = 0 THEN NothingTaken
                           ELSE Taken(take[i - 1], wave.pages[i], results[i], i >= seen)]

LEMMA TakesExist ==
    ASSUME NEW results, NEW seen
    PROVE  \A n \in Nat : \E take : TakenUpTo(results, seen, n, take)
<1> DEFINE S == {n \in Nat : \E take : TakenUpTo(results, seen, n, take)}
           step(f, i) == IF i = 0 THEN NothingTaken
                         ELSE Taken(f[i - 1], wave.pages[i], results[i], i >= seen)
<1> HIDE DEF step
<1>1. 0 \in S
  <2> DEFINE zero == [i \in 0 .. 0 |-> NothingTaken]
  <2>1. zero = [i \in 0 .. 0 |-> step(zero, i)]
    BY DEF step
  <2>2. TakenUpTo(results, seen, 0, zero)
    BY <2>1 DEF TakenUpTo, step
  <2>3. QED
    BY <2>2
<1>2. ASSUME NEW n \in S PROVE n + 1 \in S
  <2>1. PICK take : TakenUpTo(results, seen, n, take)
    OBVIOUS
  <2> DEFINE more == [i \in 0 .. n + 1 |-> IF i <= n THEN take[i] ELSE step(take, i)]
  <2>2. \A i \in 0 .. n : take[i] = step(take, i)
    BY <2>1 DEF TakenUpTo, step
  <2>3. ASSUME NEW i \in 0 .. n + 1 PROVE more[i] = step(more, i)
    <3>1. i # 0 => more[i - 1] = take[i - 1]
      OBVIOUS
    <3>2. step(more, i) = step(take, i)
      BY <3>1 DEF step
    <3>3. more[i] = step(take, i)
      BY <2>2
    <3>4. QED
      BY <3>2, <3>3
  <2> HIDE DEF more
  <2>4. more = [i \in 0 .. n + 1 |-> more[i]]
    BY DEF more
  <2>5. TakenUpTo(results, seen, n + 1, more)
    BY <2>3, <2>4 DEF TakenUpTo, step
  <2>6. QED
    BY <2>5
<1>3. S = Nat
  <2> HIDE DEF S
  <2>1. S \in SUBSET Nat
    BY DEF S
  <2>2. QED
    BY <1>1, <1>2, <2>1, CountingUp
<1>4. QED
  BY <1>3

LEMMA AllTakenIsSound ==
    ASSUME fastScan \in ScanRecord, NEW results \in Seq(ReadResult), wave.pages \in Seq(Nat),
           Len(results) = Len(wave.pages), NEW seen \in Nat,
           \A i \in 1..Len(results) : results[i].kind # "pending"
    PROVE  TakenSound(TakeAll(results, seen), Len(results))
<1> DEFINE n == Len(results)
           the == CHOOSE take : TakenUpTo(results, seen, n, take)
<1>1. n \in Nat
  OBVIOUS
<1>2. TakenUpTo(results, seen, n, the)
  BY <1>1, TakesExist
<1>3. TakeAll(results, seen) = the[n]
  BY DEF TakeAll, TakenUpTo, NothingTaken
<1>4. \A i \in 1..n : results[i] \in ReadResult /\ results[i].kind # "pending" /\ wave.pages[i] \in Nat
  OBVIOUS
<1> HIDE DEF the, n
<1>5. \A i \in 0..n : the[i] = IF i = 0 THEN NothingTaken
                               ELSE Taken(the[i - 1], wave.pages[i], results[i], i >= seen)
  BY <1>2 DEF TakenUpTo
<1> DEFINE S == {i \in Nat : i <= n => TakenSound(the[i], i)}
<1>6. 0 \in S
  <2>1. the[0] = NothingTaken
    BY <1>1, <1>5
  <2>2. <<>> \in Seq(PageFact) /\ Len(<<>>) = 0
    OBVIOUS
  <2>3. TakenSound(NothingTaken, 0)
    BY <2>2 DEF TakenSound, NothingTaken, ScanRecord, Stops
  <2>4. QED
    BY <2>1, <2>3
<1>7. ASSUME NEW i \in S PROVE i + 1 \in S
  <2> SUFFICES ASSUME i + 1 <= n PROVE TakenSound(the[i + 1], i + 1)
    OBVIOUS
  <2>1. i \in Nat /\ TakenSound(the[i], i)
    BY <1>1
  <2>2. i + 1 \in 1..n /\ i + 1 \in 0..n /\ i + 1 # 0 /\ i + 1 - 1 = i
    BY <1>1, <2>1
  <2>3. the[i + 1] = Taken(the[i], wave.pages[i + 1], results[i + 1], i + 1 >= seen)
    BY <1>5, <2>2
  <2>4. (i + 1 >= seen) \in BOOLEAN
    OBVIOUS
  <2> HIDE DEF S
  <2>5. QED
    BY <1>4, <2>1, <2>2, <2>3, <2>4, TakenKeeps
<1>8. S = Nat
  <2> HIDE DEF S
  <2>1. S \in SUBSET Nat
    BY DEF S
  <2>2. QED
    BY <1>6, <1>7, <2>1, CountingUp
<1>9. n \in S
  BY <1>1, <1>8
<1>10. TakenSound(the[n], n)
  BY <1>1, <1>9
<1>11. QED
  BY <1>3, <1>10 DEF n

\* A volume of which nothing was read.
NoStore == [spilled |-> FALSE, offset |-> 0, len |-> 0, memory |-> <<>>]
Unread(v) == scanned[v] = <<>> /\ volumes[v].facts = NoStore

\* A volume's store has the facts that were accepted of it, which are those of its first pages.
Holds(v) ==
    LET store == volumes[v].facts facts == scanned[v] pages == Eligible(volumes[v]) IN
    /\ store.spilled = fastScan.spilling
    /\ store.len = Len(facts) /\ Len(facts) <= Len(pages)
    /\ \A i \in 1..Len(facts) : facts[i].page = pages[i]
    /\ ~store.spilled => /\ Len(store.memory) = Len(facts)
                         /\ \A i \in 1..Len(facts) : store.memory[i] = Pack(facts[i])
    /\ store.spilled => /\ store.offset + store.len <= fastScan.spilled
                        /\ \A i \in 1..Len(facts) : spillFile[store.offset + i] = Pack(facts[i])

WholeVolume(v) == Len(scanned[v]) = Len(Eligible(volumes[v]))

ScanTypes ==
    /\ fastScan \in ScanRecord
    /\ volumes \in Seq(VolumeRecord) /\ Len(volumes) <= Len(Headers)
    /\ \A v \in 1..Len(volumes) : volumes[v].total * PageSpan <= volumes[v].length
    /\ spillFile \in Seq(PackedFact)
    /\ wave \in [pages : Seq(Nat), results : Seq(ReadResult)] /\ Len(wave.results) = Len(wave.pages)
    /\ cancelled \in BOOLEAN
    /\ scanned \in [1..Len(Headers) -> Seq(PageFact)]

\* Before the envelopes nothing was read.
NotBegun ==
    fastScan.stage \in {"none", "geometry"} =>
      /\ fastScan.volume = 1 /\ fastScan.next = 1 /\ fastScan.stop = "none"
      /\ fastScan.spilled = 0 /\ fastScan.evaluated = 0
      /\ spillFile = <<>> /\ wave = NoWave
      /\ \A v \in 1..Len(Headers) : scanned[v] = <<>>
      /\ \A v \in 1..Len(volumes) : volumes[v].facts = NoStore

LastStoreIsLast ==
    LET store == volumes[fastScan.volume].facts IN
    store.spilled => store.offset + store.len = fastScan.spilled

\* From then on the volumes before the one under way are whole, and none was read of those
\* behind it; the last store ends where the spill file does.
VolumesInTurn ==
    HoldingFacts =>
      /\ Len(volumes) = Len(Headers) /\ fastScan.volume \in 1..Len(Headers)
      /\ \A v \in 1..Len(Headers) :
           /\ v <= fastScan.volume => Holds(v)
           /\ v < fastScan.volume => WholeVolume(v)
           /\ v > fastScan.volume => Unread(v)
      /\ LastStoreIsLast
      /\ fastScan.stage # "envelopes" /\ fastScan.stop = "none" =>
           fastScan.volume = Len(Headers) /\ WholeVolume(fastScan.volume)

\* What was counted is what there is, within the policy.
Budgets ==
    HoldingFacts =>
      /\ fastScan.evaluated = Total([v \in DOMAIN scanned |-> Len(scanned[v])])
                            + (IF fastScan.stop = "unreadable" THEN 1 ELSE 0)
      /\ BaseFacts <= fastScan.policy.memory => fastScan.resident <= fastScan.policy.memory
      /\ BaseFacts > fastScan.policy.memory =>
           wave = NoWave /\ \A v \in 1..Len(Headers) : scanned[v] = <<>>
      /\ Len(spillFile) = fastScan.spilled /\ fastScan.spilled <= fastScan.policy.spill
      /\ fastScan.stop \in Stops
      /\ fastScan.stage = "envelopes" => fastScan.stop = "none"
      /\ fastScan.stage = "complete" => fastScan.stop = "none"
      /\ fastScan.stage = "partial" => fastScan.stop # "none"

\* The wave under way has the next pages of the volume under way, as many as there is room for.
WaveInTurn ==
    HoldingFacts =>
      /\ fastScan.stage # "envelopes" => wave = NoWave
      /\ fastScan.stage = "envelopes" =>
           LET read == Len(scanned[fastScan.volume]) pages == Eligible(volumes[fastScan.volume]) IN
           /\ fastScan.next = read + Len(wave.pages) + 1 /\ fastScan.next <= Len(pages) + 1
           /\ \A i \in 1..Len(wave.pages) : wave.pages[i] = pages[read + i]
           /\ fastScan.spilling => fastScan.spilled + Len(wave.pages) <= fastScan.policy.spill

ScanInv == ScanTypes /\ NotBegun /\ VolumesInTurn /\ Budgets /\ WaveInTurn

LEMMA InitScan == ScanInit => ScanInv
<1> SUFFICES ASSUME ScanInit PROVE ScanInv
  OBVIOUS
<1> USE DEF ScanInit
<1>1. Len(Headers) \in Nat /\ DOMAIN Headers = 1..Len(Headers)
  BY ScanAssumption
<1>2. <<>> \in Seq(VolumeRecord) /\ <<>> \in Seq(PackedFact) /\ <<>> \in Seq(Nat)
      /\ <<>> \in Seq(ReadResult) /\ <<>> \in Seq(PageFact) /\ Len(<<>>) = 0
  OBVIOUS
<1>3. fastScan \in ScanRecord
  BY DEF NothingScanned, ScanRecord, Stops
<1>4. wave \in [pages : Seq(Nat), results : Seq(ReadResult)] /\ Len(wave.results) = Len(wave.pages)
  BY <1>2 DEF NoWave
<1>5. scanned \in [1..Len(Headers) -> Seq(PageFact)]
  <2>1. scanned = [v \in 1..Len(Headers) |-> <<>>]
    BY <1>1
  <2>2. QED
    BY <1>2, <2>1
<1>6. ScanTypes
  <2>1. volumes \in Seq(VolumeRecord) /\ Len(volumes) = 0 /\ spillFile \in Seq(PackedFact)
        /\ cancelled \in BOOLEAN
    BY <1>2
  <2>2. Len(volumes) <= Len(Headers) /\ \A v \in 1..Len(volumes) : FALSE
    BY <1>1, <2>1
  <2>3. QED
    BY <1>3, <1>4, <1>5, <2>1, <2>2 DEF ScanTypes
<1>7. fastScan.stage = "none" /\ ~HoldingFacts
  BY DEF NothingScanned, HoldingFacts
<1>8. NotBegun
  BY <1>1, <1>2 DEF NotBegun, NothingScanned
<1>9. QED
  BY <1>6, <1>7, <1>8 DEF ScanInv, VolumesInTurn, Budgets, WaveInTurn

\* A scan that fails has nothing to answer for.
LEMMA FailKeeps ==
    ASSUME ScanInv, NEW reason \in Failures, Fail(reason)
    PROVE  ScanInv'
<1> USE DEF Fail
<1>1. fastScan' \in ScanRecord /\ fastScan'.stage = "failed"
  BY DEF ScanInv, ScanTypes, ScanRecord
<1>2. wave' \in [pages : Seq(Nat), results : Seq(ReadResult)] /\ Len(wave'.results) = Len(wave'.pages)
  <2>1. <<>> \in Seq(Nat) /\ <<>> \in Seq(ReadResult)
    OBVIOUS
  <2>2. QED
    BY <2>1 DEF NoWave
<1>3. ScanTypes'
  BY <1>1, <1>2 DEF ScanInv, ScanTypes
<1>4. ~HoldingFacts' /\ fastScan'.stage \notin {"none", "geometry"}
  BY <1>1 DEF HoldingFacts
<1>5. QED
  BY <1>3, <1>4 DEF ScanInv, NotBegun, VolumesInTurn, Budgets, WaveInTurn

LEMMA OpenKeeps ==
    ASSUME ScanInv, NEW policy \in ScanPolicies, NEW key \in BOOLEAN, OpenSnapshot(policy, key)
    PROVE  ScanInv'
<1> USE DEF OpenSnapshot
<1>1. policy \in [memory : Nat, spill : Nat]
  BY ScanAssumption
<1>2. fastScan \in ScanRecord
  BY DEF ScanInv, ScanTypes
<1>3. fastScan' \in ScanRecord /\ fastScan'.stage = "geometry"
  BY <1>1, <1>2 DEF ScanRecord
<1>4. ScanTypes'
  BY <1>3 DEF ScanInv, ScanTypes
<1>5. NotBegun'
  BY <1>2 DEF ScanInv, NotBegun, ScanRecord
<1>6. ~HoldingFacts'
  BY <1>3 DEF HoldingFacts
<1>7. QED
  BY <1>4, <1>5, <1>6 DEF ScanInv, VolumesInTurn, Budgets, WaveInTurn

LEMMA GeometryKeeps ==
    ASSUME ScanInv, ReadGeometry
    PROVE  ScanInv'
<1>1. fastScan.stage = "geometry" /\ Len(volumes) < Len(Headers) /\ volumes \in Seq(VolumeRecord)
      /\ fastScan \in ScanRecord
  BY DEF ReadGeometry, ScanInv, ScanTypes
<1>2. PICK h \in Headers[Len(volumes) + 1] :
         \/ cancelled /\ Fail("interrupted")
         \/ ~cancelled /\ Fail("source")
         \/ ~cancelled /\ ~GeometryIsSound(h) /\ Fail("format")
         \/ /\ ~cancelled /\ GeometryIsSound(h)
            /\ \E bits \in SUBSET (0..(h.maximum - 1)) :
                 volumes' = Append(volumes, [total |-> h.total, systemLast |-> SystemLast(h),
                   length |-> h.length, reserved |-> Reserved(h, bits), facts |-> NoStore])
            /\ UNCHANGED <<fastScan, spillFile, wave, cancelled, scanned>>
  BY DEF ReadGeometry, NoStore
<1>3. CASE Fail("interrupted") \/ Fail("source") \/ Fail("format")
  BY <1>3, FailKeeps DEF Failures
<1>4. ASSUME GeometryIsSound(h), NEW bits \in SUBSET (0..(h.maximum - 1)),
             volumes' = Append(volumes, [total |-> h.total, systemLast |-> SystemLast(h),
                   length |-> h.length, reserved |-> Reserved(h, bits), facts |-> NoStore]),
             UNCHANGED <<fastScan, spillFile, wave, cancelled, scanned>>
      PROVE  ScanInv'
  <2> DEFINE new == [total |-> h.total, systemLast |-> SystemLast(h),
                   length |-> h.length, reserved |-> Reserved(h, bits), facts |-> NoStore]
  <2>1. h \in [total : Nat, maximum : Nat, bitmapPages : Nat, length : Nat]
    <3>1. Len(volumes) + 1 \in 1..Len(Headers)
      BY <1>1, ScanAssumption
    <3>2. QED
      BY <3>1, ScanAssumption
  <2>2. SystemLast(h) \in Nat /\ h.total * PageSpan \in Nat
    <3>1. h.maximum + BitmapSpan - 1 \in Nat /\ BitmapSpan \in Nat \ {0} /\ PageSpan \in Nat
      BY <2>1, ScanAssumption
    <3>2. \A n \in Nat, d \in Nat \ {0} : n \div d \in Nat
      OBVIOUS
    <3>3. \A n, d \in Nat : n * d \in Nat
      OBVIOUS
    <3>4. QED
      BY <2>1, <3>1, <3>2, <3>3 DEF SystemLast, BitmapPages
  <2>3. Reserved(h, bits) \in SUBSET Nat
    BY DEF Reserved, Covered
  <2>4. NoStore \in FactStore
    <3>1. <<>> \in Seq(PackedFact)
      OBVIOUS
    <3>2. QED
      BY <3>1 DEF NoStore, FactStore
  <2>5. new \in VolumeRecord
    BY <2>1, <2>2, <2>3, <2>4 DEF VolumeRecord
  <2>6. new.total * PageSpan <= new.length
    <3>1. h.length >= (IF h.total * PageSpan > SystemLast(h) + 1 THEN h.total * PageSpan ELSE SystemLast(h) + 1)
      BY <1>4 DEF GeometryIsSound
    <3> DEFINE pages == h.total * PageSpan
    <3> HIDE DEF pages
    <3>2. pages <= h.length
      BY <2>1, <2>2, <3>1 DEF pages
    <3>3. QED
      BY <3>2 DEF pages
  <2>7. new.facts = NoStore
    OBVIOUS
  <2> HIDE DEF new
  <2>8. volumes' = Append(volumes, new)
    BY <1>4 DEF new
  <2>9. volumes' \in Seq(VolumeRecord) /\ Len(volumes') = Len(volumes) + 1
        /\ volumes'[Len(volumes) + 1] = new
        /\ \A v \in 1..Len(volumes) : volumes'[v] = volumes[v]
    BY <1>1, <2>5, <2>8
  <2>10. \A v \in 1..Len(volumes') : v = Len(volumes) + 1 \/ v \in 1..Len(volumes)
    BY <1>1, <2>9
  <2>11. \A v \in 1..Len(volumes') : volumes'[v].total * PageSpan <= volumes'[v].length
    BY <2>6, <2>9, <2>10 DEF ScanInv, ScanTypes
  <2>12. ScanTypes'
    BY <1>1, <1>4, <2>9, <2>11 DEF ScanInv, ScanTypes
  <2>13. \A v \in 1..Len(volumes') : volumes'[v].facts = NoStore
    BY <1>1, <2>7, <2>9, <2>10 DEF ScanInv, NotBegun
  <2>14. NotBegun'
    BY <1>1, <1>4, <2>13 DEF ScanInv, NotBegun
  <2>15. ~HoldingFacts'
    BY <1>1, <1>4 DEF HoldingFacts
  <2>16. QED
    BY <2>12, <2>14, <2>15 DEF ScanInv, VolumesInTurn, Budgets, WaveInTurn
<1>5. QED
  BY <1>2, <1>3, <1>4

\* A volume whose geometry is known has its pages.
LEMMA VolumesHavePages ==
    ASSUME ScanInv, NEW v \in 1..Len(volumes)
    PROVE  volumes[v] \in VolumeRecord /\ volumes[v].total \in Nat
           /\ Eligible(volumes[v]) \in Seq(Nat) /\ Len(Eligible(volumes[v])) \in Nat
<1>1. volumes[v] \in VolumeRecord
  BY DEF ScanInv, ScanTypes
<1>2. volumes[v].total \in Nat
  BY <1>1 DEF VolumeRecord
<1>3. Eligible(volumes[v]) \in Seq(Nat)
  BY <1>2, EligibleAscends DEF Ascending
<1>4. QED
  BY <1>1, <1>2, <1>3

LEMMA CountsOfScanned ==
    ASSUME ScanInv
    PROVE  /\ Len(Headers) \in Nat \ {0} /\ DOMAIN scanned = 1..Len(Headers)
           /\ [v \in DOMAIN scanned |-> Len(scanned[v])] \in Seq(Nat)
           /\ Len([v \in DOMAIN scanned |-> Len(scanned[v])]) = Len(Headers)
<1>1. Len(Headers) \in Nat \ {0}
  BY ScanAssumption
<1>2. DOMAIN scanned = 1..Len(Headers) /\ \A v \in 1..Len(Headers) : Len(scanned[v]) \in Nat
  BY <1>1 DEF ScanInv, ScanTypes
<1> DEFINE counts == [v \in 1..Len(Headers) |-> Len(scanned[v])]
<1>3. counts \in [1..Len(Headers) -> Nat]
  BY <1>2
<1>4. counts \in Seq(Nat) /\ Len(counts) = Len(Headers)
  <2> HIDE DEF counts
  <2>1. QED
    BY <1>1, <1>3
<1>5. QED
  BY <1>1, <1>2, <1>4

\* Nothing was read of any volume as reading begins.
LEMMA BeginKeepsScan ==
    ASSUME ScanInv, BeginEnvelopes
    PROVE  ScanInv'
<1> DEFINE fits == BaseFacts + EligibleTotal <= fastScan.policy.memory
           spilling == ~fits /\ BaseFacts <= fastScan.policy.memory
<1>1. fastScan.stage = "geometry" /\ Len(volumes) = Len(Headers) /\ fastScan \in ScanRecord
      /\ volumes \in Seq(VolumeRecord) /\ Len(volumes) \in Nat \ {0}
  BY ScanAssumption DEF BeginEnvelopes, ScanInv, ScanTypes
<1>2. CASE Fail("tde") \/ Fail("spill")
  BY <1>2, FailKeeps DEF Failures
<1>3. CASE /\ fastScan' = [fastScan EXCEPT !.stage = "envelopes", !.spilling = spilling,
                        !.resident = IF spilling THEN BaseFacts ELSE BaseFacts + EligibleTotal]
           /\ volumes' = [volumes EXCEPT ![1].facts.spilled = spilling]
           /\ UNCHANGED <<spillFile, wave, cancelled, scanned>>
  <2>1. EligibleTotal \in Nat /\ BaseFacts \in Nat /\ fastScan.policy.memory \in Nat
        /\ fastScan.policy.spill \in Nat
    <3> DEFINE counts == [v \in 1..Len(volumes) |-> Len(Eligible(volumes[v]))]
    <3>1. counts \in [1..Len(volumes) -> Nat]
      BY VolumesHavePages
    <3>2. counts \in Seq(Nat)
      <4> HIDE DEF counts
      <4>1. QED
        BY <1>1, <3>1
    <3>3. EligibleTotal = Total(counts)
      BY <1>1 DEF EligibleTotal
    <3> HIDE DEF counts
    <3>4. QED
      BY <1>1, <3>2, <3>3, TotalIsNat, ScanAssumption DEF ScanRecord
  <2>2. spilling \in BOOLEAN
    OBVIOUS
  <2> DEFINE resident == IF spilling THEN BaseFacts ELSE BaseFacts + EligibleTotal
  <2>3. resident \in Nat /\ (BaseFacts <= fastScan.policy.memory => resident <= fastScan.policy.memory)
    BY <2>1
  <2> HIDE DEF spilling, resident
  <2>4. fastScan' = [fastScan EXCEPT !.stage = "envelopes", !.spilling = spilling, !.resident = resident]
    BY <1>3 DEF spilling, resident
  <2>5. fastScan' \in ScanRecord
    BY <1>1, <2>2, <2>3, <2>4 DEF ScanRecord
  <2>6. /\ fastScan'.stage = "envelopes" /\ fastScan'.spilling = spilling /\ fastScan'.resident = resident
        /\ fastScan'.policy = fastScan.policy /\ fastScan'.volume = 1 /\ fastScan'.next = 1
        /\ fastScan'.stop = "none" /\ fastScan'.spilled = 0 /\ fastScan'.evaluated = 0
    BY <1>1, <2>4 DEF ScanRecord, ScanInv, NotBegun
  <2>7. /\ spillFile' = <<>> /\ wave' = NoWave /\ \A v \in 1..Len(Headers) : scanned'[v] = <<>>
        /\ \A v \in 1..Len(volumes) : volumes[v].facts = NoStore
    BY <1>1, <1>3 DEF ScanInv, NotBegun
  <2> DEFINE store == [NoStore EXCEPT !.spilled = spilling]
             first == [volumes[1] EXCEPT !.facts = store]
  <2>8. volumes' = [volumes EXCEPT ![1] = first]
    <3>1. volumes' = [volumes EXCEPT ![1] = [volumes[1] EXCEPT !.facts = [volumes[1].facts EXCEPT !.spilled = spilling]]]
      BY <1>3 DEF spilling
    <3>2. volumes[1].facts = NoStore
      BY <1>1, <2>7
    <3>3. QED
      BY <3>1, <3>2
  <2>9. store \in FactStore /\ store.spilled = spilling /\ store.offset = 0 /\ store.len = 0
        /\ store.memory = <<>>
    <3>1. <<>> \in Seq(PackedFact)
      OBVIOUS
    <3>2. QED
      BY <2>2, <3>1 DEF NoStore, FactStore
  <2>10. volumes[1] \in VolumeRecord
    BY <1>1
  <2>11. first \in VolumeRecord /\ first.facts = store /\ first.total = volumes[1].total
         /\ first.length = volumes[1].length
    <3> HIDE DEF store
    <3>1. QED
      BY <2>9, <2>10 DEF VolumeRecord
  <2> HIDE DEF store, first
  <2>12. volumes' \in Seq(VolumeRecord) /\ Len(volumes') = Len(volumes) /\ volumes'[1] = first
         /\ \A v \in 1..Len(volumes) : v # 1 => volumes'[v] = volumes[v]
    BY <1>1, <2>8, <2>11
  <2>13. \A v \in 1..Len(volumes') : volumes'[v].total * PageSpan <= volumes'[v].length
    <3>1. \A v \in 1..Len(volumes) : volumes[v].total * PageSpan <= volumes[v].length
      BY DEF ScanInv, ScanTypes
    <3>2. volumes[1].total * PageSpan <= volumes[1].length
      BY <1>1, <3>1
    <3>3. QED
      BY <2>11, <2>12, <3>1, <3>2
  <2>14. ScanTypes'
    BY <1>1, <1>3, <2>5, <2>12, <2>13 DEF ScanInv, ScanTypes
  <2>15. NotBegun'
    BY <2>6 DEF NotBegun
  <2>16. Len(<<>>) = 0 /\ 1..0 = {}
    OBVIOUS
  <2>17. Len(Eligible(volumes'[1])) \in Nat
    <3>1. first.total \in Nat
      BY <2>11 DEF VolumeRecord
    <3>2. Eligible(first) \in Seq(Nat)
      BY <3>1, EligibleAscends DEF Ascending
    <3>3. QED
      BY <2>12, <3>2
  <2>18. Holds(1)'
    <3>1. scanned'[1] = <<>> /\ volumes'[1].facts = store
      BY <1>1, <2>7, <2>11, <2>12
    <3>2. Len(scanned'[1]) = 0 /\ 1..Len(scanned'[1]) = {}
      BY <2>16, <3>1
    <3>3. store.offset + store.len <= 0 /\ Len(store.memory) = 0
      BY <2>9, <2>16
    <3>4. QED
      BY <2>6, <2>9, <2>17, <3>1, <3>2, <3>3 DEF Holds
  <2>19. VolumesInTurn'
    <3>1. \A v \in 1..Len(Headers) : v > 1 => Unread(v)'
      BY <1>1, <2>7, <2>12 DEF Unread
    <3>2. volumes'[1].facts.offset + volumes'[1].facts.len = 0
      BY <2>9, <2>11, <2>12
    <3>3. \A v \in 1..Len(Headers) : (v <= 1 => v = 1) /\ ~(v < 1)
      BY <1>1
    <3>4. LastStoreIsLast'
      BY <2>6, <3>2 DEF LastStoreIsLast
    <3>5. QED
      BY <1>1, <2>6, <2>12, <2>18, <3>1, <3>3, <3>4 DEF VolumesInTurn
  <2>20. Budgets'
    <3>1. Total([v \in DOMAIN scanned' |-> Len(scanned'[v])]) = 0
      <4> DEFINE counts == [v \in DOMAIN scanned |-> Len(scanned[v])]
      <4>1. counts \in Seq(Nat) /\ Len(counts) = Len(Headers) /\ DOMAIN scanned = 1..Len(Headers)
        BY CountsOfScanned
      <4>2. \A v \in 1..Len(Headers) : counts[v] = 0
        BY <1>3, <2>7, <2>16, <4>1
      <4> HIDE DEF counts
      <4>3. Total(counts) = 0
        BY <4>1, <4>2, NothingCounted
      <4>4. QED
        BY <1>3, <4>3 DEF counts
    <3>2. fastScan'.stop \in Stops /\ fastScan'.stop # "unreadable"
      BY <2>6 DEF Stops
    <3>3. QED
      BY <2>1, <2>3, <2>6, <2>7, <2>16, <3>1, <3>2 DEF Budgets
  <2>21. WaveInTurn'
    <3>1. wave'.pages = <<>> /\ Len(scanned'[1]) = 0
      BY <1>1, <2>7, <2>16 DEF NoWave
    <3>2. QED
      BY <2>1, <2>6, <2>16, <2>17, <3>1 DEF WaveInTurn
  <2>22. QED
    BY <2>14, <2>15, <2>19, <2>20, <2>21 DEF ScanInv
<1>4. QED
  BY <1>2, <1>3 DEF BeginEnvelopes

LEMMA HoldsKept ==
    ASSUME NEW v, volumes'[v] = volumes[v], scanned'[v] = scanned[v], spillFile' = spillFile,
           fastScan'.spilling = fastScan.spilling, fastScan'.spilled = fastScan.spilled, Holds(v)
    PROVE  Holds(v)'
  BY DEF Holds

\* An empty store has the facts of a volume of which none was accepted.
LEMMA EmptyHolds ==
    ASSUME NEW v, scanned'[v] = <<>>, NEW store, volumes'[v].facts = store,
           store.spilled = fastScan'.spilling, store.len = 0, store.memory = <<>>,
           store.offset \in Nat, store.offset <= fastScan'.spilled,
           Len(Eligible(volumes'[v])) \in Nat
    PROVE  Holds(v)'
<1>1. Len(<<>>) = 0 /\ 1..0 = {}
  OBVIOUS
<1>2. Len(scanned'[v]) = 0 /\ 1..Len(scanned'[v]) = {} /\ Len(store.memory) = 0
  BY <1>1
<1>3. store.offset + store.len <= fastScan'.spilled
  OBVIOUS
<1>4. QED
  BY <1>2, <1>3 DEF Holds

\* While no store changes, the volumes stay as they are.
LEMMA TurnKept ==
    ASSUME ScanInv, HoldingFacts, UNCHANGED <<volumes, spillFile, scanned>>,
           fastScan'.volume = fastScan.volume, fastScan'.spilling = fastScan.spilling,
           fastScan'.spilled = fastScan.spilled,
           fastScan'.stage # "envelopes" /\ fastScan'.stop = "none" =>
             fastScan.volume = Len(Headers) /\ WholeVolume(fastScan.volume)
    PROVE  VolumesInTurn'
<1>1. \A v \in 1..Len(Headers) : v <= fastScan.volume => Holds(v)'
  <2> SUFFICES ASSUME NEW v \in 1..Len(Headers), v <= fastScan.volume PROVE Holds(v)'
    OBVIOUS
  <2>1. Holds(v)
    BY DEF ScanInv, VolumesInTurn
  <2>2. QED
    BY <2>1, HoldsKept
<1>2. \A v \in 1..Len(Headers) : (WholeVolume(v) => WholeVolume(v)') /\ (Unread(v) => Unread(v)')
  BY DEF WholeVolume, Unread
<1>3. fastScan.volume \in 1..Len(Headers)
  BY DEF ScanInv, VolumesInTurn
<1>4. LastStoreIsLast'
  BY DEF ScanInv, VolumesInTurn, LastStoreIsLast
<1>5. QED
  BY <1>1, <1>2, <1>3, <1>4 DEF ScanInv, VolumesInTurn

\* What holds as a wave is about to begin.
LEMMA BetweenWaves ==
    ASSUME ScanInv, fastScan.stage = "envelopes"
    PROVE  LET u == fastScan.volume pages == Eligible(volumes[u]) IN
           /\ HoldingFacts /\ fastScan \in ScanRecord /\ Len(volumes) = Len(Headers)
           /\ u \in 1..Len(Headers) /\ Len(Headers) \in Nat /\ volumes \in Seq(VolumeRecord)
           /\ pages \in Seq(Nat) /\ Len(pages) \in Nat /\ Len(scanned[u]) \in Nat
           /\ Len(scanned[u]) <= Len(pages)
           /\ wave = NoWave => fastScan.next = Len(scanned[u]) + 1
<1> DEFINE u == fastScan.volume
<1>1. HoldingFacts /\ fastScan \in ScanRecord /\ volumes \in Seq(VolumeRecord)
  BY DEF HoldingFacts, ScanInv, ScanTypes
<1>2. Len(volumes) = Len(Headers) /\ u \in 1..Len(Headers) /\ Len(Headers) \in Nat
  BY <1>1, ScanAssumption DEF ScanInv, VolumesInTurn
<1>3. Eligible(volumes[u]) \in Seq(Nat) /\ Len(Eligible(volumes[u])) \in Nat
  BY <1>2, VolumesHavePages
<1>4. scanned[u] \in Seq(PageFact)
  BY <1>2 DEF ScanInv, ScanTypes
<1>5. Len(scanned[u]) <= Len(Eligible(volumes[u]))
  <2>1. Holds(u)
    BY <1>1, <1>2 DEF ScanInv, VolumesInTurn
  <2>2. QED
    BY <2>1 DEF Holds
<1>6. ASSUME wave = NoWave PROVE fastScan.next = Len(scanned[u]) + 1
  <2>1. fastScan.next = Len(scanned[u]) + Len(wave.pages) + 1
    BY <1>1 DEF ScanInv, WaveInTurn
  <2>2. Len(wave.pages) = 0 /\ Len(scanned[u]) \in Nat
    BY <1>4, <1>6 DEF NoWave
  <2>3. QED
    BY <2>1, <2>2
<1>7. Len(scanned[u]) \in Nat
  BY <1>4
<1>8. QED
  BY <1>1, <1>2, <1>3, <1>5, <1>6, <1>7

LEMMA NextVolumeKeeps ==
    ASSUME ScanInv, fastScan.stage = "envelopes", wave = NoWave,
           fastScan.next > Len(Eligible(volumes[fastScan.volume])), fastScan.volume < Len(volumes),
           fastScan' = [fastScan EXCEPT !.volume = @ + 1, !.next = 1], NextVolume,
           UNCHANGED <<wave, spillFile, cancelled, scanned>>
    PROVE  ScanInv'
<1>0. PICK u : u = fastScan.volume
  OBVIOUS
<1> DEFINE pages == Eligible(volumes[u])
<1>1. /\ HoldingFacts /\ fastScan \in ScanRecord /\ Len(volumes) = Len(Headers)
      /\ u \in 1..Len(Headers) /\ Len(Headers) \in Nat /\ volumes \in Seq(VolumeRecord)
      /\ Len(pages) \in Nat /\ Len(scanned[u]) \in Nat /\ Len(scanned[u]) <= Len(pages)
      /\ fastScan.next = Len(scanned[u]) + 1
  BY <1>0, BetweenWaves
<1>2. WholeVolume(u)
  BY <1>0, <1>1 DEF WholeVolume
<1>3. u + 1 \in 1..Len(Headers)
  BY <1>0, <1>1
<1>4. /\ fastScan' \in ScanRecord /\ fastScan'.volume = u + 1 /\ fastScan'.next = 1
      /\ fastScan'.stage = "envelopes" /\ fastScan'.spilling = fastScan.spilling
      /\ fastScan'.spilled = fastScan.spilled /\ fastScan'.evaluated = fastScan.evaluated
      /\ fastScan'.stop = fastScan.stop /\ fastScan'.resident = fastScan.resident
      /\ fastScan'.policy = fastScan.policy
  <2>1. u + 1 \in Nat /\ 1 \in Nat
    BY <1>3
  <2>2. fastScan' = [fastScan EXCEPT !.volume = u + 1, !.next = 1]
    BY <1>0
  <2>3. QED
    BY <1>1, <2>1, <2>2 DEF ScanRecord
<1>5. fastScan.spilling \in BOOLEAN /\ fastScan.spilled \in Nat /\ fastScan.policy.spill \in Nat
  BY <1>1 DEF ScanRecord
<1> DEFINE store == [spilled |-> fastScan.spilling, offset |-> fastScan.spilled, len |-> 0, memory |-> <<>>]
           next == [volumes[u + 1] EXCEPT !.facts = store]
<1>6. volumes' = [volumes EXCEPT ![u + 1] = next]
  BY <1>0 DEF NextVolume
<1>7. store \in FactStore /\ store.spilled = fastScan.spilling /\ store.offset = fastScan.spilled
      /\ store.len = 0 /\ store.memory = <<>>
  <2>1. <<>> \in Seq(PackedFact)
    OBVIOUS
  <2>2. QED
    BY <1>5, <2>1 DEF FactStore
<1>8. volumes[u + 1] \in VolumeRecord
  BY <1>1, <1>3
<1> HIDE DEF store
<1>9. next \in VolumeRecord /\ next.facts = store /\ next.total = volumes[u + 1].total
      /\ next.length = volumes[u + 1].length
  BY <1>7, <1>8 DEF VolumeRecord
<1> HIDE DEF next
<1>10. volumes' \in Seq(VolumeRecord) /\ Len(volumes') = Len(volumes) /\ volumes'[u + 1] = next
       /\ \A v \in 1..Len(volumes) : v # u + 1 => volumes'[v] = volumes[v]
  BY <1>1, <1>3, <1>6, <1>9
<1>11. \A v \in 1..Len(volumes') : volumes'[v].total * PageSpan <= volumes'[v].length
  <2>1. \A v \in 1..Len(volumes) : volumes[v].total * PageSpan <= volumes[v].length
    BY DEF ScanInv, ScanTypes
  <2>2. volumes[u + 1].total * PageSpan <= volumes[u + 1].length
    BY <1>1, <1>3, <2>1
  <2>3. QED
    BY <1>9, <1>10, <2>1, <2>2
<1>12. ScanTypes'
  BY <1>4, <1>10, <1>11 DEF ScanInv, ScanTypes
<1>13. NotBegun'
  BY <1>4 DEF NotBegun
<1>14. scanned[u + 1] = <<>> /\ Len(scanned[u + 1]) = 0 /\ 1..Len(scanned[u + 1]) = {}
  BY <1>0, <1>1, <1>3 DEF ScanInv, VolumesInTurn, Unread
<1>15. Len(Eligible(volumes'[u + 1])) \in Nat
  <2>1. next.total \in Nat
    BY <1>9 DEF VolumeRecord
  <2>2. Eligible(next) \in Seq(Nat)
    BY <2>1, EligibleAscends DEF Ascending
  <2>3. QED
    BY <1>10, <2>2
<1>16. Holds(u + 1)'
  <2>1. scanned'[u + 1] = <<>> /\ volumes'[u + 1].facts = store
    BY <1>9, <1>10, <1>14
  <2>2. store.offset \in Nat /\ store.offset <= fastScan'.spilled /\ store.spilled = fastScan'.spilling
    BY <1>4, <1>5, <1>7
  <2>3. QED
    BY <1>7, <1>15, <2>1, <2>2, EmptyHolds
<1>17. ASSUME NEW v \in 1..Len(Headers), v <= u PROVE Holds(v)'
  <2>1. Holds(v)
    BY <1>0, <1>1, <1>17 DEF ScanInv, VolumesInTurn
  <2>2. volumes'[v] = volumes[v]
    BY <1>1, <1>10, <1>17
  <2>3. QED
    BY <1>4, <2>1, <2>2, HoldsKept
<1>18. ASSUME NEW v \in 1..Len(Headers), v <= u PROVE WholeVolume(v)'
  <2>1. volumes'[v] = volumes[v]
    BY <1>1, <1>10, <1>18
  <2>2. WholeVolume(v)
    BY <1>0, <1>1, <1>2, <1>18 DEF ScanInv, VolumesInTurn
  <2>3. QED
    BY <2>1, <2>2 DEF WholeVolume
<1>19. ASSUME NEW v \in 1..Len(Headers), v > u + 1 PROVE Unread(v)'
  <2>1. volumes'[v] = volumes[v] /\ Unread(v)
    BY <1>0, <1>1, <1>10, <1>19 DEF ScanInv, VolumesInTurn
  <2>2. QED
    BY <2>1 DEF Unread
<1>20. VolumesInTurn'
  <2>1. \A v \in 1..Len(Headers) : (v <= u + 1 => v <= u \/ v = u + 1) /\ (v < u + 1 => v <= u)
    BY <1>1
  <2>2. volumes'[u + 1].facts.offset + volumes'[u + 1].facts.len = fastScan.spilled
    BY <1>5, <1>7, <1>9, <1>10
  <2>3. \A v \in 1..Len(Headers) : /\ v <= u + 1 => Holds(v)'
                                   /\ v < u + 1 => WholeVolume(v)'
                                   /\ v > u + 1 => Unread(v)'
    BY <1>16, <1>17, <1>18, <1>19, <2>1
  <2>4. Len(volumes') = Len(Headers) /\ u + 1 \in 1..Len(Headers) /\ fastScan'.volume = u + 1
        /\ fastScan'.stage = "envelopes" /\ fastScan'.spilled = fastScan.spilled
    BY <1>1, <1>3, <1>4, <1>10
  <2>5. \A v \in 1..Len(Headers) : /\ v <= fastScan'.volume => Holds(v)'
                                   /\ v < fastScan'.volume => WholeVolume(v)'
                                   /\ v > fastScan'.volume => Unread(v)'
    BY <2>3, <2>4
  <2>6. volumes'[fastScan'.volume].facts.offset + volumes'[fastScan'.volume].facts.len = fastScan'.spilled
    BY <2>2, <2>4
  <2>7. LastStoreIsLast'
    BY <2>6 DEF LastStoreIsLast
  <2>8. QED
    BY <2>4, <2>5, <2>7 DEF VolumesInTurn
<1>21. Budgets'
  BY <1>1, <1>4 DEF ScanInv, Budgets, HoldingFacts
<1>22. WaveInTurn'
  <2>1. wave'.pages = <<>> /\ Len(scanned'[u + 1]) = 0 /\ Len(<<>>) = 0 /\ 1..0 = {}
    BY <1>14 DEF NoWave
  <2>2. fastScan.spilled <= fastScan.policy.spill
    BY <1>1 DEF ScanInv, Budgets
  <2>3. QED
    BY <1>4, <1>5, <1>15, <2>1, <2>2 DEF WaveInTurn
<1>23. QED
  BY <1>12, <1>13, <1>20, <1>21, <1>22 DEF ScanInv

\* A scan that stops reading, for whatever reason, has every page it counted.
LEMMA StopReadingKeeps ==
    ASSUME ScanInv, fastScan.stage = "envelopes", wave = NoWave,
           fastScan' \in ScanRecord, fastScan'.stage = "reconciliation",
           \/ /\ fastScan'.stop = "none"
              /\ fastScan.volume = Len(volumes) /\ fastScan.next > Len(Eligible(volumes[fastScan.volume]))
           \/ fastScan'.stop = "resource-limit",
           fastScan'.volume = fastScan.volume, fastScan'.spilling = fastScan.spilling,
           fastScan'.spilled = fastScan.spilled, fastScan'.evaluated = fastScan.evaluated,
           fastScan'.resident = fastScan.resident, fastScan'.policy = fastScan.policy,
           UNCHANGED <<volumes, wave, spillFile, cancelled, scanned>>
    PROVE  ScanInv'
<1> DEFINE u == fastScan.volume
           pages == Eligible(volumes[u])
<1>1. /\ HoldingFacts /\ Len(volumes) = Len(Headers)
      /\ Len(pages) \in Nat /\ Len(scanned[u]) \in Nat /\ Len(scanned[u]) <= Len(pages)
      /\ fastScan.next = Len(scanned[u]) + 1
  BY BetweenWaves
<1>2. ScanTypes'
  BY DEF ScanInv, ScanTypes
<1>3. fastScan'.stop = "none" => u = Len(Headers) /\ WholeVolume(u)
  BY <1>1 DEF WholeVolume
<1>4. VolumesInTurn'
  BY <1>1, <1>3, TurnKept
<1>5. NotBegun'
  BY DEF NotBegun
<1>6. Budgets'
  <2>1. fastScan.stop = "none" /\ fastScan'.stop \in Stops /\ fastScan'.stop # "unreadable"
    BY <1>1 DEF ScanInv, Budgets, Stops
  <2>2. QED
    BY <1>1, <2>1 DEF ScanInv, Budgets
<1>7. WaveInTurn'
  BY DEF WaveInTurn
<1>8. QED
  BY <1>2, <1>4, <1>5, <1>6, <1>7 DEF ScanInv

TakesWave(cap, end, taken) ==
    /\ fastScan.stage = "envelopes" /\ wave = NoWave
    /\ fastScan.spilling => cap <= fastScan.policy.spill - fastScan.spilled
    /\ BaseFacts <= fastScan.policy.memory
    /\ end <= fastScan.next - 1 + cap /\ fastScan.next <= end
    /\ end <= Len(Eligible(volumes[fastScan.volume]))
    /\ taken = SubSeq(Eligible(volumes[fastScan.volume]), fastScan.next, end)
    /\ wave' = [pages |-> taken, results |-> [i \in DOMAIN taken |-> [kind |-> "pending"]]]
    /\ fastScan' = [fastScan EXCEPT !.next = @ + Len(taken)]
    /\ UNCHANGED <<volumes, spillFile, cancelled, scanned>>

LEMMA TakeWaveKeeps ==
    ASSUME ScanInv, NEW cap \in Nat \ {0}, NEW end \in Nat, NEW taken, TakesWave(cap, end, taken)
    PROVE  ScanInv'
<1>1. PICK u, pages, read : u = fastScan.volume /\ pages = Eligible(volumes[u]) /\ read = Len(scanned[u])
  OBVIOUS
<1>2. /\ HoldingFacts /\ fastScan \in ScanRecord
      /\ pages \in Seq(Nat) /\ Len(pages) \in Nat /\ read \in Nat /\ read <= Len(pages)
      /\ fastScan.next = read + 1
  BY <1>1, BetweenWaves DEF TakesWave
<1>3. fastScan.spilled \in Nat /\ fastScan.policy.spill \in Nat /\ fastScan.policy.memory \in Nat
  BY <1>2 DEF ScanRecord
<1>4. end <= fastScan.next - 1 + cap /\ fastScan.next <= end /\ end <= Len(pages)
      /\ taken = SubSeq(pages, fastScan.next, end)
  BY <1>1 DEF TakesWave
<1>5. PICK n : n = end - read
  OBVIOUS
<1>6. /\ n \in Nat /\ n >= 1 /\ n <= cap /\ end = read + n
      /\ fastScan.next \in Int /\ end \in Int /\ end - fastScan.next + 1 = n
  BY <1>2, <1>4, <1>5
<1>7. taken \in Seq(Nat) /\ Len(taken) = n /\ \A i \in 1..n : taken[i] = pages[read + i]
  <2>1. \A i \in fastScan.next..end : pages[i] \in Nat
    <3>1. \A i \in fastScan.next..end : i \in 1..Len(pages)
      BY <1>2, <1>4, <1>6
    <3>2. QED
      BY <1>2, <3>1
  <2>2. taken \in Seq(Nat) /\ Len(taken) = end - fastScan.next + 1
        /\ \A i \in 1..end - fastScan.next + 1 : taken[i] = pages[fastScan.next + i - 1]
    <3>1. PICK m \in Int, k \in Int : m = fastScan.next /\ k = end
      BY <1>6
    <3>2. m <= k /\ \A i \in m..k : pages[i] \in Nat
      BY <1>4, <2>1, <3>1
    <3>3. m \in Int /\ k \in Int
      BY <3>1
    <3>4. /\ SubSeq(pages, m, k) \in Seq(Nat)
          /\ Len(SubSeq(pages, m, k)) = IF m <= k THEN k - m + 1 ELSE 0
          /\ \A i \in 1..k - m + 1 : SubSeq(pages, m, k)[i] = pages[m + i - 1]
      BY <3>2, <3>3, SubSeqProperties
    <3>5. QED
      BY <1>4, <3>1, <3>2, <3>4
  <2>3. \A i \in 1..n : fastScan.next + i - 1 = read + i
    BY <1>2
  <2>4. QED
    BY <1>6, <2>2, <2>3
<1>8. /\ fastScan' \in ScanRecord /\ fastScan'.next = read + n + 1
      /\ fastScan'.volume = fastScan.volume
      /\ fastScan'.stage = "envelopes" /\ fastScan'.spilling = fastScan.spilling
      /\ fastScan'.spilled = fastScan.spilled /\ fastScan'.evaluated = fastScan.evaluated
      /\ fastScan'.stop = fastScan.stop /\ fastScan'.resident = fastScan.resident
      /\ fastScan'.policy = fastScan.policy
  <2>1. fastScan.next + Len(taken) = read + n + 1 /\ read + n + 1 \in Nat
    BY <1>2, <1>6, <1>7
  <2>2. fastScan' = [fastScan EXCEPT !.next = read + n + 1] /\ fastScan.stage = "envelopes"
    BY <2>1 DEF TakesWave
  <2>3. QED
    BY <1>2, <2>1, <2>2 DEF ScanRecord
<1>9. /\ wave' \in [pages : Seq(Nat), results : Seq(ReadResult)]
      /\ Len(wave'.results) = Len(wave'.pages) /\ wave'.pages = taken
  <2> DEFINE results == [i \in DOMAIN taken |-> [kind |-> "pending"]]
  <2>1. DOMAIN taken = 1..n
    BY <1>7
  <2>2. [kind |-> "pending"] \in ReadResult
    BY DEF ReadResult
  <2>3. results \in [1..n -> ReadResult]
    BY <2>1, <2>2
  <2>4. wave' = [pages |-> taken, results |-> results]
    BY DEF TakesWave
  <2> HIDE DEF results
  <2>5. results \in Seq(ReadResult) /\ Len(results) = n
    BY <1>6, <2>3
  <2>6. QED
    BY <1>7, <2>4, <2>5
<1>10. UNCHANGED <<volumes, spillFile, cancelled, scanned>> /\ BaseFacts <= fastScan.policy.memory
       /\ (fastScan.spilling => cap <= fastScan.policy.spill - fastScan.spilled)
  BY DEF TakesWave
<1>11. ScanTypes'
  BY <1>8, <1>9, <1>10 DEF ScanInv, ScanTypes
<1>12. VolumesInTurn'
  BY <1>2, <1>8, <1>10, TurnKept
<1>13. NotBegun'
  BY <1>8 DEF NotBegun
<1>14. Budgets'
  <2>1. ~(BaseFacts > fastScan.policy.memory)
    BY <1>3, <1>10, ScanAssumption
  <2>2. Total([v \in DOMAIN scanned' |-> Len(scanned'[v])]) = Total([v \in DOMAIN scanned |-> Len(scanned[v])])
    BY <1>10
  <2>3. fastScan.stage = "envelopes"
    BY DEF TakesWave
  <2>4. QED
    BY <1>2, <1>8, <1>10, <2>1, <2>2, <2>3 DEF ScanInv, Budgets
<1>15. WaveInTurn'
  <2>1. read + n + 1 <= Len(pages) + 1
    BY <1>2, <1>4, <1>6
  <2>2. fastScan.spilling => fastScan.spilled + n <= fastScan.policy.spill
    BY <1>3, <1>6, <1>10
  <2>3. fastScan'.volume = u /\ Eligible(volumes'[u]) = pages /\ Len(scanned'[u]) = read
    BY <1>1, <1>8, <1>10
  <2>4. QED
    BY <1>7, <1>8, <1>9, <2>1, <2>2, <2>3 DEF WaveInTurn
<1>16. QED
  BY <1>11, <1>12, <1>13, <1>14, <1>15 DEF ScanInv

LEMMA StartWaveKeeps ==
    ASSUME ScanInv, StartWave
    PROVE  ScanInv'
<1> DEFINE u == fastScan.volume
           pages == Eligible(volumes[u])
<1>1. fastScan.stage = "envelopes" /\ wave = NoWave
  BY DEF StartWave
<1>2. /\ fastScan \in ScanRecord /\ pages \in Seq(Nat) /\ Len(pages) \in Nat
      /\ Len(scanned[u]) \in Nat /\ fastScan.next = Len(scanned[u]) + 1
  BY <1>1, BetweenWaves
<1>3. CASE /\ fastScan.next > Len(pages) /\ fastScan.volume < Len(volumes)
           /\ fastScan' = [fastScan EXCEPT !.volume = @ + 1, !.next = 1]
           /\ NextVolume /\ UNCHANGED <<wave, spillFile, cancelled, scanned>>
  BY <1>1, <1>3, NextVolumeKeeps
<1>4. CASE /\ fastScan.next > Len(pages) /\ fastScan.volume = Len(volumes)
           /\ fastScan' = [fastScan EXCEPT !.stage = "reconciliation"]
           /\ UNCHANGED <<volumes, wave, spillFile, cancelled, scanned>>
  <2>1. fastScan.stop = "none"
    BY <1>1 DEF ScanInv, Budgets, HoldingFacts
  <2>2. fastScan' \in ScanRecord
    BY <1>2, <1>4 DEF ScanRecord
  <2>3. /\ fastScan'.stage = "reconciliation" /\ fastScan'.stop = "none"
        /\ fastScan'.volume = fastScan.volume /\ fastScan'.spilling = fastScan.spilling
        /\ fastScan'.spilled = fastScan.spilled /\ fastScan'.evaluated = fastScan.evaluated
        /\ fastScan'.resident = fastScan.resident /\ fastScan'.policy = fastScan.policy
    BY <1>2, <1>4, <2>1 DEF ScanRecord
  <2>4. QED
    BY <1>1, <1>4, <2>2, <2>3, StopReadingKeeps
<1>5. CASE /\ fastScan' = StoppedEarly("resource-limit")
           /\ UNCHANGED <<volumes, wave, spillFile, cancelled, scanned>>
  <2>1. fastScan' = [fastScan EXCEPT !.stage = "reconciliation", !.stop = "resource-limit", !.notes = @ + 1]
    BY <1>5 DEF StoppedEarly
  <2>2. fastScan' \in ScanRecord
    <3>1. "resource-limit" \in Stops \cup Failures
      BY DEF Stops
    <3>2. fastScan.notes + 1 \in Nat
      BY <1>2 DEF ScanRecord
    <3>3. QED
      BY <1>2, <2>1, <3>1, <3>2 DEF ScanRecord
  <2>3. /\ fastScan'.stage = "reconciliation" /\ fastScan'.stop = "resource-limit"
        /\ fastScan'.volume = fastScan.volume /\ fastScan'.spilling = fastScan.spilling
        /\ fastScan'.spilled = fastScan.spilled /\ fastScan'.evaluated = fastScan.evaluated
        /\ fastScan'.resident = fastScan.resident /\ fastScan'.policy = fastScan.policy
    BY <1>2, <2>1 DEF ScanRecord
  <2>4. QED
    BY <1>1, <1>5, <2>2, <2>3, StopReadingKeeps
<1> DEFINE room == Workers * Batch
           cap == IF Slots < room THEN Slots ELSE room
           last == fastScan.next - 1 + cap
           end == IF last < Len(pages) THEN last ELSE Len(pages)
           taken == SubSeq(pages, fastScan.next, end)
<1>6. CASE /\ fastScan.next <= Len(pages)
           /\ ~(BaseFacts > fastScan.policy.memory \/ Slots = 0)
           /\ wave' = [pages |-> taken, results |-> [i \in DOMAIN taken |-> [kind |-> "pending"]]]
           /\ fastScan' = [fastScan EXCEPT !.next = @ + Len(taken)]
           /\ UNCHANGED <<volumes, spillFile, cancelled, scanned>>
  <2>1. room \in Nat \ {0}
    <3>1. \A m, n \in Nat \ {0} : m * n \in Nat \ {0}
      OBVIOUS
    <3>2. QED
      BY <3>1, ScanAssumption
  <2>2. fastScan.spilled \in Nat /\ fastScan.policy.spill \in Nat /\ fastScan.policy.memory \in Nat
    BY <1>2 DEF ScanRecord
  <2>3. fastScan.spilled <= fastScan.policy.spill
    BY <1>1 DEF ScanInv, Budgets, HoldingFacts
  <2>4. Slots = IF fastScan.spilling THEN fastScan.policy.spill - fastScan.spilled ELSE room
    BY DEF Slots
  <2> HIDE DEF room
  <2>5. Slots \in Nat \ {0}
    BY <1>6, <2>1, <2>2, <2>3, <2>4
  <2>6. cap \in Nat \ {0} /\ (fastScan.spilling => cap <= fastScan.policy.spill - fastScan.spilled)
    BY <2>1, <2>2, <2>4, <2>5
  <2> HIDE DEF cap
  <2>7. BaseFacts <= fastScan.policy.memory
    BY <1>6, <2>2, ScanAssumption
  <2>8. last \in Nat /\ fastScan.next <= last
    BY <1>2, <2>6
  <2>9. end \in Nat /\ end <= last /\ fastScan.next <= end /\ end <= Len(pages)
    BY <1>2, <1>6, <2>8
  <2> HIDE DEF end
  <2>10. QED
    BY <1>1, <1>6, <2>6, <2>7, <2>9, TakeWaveKeeps DEF TakesWave
<1>7. QED
  BY <1>3, <1>4, <1>5, <1>6 DEF StartWave

\* A worker reads one page of the wave.
LEMMA ReadKeeps ==
    ASSUME ScanInv, NEW worker \in 1..Workers, ReadEnvelope(worker)
    PROVE  ScanInv'
<1>1. /\ fastScan.stage = "envelopes" /\ UNCHANGED <<fastScan, volumes, spillFile, cancelled, scanned>>
      /\ \E i \in DOMAIN wave.pages : TRUE
      /\ \E i : \E result \in ReadResult : wave' = [wave EXCEPT !.results[i] = result]
  <2> DEFINE mine == {i \in DOMAIN wave.pages : (i - 1) \div Batch = worker - 1 /\ wave.results[i].kind = "pending"}
             offered == IF cancelled THEN {[kind |-> "cancelled"]}
                        ELSE {[kind |-> "unreadable"]} \cup {[kind |-> "fact", envelope |-> e] : e \in Envelopes}
  <2>1. /\ fastScan.stage = "envelopes" /\ UNCHANGED <<fastScan, volumes, spillFile, cancelled, scanned>>
        /\ mine # {} /\ \E i : \E result \in offered : wave' = [wave EXCEPT !.results[i] = result]
    BY DEF ReadEnvelope
  <2>2. offered \subseteq ReadResult
    BY DEF ReadResult
  <2>3. \E i \in DOMAIN wave.pages : TRUE
    BY <2>1
  <2> HIDE DEF offered, mine
  <2>4. QED
    BY <2>1, <2>2, <2>3
<1>2. PICK i : \E result \in ReadResult : wave' = [wave EXCEPT !.results[i] = result]
  BY <1>1
<1> PICK result \in ReadResult : wave' = [wave EXCEPT !.results[i] = result]
  BY <1>2
<1>3. wave \in [pages : Seq(Nat), results : Seq(ReadResult)] /\ Len(wave.results) = Len(wave.pages)
  BY DEF ScanInv, ScanTypes
<1>4. /\ wave' \in [pages : Seq(Nat), results : Seq(ReadResult)]
      /\ Len(wave'.results) = Len(wave'.pages) /\ wave'.pages = wave.pages
  <2> DEFINE results == [wave.results EXCEPT ![i] = result]
  <2>1. wave.results \in Seq(ReadResult)
    BY <1>3
  <2>2. results \in Seq(ReadResult) /\ Len(results) = Len(wave.results)
    <3>0. wave.results \in [1..Len(wave.results) -> ReadResult] /\ Len(wave.results) \in Nat
      BY <2>1
    <3>1. results \in [1..Len(wave.results) -> ReadResult] /\ Len(wave.results) \in Nat
      BY <3>0
    <3> HIDE DEF results
    <3>2. QED
      BY <3>1
  <2>3. wave' = [wave EXCEPT !.results = results]
    OBVIOUS
  <2> HIDE DEF results
  <2>4. QED
    BY <1>3, <2>2, <2>3
<1>5. wave # NoWave
  <2>1. Len(wave.pages) # 0
    BY <1>1, <1>3
  <2>2. Len(NoWave.pages) = 0
    BY DEF NoWave
  <2>3. QED
    BY <2>1, <2>2
<1>6. HoldingFacts /\ HoldingFacts'
  BY <1>1 DEF HoldingFacts
<1>7. ScanTypes'
  BY <1>1, <1>4 DEF ScanInv, ScanTypes
<1>8. NotBegun'
  BY <1>1 DEF NotBegun
<1>9. VolumesInTurn'
  BY <1>1, <1>6, TurnKept
<1>10. Budgets'
  BY <1>1, <1>5, <1>6 DEF ScanInv, Budgets
<1>11. WaveInTurn'
  BY <1>1, <1>4, <1>6 DEF ScanInv, WaveInTurn
<1>12. QED
  BY <1>7, <1>8, <1>9, <1>10, <1>11 DEF ScanInv

LEMMA ConcatBehind ==
    ASSUME NEW S, NEW s \in Seq(S), NEW t \in Seq(S)
    PROVE  /\ s \o t \in Seq(S) /\ Len(s \o t) = Len(s) + Len(t)
           /\ \A i \in 1..Len(s) : (s \o t)[i] = s[i]
           /\ \A i \in 1..Len(t) : (s \o t)[Len(s) + i] = t[i]
<1>1. /\ s \o t \in Seq(S) /\ Len(s \o t) = Len(s) + Len(t)
      /\ \A i \in 1..Len(s) + Len(t) : (s \o t)[i] = IF i <= Len(s) THEN s[i] ELSE t[i - Len(s)]
  BY ConcatProperties
<1>2. Len(s) \in Nat /\ Len(t) \in Nat
  OBVIOUS
<1>3. \A i \in 1..Len(s) : i \in 1..Len(s) + Len(t) /\ i <= Len(s)
  BY <1>2
<1>4. \A i \in 1..Len(t) : /\ Len(s) + i \in 1..Len(s) + Len(t) /\ ~(Len(s) + i <= Len(s))
                          /\ Len(s) + i - Len(s) = i
  BY <1>2
<1>5. QED
  BY <1>1, <1>3, <1>4

\* What a wave adds to the store of its volume.
LEMMA KeptStore ==
    ASSUME NEW store \in FactStore, NEW facts \in Seq(PageFact)
    PROVE  /\ Kept(store, facts) \in FactStore
           /\ Kept(store, facts).spilled = store.spilled /\ Kept(store, facts).offset = store.offset
           /\ Kept(store, facts).len = store.len + Len(facts)
           /\ ~store.spilled =>
                /\ Len(Kept(store, facts).memory) = Len(store.memory) + Len(facts)
                /\ \A i \in 1..Len(store.memory) : Kept(store, facts).memory[i] = store.memory[i]
                /\ \A i \in 1..Len(facts) : Kept(store, facts).memory[Len(store.memory) + i] = Pack(facts[i])
<1> DEFINE packed == [i \in DOMAIN facts |-> Pack(facts[i])]
           memory == IF store.spilled THEN store.memory ELSE store.memory \o packed
<1>1. packed \in Seq(PackedFact) /\ Len(packed) = Len(facts) /\ \A i \in 1..Len(facts) : packed[i] = Pack(facts[i])
  <2>1. \A i \in 1..Len(facts) : Pack(facts[i]) \in PackedFact
    BY PackedReadsBack
  <2>2. DOMAIN facts = 1..Len(facts) /\ Len(facts) \in Nat
    OBVIOUS
  <2>3. packed \in [1..Len(facts) -> PackedFact] /\ \A i \in 1..Len(facts) : packed[i] = Pack(facts[i])
    BY <2>1, <2>2
  <2> HIDE DEF packed
  <2>4. QED
    BY <2>2, <2>3
<1>2. store.memory \in Seq(PackedFact) /\ store.len \in Nat /\ Len(facts) \in Nat
  BY DEF FactStore
<1> HIDE DEF packed
<1>3. /\ memory \in Seq(PackedFact)
      /\ ~store.spilled => /\ Len(memory) = Len(store.memory) + Len(facts)
                           /\ \A i \in 1..Len(store.memory) : memory[i] = store.memory[i]
                           /\ \A i \in 1..Len(facts) : memory[Len(store.memory) + i] = packed[i]
  <2>1. /\ store.memory \o packed \in Seq(PackedFact)
        /\ Len(store.memory \o packed) = Len(store.memory) + Len(facts)
        /\ \A i \in 1..Len(store.memory) : (store.memory \o packed)[i] = store.memory[i]
        /\ \A i \in 1..Len(facts) : (store.memory \o packed)[Len(store.memory) + i] = packed[i]
    <3>1. PICK m \in Seq(PackedFact) : m = store.memory
      BY <1>2
    <3>2. /\ m \o packed \in Seq(PackedFact) /\ Len(m \o packed) = Len(m) + Len(packed)
          /\ \A i \in 1..Len(m) : (m \o packed)[i] = m[i]
          /\ \A i \in 1..Len(packed) : (m \o packed)[Len(m) + i] = packed[i]
      <4>1. packed \in Seq(PackedFact)
        BY <1>1
      <4>2. QED
        BY <3>1, <4>1, ConcatBehind
    <3>3. QED
      BY <1>1, <3>1, <3>2
  <2>2. QED
    BY <1>2, <2>1
<1>4. Kept(store, facts) = [store EXCEPT !.len = store.len + Len(facts), !.memory = memory]
  BY DEF Kept, packed
<1> HIDE DEF memory
<1>5. store.len + Len(facts) \in Nat
  BY <1>2
<1>6. /\ Kept(store, facts) \in FactStore /\ Kept(store, facts).memory = memory
      /\ Kept(store, facts).spilled = store.spilled /\ Kept(store, facts).offset = store.offset
      /\ Kept(store, facts).len = store.len + Len(facts)
  BY <1>3, <1>4, <1>5 DEF FactStore
<1>7. QED
  BY <1>1, <1>3, <1>6

\* What it writes behind the facts that are in the spill file.
LEMMA WrittenFile ==
    ASSUME NEW store \in FactStore, NEW facts \in Seq(PageFact), spillFile \in Seq(PackedFact),
           store.spilled, store.offset + store.len = Len(spillFile)
    PROVE  /\ Written(store, facts) \in Seq(PackedFact)
           /\ Len(Written(store, facts)) = Len(spillFile) + Len(facts)
           /\ \A i \in 1..Len(spillFile) : Written(store, facts)[i] = spillFile[i]
           /\ \A i \in 1..Len(facts) : Written(store, facts)[Len(spillFile) + i] = Pack(facts[i])
<1> DEFINE from == Len(spillFile)
           k == Len(facts)
           new == {from + i : i \in DOMAIN facts}
           file == [i \in DOMAIN spillFile \cup new |-> IF i \in new THEN Pack(facts[i - from]) ELSE spillFile[i]]
<1>1. from \in Nat /\ k \in Nat /\ DOMAIN facts = 1..k /\ DOMAIN spillFile = 1..from
  OBVIOUS
<1>2. Written(store, facts) = file
  BY DEF Written
<1>3. \A i : i \in new <=> i \in (from + 1)..(from + k)
  <2>1. ASSUME NEW i \in (from + 1)..(from + k) PROVE i \in new
    <3>1. i - from \in 1..k /\ i = from + (i - from)
      BY <1>1
    <3>2. QED
      BY <1>1, <3>1
  <2>2. ASSUME NEW i \in new PROVE i \in (from + 1)..(from + k)
    <3>1. PICK j \in 1..k : i = from + j
      BY <1>1
    <3>2. QED
      BY <1>1, <3>1
  <2>3. QED
    BY <2>1, <2>2
<1> HIDE DEF new
<1>4. DOMAIN spillFile \cup new = 1..(from + k)
  BY <1>1, <1>3
<1>5. \A i \in 1..k : file[from + i] = Pack(facts[i])
  <2> SUFFICES ASSUME NEW i \in 1..k PROVE file[from + i] = Pack(facts[i])
    OBVIOUS
  <2>1. from + i \in 1..(from + k) /\ from + i \in (from + 1)..(from + k) /\ from + i - from = i
    BY <1>1
  <2>2. QED
    BY <1>3, <1>4, <2>1
<1>6. \A i \in 1..from : file[i] = spillFile[i]
  BY <1>1, <1>3, <1>4
<1>7. file = [i \in 1..(from + k) |-> file[i]]
  BY <1>4
<1> HIDE DEF file
<1>8. \A i \in 1..(from + k) : file[i] \in PackedFact
  <2> SUFFICES ASSUME NEW i \in 1..(from + k) PROVE file[i] \in PackedFact
    OBVIOUS
  <2>1. CASE i \in 1..from
    <3>1. spillFile[i] \in PackedFact
      BY <2>1
    <3>2. QED
      BY <1>6, <2>1, <3>1
  <2>2. CASE i \notin 1..from
    <3>1. i - from \in 1..k /\ i = from + (i - from)
      BY <1>1, <2>2
    <3>2. file[i] = Pack(facts[i - from]) /\ facts[i - from] \in PageFact
      BY <1>5, <3>1
    <3>3. QED
      BY <3>2, PackedReadsBack
  <2>3. QED
    BY <2>1, <2>2
<1>9. file \in [1..(from + k) -> PackedFact]
  BY <1>8, <1>7
<1>10. file \in Seq(PackedFact) /\ Len(file) = from + k
  BY <1>1, <1>9
<1>11. QED
  BY <1>2, <1>5, <1>6, <1>10

\* The end of a wave whose results were taken as `a`.
EndsWave(a) ==
    /\ fastScan.stage = "envelopes" /\ wave # NoWave /\ TakenSound(a, Len(wave.pages))
    /\ fastScan' = [fastScan EXCEPT !.stop = a.stop, !.resident = a.resident, !.notes = a.notes,
                      !.evaluated = a.evaluated,
                      !.spilled = IF volumes[fastScan.volume].facts.spilled THEN @ + Len(a.facts) ELSE @,
                      !.stage = IF a.stop = "none" THEN "envelopes" ELSE "reconciliation"]
    /\ volumes' = [volumes EXCEPT ![fastScan.volume].facts = Kept(@, a.facts)]
    /\ spillFile' = Written(volumes[fastScan.volume].facts, a.facts)
    /\ scanned' = [scanned EXCEPT ![fastScan.volume] = @ \o a.facts]
    /\ wave' = NoWave
    /\ UNCHANGED cancelled

\* What is known of a wave that ends, by name: `u` is the volume under way.
LEMMA WaveEnding ==
    ASSUME ScanInv, NEW a, EndsWave(a), NEW u, u = fastScan.volume
    PROVE  /\ HoldingFacts /\ fastScan \in ScanRecord /\ volumes \in Seq(VolumeRecord)
           /\ Len(volumes) = Len(Headers) /\ u \in 1..Len(Headers) /\ Len(Headers) \in Nat
           /\ volumes[u] \in VolumeRecord /\ volumes[u].facts \in FactStore
           /\ Holds(u) /\ volumes[u].facts.spilled = fastScan.spilling
           /\ LastStoreIsLast /\ scanned[u] \in Seq(PageFact)
           /\ a.stop \in Stops /\ a.resident \in Nat /\ a.notes \in Nat /\ a.evaluated \in Nat
           /\ a.facts \in Seq(PageFact) /\ Len(a.facts) <= Len(wave.pages)
           /\ spillFile \in Seq(PackedFact) /\ Len(spillFile) = fastScan.spilled
           /\ BaseFacts <= fastScan.policy.memory
<1>1. fastScan.stage = "envelopes" /\ wave # NoWave /\ TakenSound(a, Len(wave.pages))
  BY DEF EndsWave
<1>2. HoldingFacts /\ fastScan \in ScanRecord /\ volumes \in Seq(VolumeRecord)
      /\ spillFile \in Seq(PackedFact)
  BY <1>1 DEF HoldingFacts, ScanInv, ScanTypes
<1>3. Len(volumes) = Len(Headers) /\ u \in 1..Len(Headers) /\ Len(Headers) \in Nat
      /\ LastStoreIsLast
  BY <1>2, ScanAssumption DEF ScanInv, VolumesInTurn
<1>4. volumes[u] \in VolumeRecord /\ volumes[u].facts \in FactStore
  <2>1. volumes[u] \in VolumeRecord
    BY <1>2, <1>3
  <2>2. QED
    BY <2>1 DEF VolumeRecord
<1>5. u <= u
  BY <1>3
<1>6. Holds(u)
  BY <1>2, <1>3, <1>5 DEF ScanInv, VolumesInTurn
<1>7. volumes[u].facts.spilled = fastScan.spilling
  BY <1>6 DEF Holds
<1>8. scanned[u] \in Seq(PageFact)
  BY <1>3 DEF ScanInv, ScanTypes
<1>9. a.stop \in Stops /\ a.resident \in Nat /\ a.notes \in Nat /\ a.evaluated \in Nat
      /\ a.facts \in Seq(PageFact) /\ Len(a.facts) <= Len(wave.pages)
  BY <1>1 DEF TakenSound
<1>10. BaseFacts <= fastScan.policy.memory
  <2>1. ~(BaseFacts > fastScan.policy.memory)
    BY <1>1, <1>2 DEF ScanInv, Budgets
  <2>2. QED
    BY <1>2, <2>1, ScanAssumption DEF ScanRecord
<1>11. Len(spillFile) = fastScan.spilled
  BY <1>2 DEF ScanInv, Budgets
<1>12. QED
  BY <1>2, <1>3, <1>4, <1>6, <1>7, <1>8, <1>9, <1>10, <1>11

LEMMA WaveEndsScan ==
    ASSUME ScanInv, NEW a, EndsWave(a), NEW u, u = fastScan.volume
    PROVE  /\ fastScan' \in ScanRecord /\ fastScan'.volume = u /\ fastScan'.next = fastScan.next
           /\ fastScan'.policy = fastScan.policy /\ fastScan'.spilling = fastScan.spilling
           /\ fastScan'.stop = a.stop /\ fastScan'.resident = a.resident /\ fastScan'.evaluated = a.evaluated
           /\ fastScan'.spilled = fastScan.spilled + (IF fastScan.spilling THEN Len(a.facts) ELSE 0)
           /\ fastScan'.stage = IF a.stop = "none" THEN "envelopes" ELSE "reconciliation"
<1> DEFINE spilled == IF fastScan.spilling THEN fastScan.spilled + Len(a.facts) ELSE fastScan.spilled
           stage == IF a.stop = "none" THEN "envelopes" ELSE "reconciliation"
<1>1. /\ fastScan \in ScanRecord /\ volumes[u].facts.spilled = fastScan.spilling
      /\ a.stop \in Stops /\ a.resident \in Nat /\ a.notes \in Nat /\ a.evaluated \in Nat
      /\ Len(a.facts) \in Nat
  BY WaveEnding
<1>2. fastScan' = [fastScan EXCEPT !.stop = a.stop, !.resident = a.resident, !.notes = a.notes,
                     !.evaluated = a.evaluated, !.spilled = spilled, !.stage = stage]
  BY <1>1 DEF EndsWave
<1>3. spilled \in Nat /\ spilled = fastScan.spilled + (IF fastScan.spilling THEN Len(a.facts) ELSE 0)
  BY <1>1 DEF ScanRecord
<1>4. stage \in {"envelopes", "reconciliation"}
  OBVIOUS
<1> HIDE DEF spilled, stage
<1>5. /\ fastScan' \in ScanRecord /\ fastScan'.spilled = spilled /\ fastScan'.stage = stage
      /\ fastScan'.volume = fastScan.volume /\ fastScan'.next = fastScan.next
      /\ fastScan'.policy = fastScan.policy /\ fastScan'.spilling = fastScan.spilling
      /\ fastScan'.stop = a.stop /\ fastScan'.resident = a.resident /\ fastScan'.evaluated = a.evaluated
  BY <1>1, <1>2, <1>3, <1>4 DEF ScanRecord
<1>6. QED
  BY <1>3, <1>5 DEF stage

LEMMA WaveEndsVolumes ==
    ASSUME ScanInv, NEW a, EndsWave(a), NEW u, u = fastScan.volume
    PROVE  /\ volumes' \in Seq(VolumeRecord) /\ Len(volumes') = Len(volumes)
           /\ volumes'[u].facts = Kept(volumes[u].facts, a.facts)
           /\ volumes'[u].total = volumes[u].total /\ volumes'[u].length = volumes[u].length
           /\ Eligible(volumes'[u]) = Eligible(volumes[u])
           /\ \A v \in 1..Len(volumes) : v # u => volumes'[v] = volumes[v]
<1> DEFINE store == Kept(volumes[u].facts, a.facts)
           kept == [volumes[u] EXCEPT !.facts = store]
<1>1. /\ volumes \in Seq(VolumeRecord) /\ u \in 1..Len(volumes) /\ volumes[u] \in VolumeRecord
      /\ volumes[u].facts \in FactStore /\ a.facts \in Seq(PageFact)
  BY WaveEnding
<1>2. store \in FactStore
  BY <1>1, KeptStore
<1>3. volumes' = [volumes EXCEPT ![u] = kept]
  BY DEF EndsWave
<1> HIDE DEF store
<1>4. /\ kept \in VolumeRecord /\ kept.facts = store /\ kept.total = volumes[u].total
      /\ kept.length = volumes[u].length /\ SameGeometry(volumes[u], kept) /\ volumes[u].total \in Nat
  BY <1>1, <1>2 DEF VolumeRecord, SameGeometry
<1>5. Eligible(kept) = Eligible(volumes[u])
  <2> HIDE DEF kept
  <2>1. QED
    BY <1>4, EligibleIsOfTheGeometry
<1> HIDE DEF kept
<1>6. /\ volumes' \in Seq(VolumeRecord) /\ Len(volumes') = Len(volumes) /\ volumes'[u] = kept
      /\ \A v \in 1..Len(volumes) : v # u => volumes'[v] = volumes[v]
  BY <1>1, <1>3, <1>4
<1>7. QED
  BY <1>4, <1>5, <1>6 DEF store

LEMMA WaveEndsScanned ==
    ASSUME ScanInv, NEW a, EndsWave(a), NEW u, u = fastScan.volume
    PROVE  /\ scanned' \in [1..Len(Headers) -> Seq(PageFact)]
           /\ \A v \in 1..Len(Headers) : v # u => scanned'[v] = scanned[v]
           /\ Len(scanned'[u]) = Len(scanned[u]) + Len(a.facts)
           /\ \A i \in 1..Len(scanned[u]) : scanned'[u][i] = scanned[u][i]
           /\ \A i \in 1..Len(a.facts) : scanned'[u][Len(scanned[u]) + i] = a.facts[i]
           /\ Total([v \in DOMAIN scanned' |-> Len(scanned'[v])])
                = Total([v \in DOMAIN scanned |-> Len(scanned[v])]) + Len(a.facts)
<1>1. PICK old \in Seq(PageFact), new \in Seq(PageFact) : old = scanned[u] /\ new = a.facts
  BY WaveEnding
<1>2. /\ old \o new \in Seq(PageFact) /\ Len(old \o new) = Len(old) + Len(new)
      /\ \A i \in 1..Len(old) : (old \o new)[i] = old[i]
      /\ \A i \in 1..Len(new) : (old \o new)[Len(old) + i] = new[i]
  <2>1. old \in Seq(PageFact) /\ new \in Seq(PageFact)
    BY <1>1
  <2>2. QED
    BY <2>1, ConcatBehind
<1>3. PICK all : all = old \o new
  OBVIOUS
<1>4. scanned' = [scanned EXCEPT ![u] = all]
  BY <1>1, <1>3 DEF EndsWave
<1>5. scanned \in [1..Len(Headers) -> Seq(PageFact)] /\ u \in 1..Len(Headers) /\ Len(Headers) \in Nat
  BY WaveEnding DEF ScanInv, ScanTypes
<1>6. /\ scanned' \in [1..Len(Headers) -> Seq(PageFact)] /\ scanned'[u] = all
      /\ \A v \in 1..Len(Headers) : v # u => scanned'[v] = scanned[v]
  BY <1>2, <1>3, <1>4, <1>5
<1> DEFINE counts == [v \in 1..Len(Headers) |-> Len(scanned[v])]
           grown == [v \in 1..Len(Headers) |-> Len(scanned'[v])]
<1>7. Len(new) \in Nat /\ Len(old) \in Nat /\ Len(all) = Len(old) + Len(new)
  BY <1>1, <1>2, <1>3
<1>8. counts \in Seq(Nat) /\ Len(counts) = Len(Headers)
  <2>1. \A v \in 1..Len(Headers) : Len(scanned[v]) \in Nat
    BY <1>5
  <2>2. counts \in [1..Len(Headers) -> Nat]
    BY <2>1
  <2> HIDE DEF counts
  <2>3. QED
    BY <1>5, <2>2
<1>9. grown = [counts EXCEPT ![u] = @ + Len(new)]
  <2>1. \A v \in 1..Len(Headers) : grown[v] = IF v = u THEN counts[v] + Len(new) ELSE counts[v]
    BY <1>1, <1>3, <1>6, <1>7
  <2>2. DOMAIN grown = 1..Len(Headers) /\ DOMAIN counts = 1..Len(Headers)
    OBVIOUS
  <2>3. grown = [v \in 1..Len(Headers) |-> grown[v]]
    OBVIOUS
  <2> HIDE DEF grown, counts
  <2>4. QED
    BY <2>1, <2>2, <2>3
<1>10. Total(grown) = Total(counts) + Len(new)
  <2> HIDE DEF grown, counts
  <2>1. u \in 1..Len(counts)
    BY <1>5, <1>8
  <2>2. QED
    BY <1>7, <1>8, <1>9, <2>1, TotalGrows
<1>11. DOMAIN scanned = 1..Len(Headers) /\ DOMAIN scanned' = 1..Len(Headers)
  BY <1>5, <1>6
<1>12. Total([v \in DOMAIN scanned' |-> Len(scanned'[v])])
         = Total([v \in DOMAIN scanned |-> Len(scanned[v])]) + Len(a.facts)
  BY <1>1, <1>10, <1>11
<1>13. /\ \A i \in 1..Len(old) : scanned'[u][i] = old[i]
       /\ \A i \in 1..Len(new) : scanned'[u][Len(old) + i] = new[i]
  BY <1>2, <1>3, <1>6
<1>14. QED
  BY <1>1, <1>6, <1>7, <1>12, <1>13

\* The spill file grows by the facts of a wave, behind all there is in it.
LEMMA WaveEndsFile ==
    ASSUME ScanInv, NEW a, EndsWave(a), NEW u, u = fastScan.volume
    PROVE  /\ spillFile' \in Seq(PackedFact) /\ Len(spillFile') = fastScan'.spilled
           /\ ~fastScan.spilling => spillFile' = spillFile
           /\ \A i \in 1..Len(spillFile) : spillFile'[i] = spillFile[i]
           /\ fastScan.spilling =>
                \A i \in 1..Len(a.facts) : spillFile'[fastScan.spilled + i] = Pack(a.facts[i])
<1>1. PICK store, facts : store = volumes[u].facts /\ facts = a.facts
  OBVIOUS
<1>2. /\ store \in FactStore /\ store.spilled = fastScan.spilling /\ facts \in Seq(PageFact)
      /\ spillFile \in Seq(PackedFact) /\ Len(spillFile) = fastScan.spilled
      /\ LastStoreIsLast /\ fastScan \in ScanRecord
  BY <1>1, WaveEnding
<1>3. spillFile' = Written(store, facts)
  BY <1>1 DEF EndsWave
<1>4. fastScan'.spilled = fastScan.spilled + (IF fastScan.spilling THEN Len(facts) ELSE 0)
  BY <1>1, WaveEndsScan
<1>5. CASE ~fastScan.spilling
  <2>1. spillFile' = spillFile
    BY <1>2, <1>3, <1>5 DEF Written
  <2>2. fastScan'.spilled = fastScan.spilled
    BY <1>2, <1>4, <1>5 DEF ScanRecord
  <2>3. QED
    BY <1>2, <1>5, <2>1, <2>2
<1>6. CASE fastScan.spilling
  <2>1. store.spilled /\ store.offset + store.len = Len(spillFile)
    BY <1>1, <1>2, <1>6 DEF LastStoreIsLast
  <2>2. /\ Written(store, facts) \in Seq(PackedFact)
        /\ Len(Written(store, facts)) = Len(spillFile) + Len(facts)
        /\ \A i \in 1..Len(spillFile) : Written(store, facts)[i] = spillFile[i]
        /\ \A i \in 1..Len(facts) : Written(store, facts)[Len(spillFile) + i] = Pack(facts[i])
    BY <1>2, <2>1, WrittenFile
  <2>3. QED
    BY <1>1, <1>2, <1>3, <1>4, <1>6, <2>2
<1>7. QED
  BY <1>5, <1>6

\* The store of the volume under way has the facts it had and those of the wave.
LEMMA WaveEndsHolding ==
    ASSUME ScanInv, NEW a, EndsWave(a), NEW u, u = fastScan.volume
    PROVE  Holds(u)' /\ LastStoreIsLast'
<1>1. PICK store, new, facts, pages, k, read :
         /\ store = volumes[u].facts /\ new = Kept(store, a.facts)
         /\ facts = a.facts /\ pages = Eligible(volumes[u])
         /\ k = Len(facts) /\ read = Len(scanned[u])
  OBVIOUS
<1>2. /\ store \in FactStore /\ facts \in Seq(PageFact) /\ k \in Nat /\ read \in Nat
      /\ store.spilled = fastScan.spilling /\ k <= Len(wave.pages)
      /\ Len(spillFile) = fastScan.spilled /\ LastStoreIsLast /\ fastScan \in ScanRecord
  BY <1>1, WaveEnding
<1>3. /\ store.len = read /\ read <= Len(pages)
      /\ \A i \in 1..read : scanned[u][i].page = pages[i]
      /\ ~store.spilled => /\ Len(store.memory) = read
                           /\ \A i \in 1..read : store.memory[i] = Pack(scanned[u][i])
      /\ store.spilled => \A i \in 1..read : spillFile[store.offset + i] = Pack(scanned[u][i])
  BY <1>1, WaveEnding DEF Holds
<1>4. /\ new.spilled = store.spilled /\ new.offset = store.offset /\ new.len = read + k
      /\ ~store.spilled => /\ Len(new.memory) = read + k
                           /\ \A i \in 1..read : new.memory[i] = store.memory[i]
                           /\ \A i \in 1..k : new.memory[read + i] = Pack(facts[i])
  <2>1. store \in FactStore /\ facts \in Seq(PageFact) /\ new = Kept(store, facts)
    BY <1>1, <1>2
  <2>2. /\ new.spilled = store.spilled /\ new.offset = store.offset
        /\ new.len = store.len + Len(facts)
        /\ ~store.spilled =>
             /\ Len(new.memory) = Len(store.memory) + Len(facts)
             /\ \A i \in 1..Len(store.memory) : new.memory[i] = store.memory[i]
             /\ \A i \in 1..Len(facts) : new.memory[Len(store.memory) + i] = Pack(facts[i])
    BY <2>1, KeptStore
  <2>3. QED
    BY <1>1, <1>3, <2>2
<1>5. volumes'[u].facts = new /\ Eligible(volumes'[u]) = pages
  BY <1>1, WaveEndsVolumes
<1>6. /\ Len(scanned'[u]) = read + k
      /\ \A i \in 1..read : scanned'[u][i] = scanned[u][i]
      /\ \A i \in 1..k : scanned'[u][read + i] = facts[i]
  <2>1. /\ Len(scanned'[u]) = Len(scanned[u]) + Len(a.facts)
        /\ \A i \in 1..Len(scanned[u]) : scanned'[u][i] = scanned[u][i]
        /\ \A i \in 1..Len(a.facts) : scanned'[u][Len(scanned[u]) + i] = a.facts[i]
    BY WaveEndsScanned
  <2>2. QED
    BY <1>1, <2>1
<1>7. /\ fastScan'.spilling = fastScan.spilling /\ fastScan'.volume = u
      /\ fastScan'.spilled = fastScan.spilled + (IF fastScan.spilling THEN k ELSE 0)
  BY <1>1, WaveEndsScan
<1>8. Len(pages) \in Nat /\ read + k <= Len(pages) /\ \A i \in 1..k : facts[i].page = pages[read + i]
  <2>1. fastScan.stage = "envelopes" /\ TakenSound(a, Len(wave.pages))
    BY DEF EndsWave
  <2>2. /\ fastScan.next = read + Len(wave.pages) + 1 /\ fastScan.next <= Len(pages) + 1
        /\ \A i \in 1..Len(wave.pages) : wave.pages[i] = pages[read + i]
    BY <1>1, <2>1 DEF ScanInv, WaveInTurn, HoldingFacts
  <2>3. \A i \in 1..k : facts[i].page = wave.pages[i]
    BY <1>1, <2>1 DEF TakenSound
  <2>4. Len(wave.pages) \in Nat /\ Len(pages) \in Nat
    <3>1. wave.pages \in Seq(Nat)
      BY DEF ScanInv, ScanTypes
    <3>2. u \in 1..Len(volumes)
      BY WaveEnding
    <3>3. QED
      BY <1>1, <3>1, <3>2, VolumesHavePages
  <2>5. read + k <= Len(pages) /\ \A i \in 1..k : i \in 1..Len(wave.pages)
    BY <1>2, <2>2, <2>4
  <2>6. QED
    BY <2>2, <2>3, <2>4, <2>5
<1>9. \A i \in 1..(read + k) : i \in 1..read \/ (i - read \in 1..k /\ i = read + (i - read))
  BY <1>2
<1>10. \A i \in 1..(read + k) : scanned'[u][i].page = pages[i]
  <2> SUFFICES ASSUME NEW i \in 1..(read + k) PROVE scanned'[u][i].page = pages[i]
    OBVIOUS
  <2>1. CASE i \in 1..read
    BY <1>3, <1>6, <2>1
  <2>2. ASSUME NEW j \in 1..k, i = read + j PROVE scanned'[u][i].page = pages[i]
    BY <1>6, <1>8, <2>2
  <2>3. QED
    BY <1>9, <2>1, <2>2
<1>11. ASSUME ~store.spilled, NEW i \in 1..(read + k) PROVE new.memory[i] = Pack(scanned'[u][i])
  <2>1. CASE i \in 1..read
    BY <1>3, <1>4, <1>6, <1>11, <2>1
  <2>2. ASSUME NEW j \in 1..k, i = read + j PROVE new.memory[i] = Pack(scanned'[u][i])
    BY <1>4, <1>6, <1>11, <2>2
  <2>3. QED
    BY <1>9, <2>1, <2>2
<1>12. ASSUME store.spilled PROVE store.offset \in Nat /\ store.offset + read = fastScan.spilled
  BY <1>1, <1>2, <1>3, <1>12 DEF LastStoreIsLast, FactStore
<1>13. ASSUME store.spilled, NEW i \in 1..(read + k)
       PROVE  spillFile'[store.offset + i] = Pack(scanned'[u][i])
  <2>1. CASE i \in 1..read
    <3>1. store.offset + i \in 1..Len(spillFile)
      BY <1>2, <1>12, <1>13, <2>1
    <3>2. spillFile'[store.offset + i] = spillFile[store.offset + i]
      BY <3>1, WaveEndsFile
    <3>3. QED
      BY <1>3, <1>6, <1>13, <2>1, <3>2
  <2>2. ASSUME NEW j \in 1..k, i = read + j PROVE spillFile'[store.offset + i] = Pack(scanned'[u][i])
    <3>1. store.offset + i = fastScan.spilled + j
      BY <1>2, <1>12, <1>13, <2>2
    <3>2. spillFile'[fastScan.spilled + j] = Pack(facts[j])
      BY <1>1, <1>2, <1>13, WaveEndsFile
    <3>3. QED
      BY <1>6, <2>2, <3>1, <3>2
  <2>3. QED
    BY <1>9, <2>1, <2>2
<1>14. store.spilled => store.offset + (read + k) = fastScan'.spilled
  BY <1>2, <1>7, <1>12
<1>15. Holds(u)'
  <2>1. store.spilled => store.offset + (read + k) <= fastScan'.spilled
    <3>1. fastScan'.spilled \in Nat
      BY WaveEndsScan DEF ScanRecord
    <3>2. QED
      BY <1>14, <3>1
  <2>2. QED
    BY <1>2, <1>4, <1>5, <1>6, <1>7, <1>8, <1>10, <1>11, <1>13, <2>1 DEF Holds
<1>16. LastStoreIsLast'
  BY <1>4, <1>5, <1>7, <1>14 DEF LastStoreIsLast
<1>17. QED
  BY <1>15, <1>16

\* The volumes before it keep theirs, for the file only grows.
LEMMA WaveEndsElsewhere ==
    ASSUME ScanInv, NEW a, EndsWave(a), NEW v \in 1..Len(Headers), v < fastScan.volume
    PROVE  Holds(v)'
<1>1. PICK u, store : u = fastScan.volume /\ store = volumes[v].facts
  OBVIOUS
<1>2. /\ HoldingFacts /\ volumes \in Seq(VolumeRecord) /\ Len(volumes) = Len(Headers)
      /\ fastScan \in ScanRecord /\ Len(spillFile) = fastScan.spilled /\ u \in 1..Len(Headers)
      /\ Len(a.facts) \in Nat /\ Len(Headers) \in Nat
  <2>1. a.facts \in Seq(PageFact)
    BY <1>1, WaveEnding
  <2>2. QED
    BY <1>1, <2>1, WaveEnding
<1>3. v # u /\ v <= u
  BY <1>1, <1>2
<1>4. volumes'[v] = volumes[v] /\ scanned'[v] = scanned[v]
  <2>1. /\ \A w \in 1..Len(volumes) : w # u => volumes'[w] = volumes[w]
        /\ \A w \in 1..Len(Headers) : w # u => scanned'[w] = scanned[w]
    <3>1. u = fastScan.volume
      BY <1>1
    <3>2. \A w \in 1..Len(volumes) : w # u => volumes'[w] = volumes[w]
      BY <3>1, WaveEndsVolumes
    <3>3. \A w \in 1..Len(Headers) : w # u => scanned'[w] = scanned[w]
      BY <3>1, WaveEndsScanned
    <3>4. QED
      BY <3>2, <3>3
  <2>2. QED
    BY <1>2, <1>3, <2>1
<1>5. Holds(v)
  BY <1>1, <1>2, <1>3 DEF ScanInv, VolumesInTurn
<1>6. /\ fastScan'.spilling = fastScan.spilling /\ fastScan'.spilled \in Nat
      /\ fastScan.spilled \in Nat /\ fastScan.spilled <= fastScan'.spilled
  <2>1. /\ fastScan'.spilling = fastScan.spilling
        /\ fastScan'.spilled = fastScan.spilled + (IF fastScan.spilling THEN Len(a.facts) ELSE 0)
    BY <1>1, WaveEndsScan
  <2>2. QED
    BY <1>2, <2>1 DEF ScanRecord
<1>7. store.offset \in Nat /\ Len(scanned[v]) \in Nat
  <2>1. volumes[v] \in VolumeRecord
    BY <1>2
  <2>2. scanned[v] \in Seq(PageFact)
    BY <1>2 DEF ScanInv, ScanTypes
  <2>3. QED
    BY <1>1, <2>1, <2>2 DEF VolumeRecord, FactStore
<1>8. /\ store.spilled = fastScan.spilling /\ store.len = Len(scanned[v])
      /\ store.spilled => /\ store.offset + store.len <= fastScan.spilled
                          /\ \A i \in 1..Len(scanned[v]) : spillFile[store.offset + i] = Pack(scanned[v][i])
  BY <1>1, <1>5 DEF Holds
<1>9. ASSUME store.spilled, NEW i \in 1..Len(scanned[v])
      PROVE  spillFile'[store.offset + i] = Pack(scanned[v][i])
  <2>1. store.offset + i \in 1..Len(spillFile)
    BY <1>2, <1>6, <1>7, <1>8, <1>9
  <2>2. spillFile'[store.offset + i] = spillFile[store.offset + i]
    BY <1>1, <2>1, WaveEndsFile
  <2>3. QED
    BY <1>8, <1>9, <2>2
<1>10. store.spilled => store.offset + store.len <= fastScan'.spilled
  BY <1>6, <1>7, <1>8
<1>11. QED
  BY <1>1, <1>4, <1>5, <1>6, <1>9, <1>10 DEF Holds

LEMMA WaveEndKeeps ==
    ASSUME ScanInv, NEW a, EndsWave(a)
    PROVE  ScanInv'
<1>1. PICK u, k : u = fastScan.volume /\ k = Len(a.facts)
  OBVIOUS
<1>2. /\ HoldingFacts /\ fastScan \in ScanRecord /\ Len(volumes) = Len(Headers) /\ u \in 1..Len(Headers)
      /\ Len(Headers) \in Nat /\ a.stop \in Stops /\ k \in Nat /\ k <= Len(wave.pages)
      /\ Len(spillFile) = fastScan.spilled /\ BaseFacts <= fastScan.policy.memory
  <2>1. a.facts \in Seq(PageFact)
    BY <1>1, WaveEnding
  <2>2. QED
    BY <1>1, <2>1, WaveEnding
<1>3. /\ fastScan' \in ScanRecord /\ fastScan'.volume = u /\ fastScan'.next = fastScan.next
      /\ fastScan'.policy = fastScan.policy /\ fastScan'.spilling = fastScan.spilling
      /\ fastScan'.stop = a.stop /\ fastScan'.resident = a.resident /\ fastScan'.evaluated = a.evaluated
      /\ fastScan'.spilled = fastScan.spilled + (IF fastScan.spilling THEN k ELSE 0)
      /\ fastScan'.stage = IF a.stop = "none" THEN "envelopes" ELSE "reconciliation"
  BY <1>1, WaveEndsScan
<1>4. /\ volumes' \in Seq(VolumeRecord) /\ Len(volumes') = Len(volumes)
      /\ volumes'[u].total = volumes[u].total /\ volumes'[u].length = volumes[u].length
      /\ Eligible(volumes'[u]) = Eligible(volumes[u])
      /\ \A v \in 1..Len(volumes) : v # u => volumes'[v] = volumes[v]
  BY <1>1, WaveEndsVolumes
<1>5. /\ scanned' \in [1..Len(Headers) -> Seq(PageFact)]
      /\ \A v \in 1..Len(Headers) : v # u => scanned'[v] = scanned[v]
      /\ Len(scanned'[u]) = Len(scanned[u]) + k
      /\ Total([v \in DOMAIN scanned' |-> Len(scanned'[v])])
           = Total([v \in DOMAIN scanned |-> Len(scanned[v])]) + k
  <2>1. u = fastScan.volume /\ k = Len(a.facts)
    BY <1>1
  <2>2. QED
    BY <2>1, WaveEndsScanned
<1>6. /\ fastScan.stage = "envelopes" /\ wave' = NoWave /\ cancelled' = cancelled
      /\ TakenSound(a, Len(wave.pages))
  BY DEF EndsWave
<1>7. wave'.pages = <<>> /\ Len(<<>>) = 0 /\ Len(wave'.results) = 0 /\ 1..0 = {}
      /\ wave' \in [pages : Seq(Nat), results : Seq(ReadResult)]
  <2>1. <<>> \in Seq(Nat) /\ <<>> \in Seq(ReadResult) /\ Len(<<>>) = 0 /\ 1..0 = {}
    OBVIOUS
  <2>2. QED
    BY <1>6, <2>1 DEF NoWave
<1>8. ScanTypes'
  <2>1. \A v \in 1..Len(volumes') : volumes'[v].total * PageSpan <= volumes'[v].length
    <3>1. \A v \in 1..Len(volumes) : volumes[v].total * PageSpan <= volumes[v].length
      BY DEF ScanInv, ScanTypes
    <3>2. volumes[u].total * PageSpan <= volumes[u].length
      BY <1>2, <3>1
    <3>3. QED
      BY <1>4, <3>1, <3>2
  <2>2. spillFile' \in Seq(PackedFact)
    BY <1>1, WaveEndsFile
  <2>3. cancelled' \in BOOLEAN
    BY <1>6 DEF ScanInv, ScanTypes
  <2>4. Len(volumes') <= Len(Headers) /\ Len(wave'.results) = Len(wave'.pages)
    BY <1>2, <1>4, <1>7
  <2>5. QED
    BY <1>3, <1>4, <1>5, <1>7, <2>1, <2>2, <2>3, <2>4 DEF ScanTypes
<1>9. fastScan'.stage \in {"envelopes", "reconciliation"}
  BY <1>3
<1>10. NotBegun'
  BY <1>9 DEF NotBegun
<1>11. VolumesInTurn'
  <2>1. Holds(u)' /\ LastStoreIsLast'
    BY <1>1, WaveEndsHolding
  <2>2. \A v \in 1..Len(Headers) : v < u => Holds(v)'
    BY <1>1, WaveEndsElsewhere
  <2>3. ASSUME NEW v \in 1..Len(Headers), v # u
        PROVE  (WholeVolume(v) => WholeVolume(v)') /\ (Unread(v) => Unread(v)')
    <3>1. volumes'[v] = volumes[v] /\ scanned'[v] = scanned[v]
      BY <1>2, <1>4, <1>5, <2>3
    <3>2. QED
      BY <3>1 DEF WholeVolume, Unread
  <2>4. \A v \in 1..Len(Headers) : (v < u => WholeVolume(v)) /\ (v > u => Unread(v))
    BY <1>1, <1>2 DEF ScanInv, VolumesInTurn
  <2>5. \A v \in 1..Len(Headers) : (v <= u => v < u \/ v = u) /\ (v < u => v # u) /\ (v > u => v # u)
    BY <1>2
  <2>6. \A v \in 1..Len(Headers) : /\ v <= fastScan'.volume => Holds(v)'
                                   /\ v < fastScan'.volume => WholeVolume(v)'
                                   /\ v > fastScan'.volume => Unread(v)'
    BY <1>3, <2>1, <2>2, <2>3, <2>4, <2>5
  <2>7. Len(volumes') = Len(Headers) /\ fastScan'.volume \in 1..Len(Headers)
    BY <1>2, <1>3, <1>4
  <2>8. ~(fastScan'.stage # "envelopes" /\ fastScan'.stop = "none")
    BY <1>3
  <2>9. QED
    BY <2>1, <2>6, <2>7, <2>8 DEF VolumesInTurn
<1>12. Budgets'
  <2>1. /\ fastScan.evaluated = Total([v \in DOMAIN scanned |-> Len(scanned[v])])
        /\ fastScan.resident <= fastScan.policy.memory
    <3>1. fastScan.stop = "none" /\ fastScan.resident <= fastScan.policy.memory
      BY <1>2, <1>6 DEF ScanInv, Budgets
    <3>2. fastScan.evaluated = Total([v \in DOMAIN scanned |-> Len(scanned[v])]) + 0
      BY <1>2, <3>1 DEF ScanInv, Budgets
    <3>3. Total([v \in DOMAIN scanned |-> Len(scanned[v])]) \in Nat
      BY CountsOfScanned, TotalIsNat
    <3>4. QED
      BY <3>1, <3>2, <3>3
  <2>2. /\ a.evaluated = fastScan.evaluated + k + (IF a.stop = "unreadable" THEN 1 ELSE 0)
        /\ a.resident <= fastScan.policy.memory
    BY <1>1, <1>6, <2>1 DEF TakenSound
  <2>3. fastScan'.evaluated = Total([v \in DOMAIN scanned' |-> Len(scanned'[v])])
                            + (IF fastScan'.stop = "unreadable" THEN 1 ELSE 0)
    BY <1>3, <1>5, <2>1, <2>2
  <2>4. Len(spillFile') = fastScan'.spilled
    BY <1>1, WaveEndsFile
  <2>5. fastScan'.spilled <= fastScan'.policy.spill
    <3>1. fastScan.spilled \in Nat /\ fastScan.policy.spill \in Nat /\ Len(wave.pages) \in Nat
      BY <1>2 DEF ScanRecord, ScanInv, ScanTypes
    <3>2. fastScan.spilled <= fastScan.policy.spill
      BY <1>2 DEF ScanInv, Budgets
    <3>3. fastScan.spilling => fastScan.spilled + Len(wave.pages) <= fastScan.policy.spill
      BY <1>2, <1>6 DEF ScanInv, WaveInTurn
    <3>4. QED
      BY <1>2, <1>3, <3>1, <3>2, <3>3
  <2>6. ~(BaseFacts > fastScan'.policy.memory)
    BY <1>2, <1>3, ScanAssumption DEF ScanRecord
  <2>7. fastScan'.resident <= fastScan'.policy.memory
    BY <1>3, <2>2
  <2>8. /\ fastScan'.stop \in Stops
        /\ fastScan'.stage = "envelopes" => fastScan'.stop = "none"
        /\ fastScan'.stage # "complete" /\ fastScan'.stage # "partial"
    BY <1>2, <1>3
  <2>9. QED
    BY <2>3, <2>4, <2>5, <2>6, <2>7, <2>8 DEF Budgets
<1>13. WaveInTurn'
  <2>1. /\ fastScan.next = Len(scanned[u]) + Len(wave.pages) + 1
        /\ fastScan.next <= Len(Eligible(volumes[u])) + 1
        /\ fastScan.spilling => fastScan.spilled + Len(wave.pages) <= fastScan.policy.spill
    BY <1>1, <1>2, <1>6 DEF ScanInv, WaveInTurn
  <2>2. Len(wave.pages) \in Nat /\ Len(scanned[u]) \in Nat
    BY <1>2 DEF ScanInv, ScanTypes
  <2>3. ASSUME fastScan'.stage = "envelopes"
        PROVE  /\ fastScan'.next = Len(scanned'[u]) + 0 + 1
               /\ fastScan'.next <= Len(Eligible(volumes'[u])) + 1
               /\ fastScan'.spilling => fastScan'.spilled + 0 <= fastScan'.policy.spill
    <3>1. a.stop = "none"
      BY <1>3, <2>3
    <3>2. k = Len(wave.pages)
      BY <1>1, <1>6, <3>1 DEF TakenSound
    <3>3. fastScan'.next = Len(scanned'[u]) + 0 + 1
      BY <1>3, <1>5, <2>1, <2>2, <3>2
    <3>4. fastScan'.spilling => fastScan'.spilled + 0 <= fastScan'.policy.spill
      BY <1>2, <1>3, <2>1, <2>2, <3>2 DEF ScanRecord
    <3>5. QED
      BY <1>3, <1>4, <2>1, <3>3, <3>4
  <2>4. QED
    BY <1>3, <1>6, <1>7, <2>3 DEF WaveInTurn
<1>14. QED
  BY <1>8, <1>10, <1>11, <1>12, <1>13 DEF ScanInv

LEMMA EndWaveKeeps ==
    ASSUME ScanInv, EndWave
    PROVE  ScanInv'
<1>1. CASE Fail("fact-store")
  BY <1>1, FailKeeps DEF Failures
<1>2. CASE ~Fail("fact-store")
  <2>1. PICK seen \in 1..(Len(wave.results) + 1) :
          LET a == TakeAll(wave.results, seen) store == volumes[fastScan.volume].facts IN
          /\ fastScan' = [fastScan EXCEPT !.stop = a.stop, !.resident = a.resident, !.notes = a.notes,
                        !.evaluated = a.evaluated,
                        !.spilled = IF store.spilled THEN @ + Len(a.facts) ELSE @,
                        !.stage = IF a.stop = "none" THEN "envelopes" ELSE "reconciliation"]
          /\ volumes' = [volumes EXCEPT ![fastScan.volume].facts = Kept(@, a.facts)]
          /\ spillFile' = Written(store, a.facts)
          /\ scanned' = [scanned EXCEPT ![fastScan.volume] = @ \o a.facts]
          /\ wave' = NoWave /\ UNCHANGED cancelled
    BY <1>2 DEF EndWave
  <2>2. fastScan.stage = "envelopes" /\ wave # NoWave
        /\ \A i \in DOMAIN wave.results : wave.results[i].kind # "pending"
    BY DEF EndWave
  <2>3. /\ fastScan \in ScanRecord /\ wave.results \in Seq(ReadResult) /\ wave.pages \in Seq(Nat)
        /\ Len(wave.results) = Len(wave.pages)
    BY DEF ScanInv, ScanTypes
  <2>4. seen \in Nat /\ \A i \in 1..Len(wave.results) : wave.results[i].kind # "pending"
    BY <2>2, <2>3
  <2>5. PICK results : results = wave.results
    OBVIOUS
  <2>6. TakenSound(TakeAll(results, seen), Len(results))
    BY <2>3, <2>4, <2>5, AllTakenIsSound
  <2>7. TakenSound(TakeAll(wave.results, seen), Len(wave.pages))
    BY <2>3, <2>5, <2>6
  <2>8. EndsWave(TakeAll(wave.results, seen))
    BY <2>1, <2>2, <2>7 DEF EndsWave
  <2>9. QED
    BY <2>8, WaveEndKeeps
<1>3. QED
  BY <1>1, <1>2

LEMMA ReconcileKeeps ==
    ASSUME ScanInv, Reconcile
    PROVE  ScanInv'
<1>1. CASE Fail("source")
  BY <1>1, FailKeeps DEF Failures
<1>2. CASE ~Fail("source")
  <2>1. PICK validity \in {"valid", "invalidated", "torn"} :
          /\ fastScan' = [fastScan EXCEPT !.stage = IF fastScan.stop = "none" THEN "complete" ELSE "partial",
                                          !.validity = validity]
          /\ UNCHANGED <<volumes, spillFile, wave, cancelled, scanned>>
    BY <1>2 DEF Reconcile
  <2> DEFINE stage == IF fastScan.stop = "none" THEN "complete" ELSE "partial"
  <2>2. fastScan.stage = "reconciliation" /\ fastScan \in ScanRecord
    BY DEF Reconcile, ScanInv, ScanTypes
  <2>3. stage \in {"complete", "partial"} /\ (stage = "complete" <=> fastScan.stop = "none")
    OBVIOUS
  <2> HIDE DEF stage
  <2>4. fastScan' = [fastScan EXCEPT !.stage = stage, !.validity = validity]
    BY <2>1 DEF stage
  <2>5. /\ fastScan' \in ScanRecord /\ fastScan'.stage = stage
        /\ fastScan'.stop = fastScan.stop /\ fastScan'.volume = fastScan.volume
        /\ fastScan'.spilling = fastScan.spilling /\ fastScan'.spilled = fastScan.spilled
        /\ fastScan'.evaluated = fastScan.evaluated /\ fastScan'.resident = fastScan.resident
        /\ fastScan'.policy = fastScan.policy
    BY <2>2, <2>3, <2>4 DEF ScanRecord
  <2>6. HoldingFacts
    BY <2>2 DEF HoldingFacts
  <2>7. ScanTypes'
    BY <2>1, <2>5 DEF ScanInv, ScanTypes
  <2>8. NotBegun'
    BY <2>3, <2>5 DEF NotBegun
  <2>9. VolumesInTurn'
    <3>1. fastScan.stop = "none" => fastScan.volume = Len(Headers) /\ WholeVolume(fastScan.volume)
      BY <2>2, <2>6 DEF ScanInv, VolumesInTurn
    <3>2. QED
      BY <2>1, <2>5, <2>6, <3>1, TurnKept
  <2>10. Budgets'
    <3>1. Total([v \in DOMAIN scanned' |-> Len(scanned'[v])]) = Total([v \in DOMAIN scanned |-> Len(scanned[v])])
      BY <2>1
    <3>2. QED
      BY <2>1, <2>3, <2>5, <2>6, <3>1 DEF ScanInv, Budgets
  <2>11. WaveInTurn'
    <3>1. wave' = NoWave
      BY <2>1, <2>2, <2>6 DEF ScanInv, WaveInTurn
    <3>2. fastScan'.stage # "envelopes"
      BY <2>3, <2>5
    <3>3. QED
      BY <3>1, <3>2 DEF WaveInTurn
  <2>12. QED
    BY <2>7, <2>8, <2>9, <2>10, <2>11 DEF ScanInv
<1>3. QED
  BY <1>1, <1>2

\* A cancellation moves nothing but itself, and what stutters moves nothing.
LEMMA NothingMovedKeeps ==
    ASSUME ScanInv, UNCHANGED <<fastScan, volumes, spillFile, wave, scanned>>, cancelled' \in BOOLEAN
    PROVE  ScanInv'
<1>1. ScanTypes' /\ NotBegun' /\ Budgets' /\ WaveInTurn'
  BY DEF ScanInv, ScanTypes, NotBegun, Budgets, WaveInTurn, HoldingFacts
<1>2. VolumesInTurn'
  <2>1. CASE HoldingFacts
    <3>1. fastScan'.stage # "envelopes" /\ fastScan'.stop = "none" =>
            fastScan.volume = Len(Headers) /\ WholeVolume(fastScan.volume)
      BY <2>1 DEF ScanInv, VolumesInTurn
    <3>2. QED
      BY <2>1, <3>1, TurnKept
  <2>2. CASE ~HoldingFacts
    BY <2>2 DEF VolumesInTurn, HoldingFacts
  <2>3. QED
    BY <2>1, <2>2
<1>3. QED
  BY <1>1, <1>2 DEF ScanInv

LEMMA ScanStepKeeps == ScanInv /\ [ScanNext]_scanVars => ScanInv'
<1> SUFFICES ASSUME ScanInv, [ScanNext]_scanVars PROVE ScanInv'
  OBVIOUS
<1>1. CASE \E policy \in ScanPolicies, key \in BOOLEAN : OpenSnapshot(policy, key)
  BY <1>1, OpenKeeps
<1>2. CASE ReadGeometry
  BY <1>2, GeometryKeeps
<1>3. CASE BeginEnvelopes
  BY <1>3, BeginKeepsScan
<1>4. CASE StartWave
  BY <1>4, StartWaveKeeps
<1>5. CASE \E worker \in 1..Workers : ReadEnvelope(worker)
  BY <1>5, ReadKeeps
<1>6. CASE EndWave
  BY <1>6, EndWaveKeeps
<1>7. CASE Reconcile
  BY <1>7, ReconcileKeeps
<1>8. CASE CancelScan
  BY <1>8, NothingMovedKeeps DEF CancelScan
<1>9. CASE UNCHANGED scanVars
  <2>1. cancelled' \in BOOLEAN
    BY <1>9 DEF scanVars, ScanInv, ScanTypes
  <2>2. QED
    BY <1>9, <2>1, NothingMovedKeeps DEF scanVars
<1>10. QED
  BY <1>1, <1>2, <1>3, <1>4, <1>5, <1>6, <1>7, <1>8, <1>9 DEF ScanNext

\* Volumes are read one after the other in whole waves, each store has the facts of its volume's
\* first pages, and what was counted fits the policy, at every step of a scan.
THEOREM ScanKeepsItsInvariant == ScanSpec => []ScanInv
<1>1. ScanInit => ScanInv
  BY InitScan
<1>2. ScanInv /\ [ScanNext]_scanVars => ScanInv'
  BY ScanStepKeeps
<1>3. QED
  BY <1>1, <1>2, PTL DEF ScanSpec

LEMMA ScanInvBudget == ScanInv => ScanStaysInBudget
<1> SUFFICES ASSUME ScanInv, HoldingFacts PROVE ScanStaysInBudget
  BY DEF ScanStaysInBudget
<1>1. fastScan \in ScanRecord /\ scanned \in [1..Len(Headers) -> Seq(PageFact)]
      /\ DOMAIN Headers = 1..Len(Headers)
  BY ScanAssumption DEF ScanInv, ScanTypes
<1>2. fastScan.resident <= fastScan.policy.memory \/ scanned = [v \in DOMAIN Headers |-> <<>>]
  <2>1. CASE BaseFacts <= fastScan.policy.memory
    BY <2>1 DEF ScanInv, Budgets
  <2>2. CASE ~(BaseFacts <= fastScan.policy.memory)
    <3>1. BaseFacts > fastScan.policy.memory
      BY <1>1, <2>2, ScanAssumption DEF ScanRecord
    <3>2. \A v \in 1..Len(Headers) : scanned[v] = <<>>
      BY <3>1 DEF ScanInv, Budgets
    <3>3. scanned = [v \in 1..Len(Headers) |-> <<>>]
      BY <1>1, <3>2
    <3>4. QED
      BY <1>1, <3>3
  <2>3. QED
    BY <2>1, <2>2
<1>3. QED
  BY <1>2 DEF ScanInv, Budgets, ScanStaysInBudget

\* The store of a volume is one a search finds the facts in.
LEMMA HoldingStores ==
    ASSUME ScanInv, HoldingFacts, NEW v \in 1..Len(volumes)
    PROVE  Stores(volumes[v], scanned[v])
<1>1. PICK volume, facts, pages, store :
         volume = volumes[v] /\ facts = scanned[v] /\ pages = Eligible(volume) /\ store = volume.facts
  OBVIOUS
<1>2. Len(volumes) = Len(Headers) /\ Len(Headers) \in Nat /\ fastScan.volume \in 1..Len(Headers)
  BY ScanAssumption DEF ScanInv, VolumesInTurn
<1>3. facts \in Seq(PageFact) /\ Len(facts) \in Nat
  <2>1. facts \in Seq(PageFact)
    BY <1>1, <1>2 DEF ScanInv, ScanTypes
  <2>2. QED
    BY <2>1
<1>4. volume \in VolumeRecord /\ volume.total \in Nat
  BY <1>1, VolumesHavePages
<1>5. CASE v <= fastScan.volume
  <2>1. Holds(v)
    BY <1>2, <1>5 DEF ScanInv, VolumesInTurn
  <2>2. /\ store.len = Len(facts) /\ Len(facts) <= Len(pages)
        /\ \A i \in 1..Len(facts) : facts[i].page = pages[i]
        /\ ~store.spilled => \A i \in 1..Len(facts) : store.memory[i] = Pack(facts[i])
        /\ store.spilled => \A i \in 1..Len(facts) : spillFile[store.offset + i] = Pack(facts[i])
    BY <1>1, <2>1 DEF Holds
  <2>3. store.offset \in Nat
    BY <1>1, <1>4 DEF VolumeRecord, FactStore
  <2>4. ASSUME NEW i \in 1..Len(facts) PROVE FactAt(volume, i - 1) = facts[i]
    <3>1. store.offset + (i - 1) + 1 = store.offset + i /\ i - 1 + 1 = i
      BY <1>3, <2>3
    <3>2. FactAt(volume, i - 1) = Unpack(Pack(facts[i]))
      BY <1>1, <2>2, <3>1 DEF FactAt
    <3>3. facts[i] \in PageFact
      BY <1>3
    <3>4. QED
      BY <3>2, <3>3, PackedReadsBack
  <2>5. \A i, j \in 1..Len(facts) : i < j => facts[i].page < facts[j].page
    <3>1. pages \in Seq(Nat) /\ \A i, j \in 1..Len(pages) : i < j => pages[i] < pages[j]
      BY <1>1, <1>4, EligibleAscends DEF Ascending
    <3>2. \A i \in 1..Len(facts) : i \in 1..Len(pages)
      BY <1>3, <2>2, <3>1
    <3>3. QED
      BY <2>2, <3>1, <3>2
  <2>6. QED
    BY <1>1, <1>3, <2>2, <2>4, <2>5 DEF Stores
<1>6. CASE v > fastScan.volume
  <2>1. facts = <<>> /\ store.len = 0 /\ Len(<<>>) = 0 /\ 1..0 = {}
    BY <1>1, <1>2, <1>6 DEF ScanInv, VolumesInTurn, Unread, NoStore
  <2>2. QED
    BY <1>1, <1>3, <2>1 DEF Stores
<1>7. QED
  BY <1>2, <1>5, <1>6

LEMMA ScanInvReadsBack == ScanInv => FactsReadBack
<1> SUFFICES ASSUME ScanInv, HoldingFacts, NEW v \in DOMAIN volumes
             PROVE  LET volume == volumes[v] pages == Eligible(volume) IN
                    /\ volume.facts.len = Len(scanned[v]) /\ Len(scanned[v]) <= Len(pages)
                    /\ \A i \in DOMAIN pages :
                         /\ pages[i] < volume.length
                         /\ PageFactOf(volume, pages[i]) = IF i <= Len(scanned[v]) THEN scanned[v][i] ELSE NoFact
                    /\ v < fastScan.volume \/ fastScan.stage = "complete" => Len(scanned[v]) = Len(pages)
                    /\ v > fastScan.volume => scanned[v] = <<>>
  BY DEF FactsReadBack
<1>1. PICK volume, facts, pages : volume = volumes[v] /\ facts = scanned[v] /\ pages = Eligible(volume)
  OBVIOUS
<1>2. /\ v \in 1..Len(volumes) /\ volumes \in Seq(VolumeRecord)
      /\ Len(volumes) = Len(Headers) /\ Len(Headers) \in Nat /\ fastScan.volume \in 1..Len(Headers)
  BY ScanAssumption DEF ScanInv, ScanTypes, VolumesInTurn
<1>3. Stores(volume, facts)
  BY <1>1, <1>2, HoldingStores
<1>4. facts \in Seq(PageFact) /\ volume.facts.len = Len(facts) /\ Len(facts) \in Nat
  BY <1>3 DEF Stores
<1>5. volume \in VolumeRecord /\ volume.total \in Nat /\ Ascending(pages, volume.total * PageSpan)
  BY <1>1, <1>2, VolumesHavePages, EligibleAscends
<1>6. /\ pages \in Seq(Nat) /\ Len(pages) \in Nat
      /\ \A i, j \in 1..Len(pages) : i < j => pages[i] < pages[j]
      /\ \A i \in 1..Len(pages) : pages[i] < volume.total * PageSpan
  BY <1>5 DEF Ascending
<1>7. volume.total * PageSpan <= volume.length
  BY <1>1, <1>2 DEF ScanInv, ScanTypes
<1>8. ASSUME NEW i \in 1..Len(pages) PROVE pages[i] < volume.length
  <2>1. volume.length \in Nat
    BY <1>5 DEF VolumeRecord
  <2> DEFINE end == volume.total * PageSpan
  <2>2. end \in Nat
    <3>1. \A m, n \in Nat : m * n \in Nat
      OBVIOUS
    <3>2. QED
      BY <1>5, <3>1, ScanAssumption
  <2>3. pages[i] < end /\ end <= volume.length /\ pages[i] \in Nat
    BY <1>6, <1>7
  <2> HIDE DEF end
  <2>4. QED
    BY <2>1, <2>2, <2>3
<1>9. Len(facts) <= Len(pages) /\ \A i \in 1..Len(facts) : facts[i].page = pages[i]
  <2>1. CASE v <= fastScan.volume
    <3>1. Holds(v)
      BY <1>2, <2>1 DEF ScanInv, VolumesInTurn
    <3>2. QED
      BY <1>1, <3>1 DEF Holds
  <2>2. CASE v > fastScan.volume
    <3>1. facts = <<>> /\ Len(<<>>) = 0
      BY <1>1, <1>2, <2>2 DEF ScanInv, VolumesInTurn, Unread
    <3>2. QED
      BY <1>6, <3>1
  <2>3. QED
    BY <1>2, <2>1, <2>2
<1>10. ASSUME NEW i \in 1..Len(pages)
       PROVE  PageFactOf(volume, pages[i]) = IF i <= Len(facts) THEN facts[i] ELSE NoFact
  <2>1. pages[i] \in Nat
    BY <1>6
  <2>2. /\ \A j \in 1..Len(facts) : facts[j].page = pages[i] => PageFactOf(volume, pages[i]) = facts[j]
        /\ (\A j \in 1..Len(facts) : facts[j].page # pages[i]) => PageFactOf(volume, pages[i]) = NoFact
    BY <1>3, <2>1, FactsAreFound
  <2>3. CASE i <= Len(facts)
    <3>1. i \in 1..Len(facts)
      BY <1>4, <2>3
    <3>2. QED
      BY <1>9, <2>2, <2>3, <3>1
  <2>4. CASE ~(i <= Len(facts))
    <3>1. \A j \in 1..Len(facts) : j \in 1..Len(pages) /\ j < i
      BY <1>4, <1>6, <1>9, <2>4
    <3>2. \A j \in 1..Len(facts) : facts[j].page = pages[j] /\ pages[j] < pages[i] /\ pages[j] \in Nat
      BY <1>6, <1>9, <3>1
    <3>3. \A j \in 1..Len(facts) : facts[j].page # pages[i]
      BY <2>1, <3>2
    <3>4. QED
      BY <2>2, <2>4, <3>3
  <2>5. QED
    BY <2>3, <2>4
<1>11. v < fastScan.volume \/ fastScan.stage = "complete" => Len(facts) = Len(pages)
  <2>1. CASE v < fastScan.volume
    BY <1>1, <1>2, <2>1 DEF ScanInv, VolumesInTurn, WholeVolume
  <2>2. CASE fastScan.stage = "complete"
    <3>1. fastScan.stop = "none"
      BY <2>2 DEF ScanInv, Budgets
    <3>2. fastScan.volume = Len(Headers) /\ WholeVolume(fastScan.volume)
      BY <2>2, <3>1 DEF ScanInv, VolumesInTurn
    <3>3. v = fastScan.volume \/ v < fastScan.volume
      BY <1>2, <3>2
    <3>4. QED
      BY <1>1, <2>1, <3>2, <3>3 DEF WholeVolume
  <2>3. QED
    BY <2>1, <2>2
<1>12. v > fastScan.volume => facts = <<>>
  BY <1>1, <1>2 DEF ScanInv, VolumesInTurn, Unread
<1>13. DOMAIN pages = 1..Len(pages)
  BY <1>6
<1>14. QED
  BY <1>1, <1>4, <1>8, <1>9, <1>10, <1>11, <1>12, <1>13

\* Every fact a volume's store is asked for is the one that was read of the page, in memory or in
\* the spill file, found by the search or rightly not found.
THEOREM ScanReadsBack == ScanSpec => []FactsReadBack
<1>1. ScanInv => FactsReadBack
  BY ScanInvReadsBack
<1>2. QED
  BY <1>1, ScanKeepsItsInvariant, PTL

\* A scan counts what it holds and holds no more than its policy admits, in memory and in the
\* spill file, whatever pages could not be read and whenever it was cancelled.
THEOREM ScanKeepsItsBudget == ScanSpec => []ScanStaysInBudget
<1>1. ScanInv => ScanStaysInBudget
  BY ScanInvBudget
<1>2. QED
  BY <1>1, ScanKeepsItsInvariant, PTL

===================================================================================
