-------------------------------- MODULE DiskProofs --------------------------------
(***********************************************************************************)
(* Theorems about what is read of a database: that deep reads stay within their    *)
(* policies and call only whole chains complete (ChainReads), that ownership,      *)
(* headers and claims agree (FileInventory), and that records keep their grounds   *)
(* (RecordReads).                                                                  *)
(***********************************************************************************)
EXTENDS ChainReads, FileInventory, RecordReads, NaturalSets, SequenceTheorems, TLAPS

-----------------------------------------------------------------------------------
(* What a chain carries: the sum over its pages.  The recursive function in Carried *)
(* exists for every sequence of pages, and there is only one of it.                 *)

ChainLink == [page : Nat, link : Nat, length : Nat, index : Nat]

SumOf(pages, n, sum) ==
    sum = [i \in 0 .. n |-> IF i = 0 THEN 0 ELSE sum[i - 1] + pages[i].length]

LEMMA SumsExist ==
    ASSUME NEW pages \in Seq(ChainLink)
    PROVE  \A n \in Nat : \E sum : SumOf(pages, n, sum)
<1> DEFINE S == {n \in Nat : \E sum : SumOf(pages, n, sum)}
<1>1. 0 \in S
  <2> DEFINE zero == [i \in 0 .. 0 |-> 0]
  <2>1. zero = [i \in 0 .. 0 |-> IF i = 0 THEN 0 ELSE zero[i - 1] + pages[i].length]
    OBVIOUS
  <2>2. SumOf(pages, 0, zero)
    BY <2>1 DEF SumOf
  <2>3. QED
    BY <2>2
<1>2. ASSUME NEW n \in S PROVE n + 1 \in S
  <2>1. PICK sum : SumOf(pages, n, sum)
    OBVIOUS
  <2> DEFINE more == [i \in 0 .. n + 1 |-> IF i <= n THEN sum[i] ELSE sum[n] + pages[n + 1].length]
  <2>2. \A i \in 0 .. n : sum[i] = IF i = 0 THEN 0 ELSE sum[i - 1] + pages[i].length
    BY <2>1 DEF SumOf
  <2>3. ASSUME NEW i \in 0 .. n + 1
        PROVE more[i] = IF i = 0 THEN 0 ELSE more[i - 1] + pages[i].length
    <3>1. CASE i <= n
      BY <2>2, <3>1
    <3>2. CASE i = n + 1
      BY <3>2
    <3>3. QED
      BY <3>1, <3>2
  <2> HIDE DEF more
  <2>4. more = [i \in 0 .. n + 1 |-> more[i]]
    BY DEF more
  <2>5. SumOf(pages, n + 1, more)
    BY <2>3, <2>4 DEF SumOf
  <2>6. QED
    BY <2>5
<1>3. S = Nat
  <2> HIDE DEF S
  <2>1. S \in SUBSET Nat
    BY DEF S
  <2>2. QED
    BY <1>1, <1>2, <2>1, CountingUp
<1>4. QED
  BY <1>3

LEMMA SumsAgree ==
    ASSUME NEW pages, NEW longer, NEW n \in Nat, NEW m \in Nat, n <= m,
           NEW sum, SumOf(pages, n, sum), NEW more, SumOf(longer, m, more),
           \A i \in 1 .. n : pages[i].length = longer[i].length
    PROVE  sum[n] = more[n]
<1> DEFINE S == {i \in Nat : i <= n => sum[i] = more[i]}
<1>1. \A i \in 0 .. n : sum[i] = IF i = 0 THEN 0 ELSE sum[i - 1] + pages[i].length
  BY DEF SumOf
<1>2. \A i \in 0 .. n : more[i] = IF i = 0 THEN 0 ELSE more[i - 1] + longer[i].length
  BY DEF SumOf
<1>3. 0 \in S
  BY <1>1, <1>2
<1>4. ASSUME NEW i \in S PROVE i + 1 \in S
  <2> SUFFICES ASSUME i + 1 <= n PROVE sum[i + 1] = more[i + 1]
    OBVIOUS
  <2>1. sum[i] = more[i]
    OBVIOUS
  <2>2. sum[i + 1] = sum[i] + pages[i + 1].length
    BY <1>1
  <2>3. more[i + 1] = more[i] + longer[i + 1].length
    BY <1>2
  <2>4. pages[i + 1].length = longer[i + 1].length
    OBVIOUS
  <2>5. QED
    BY <2>1, <2>2, <2>3, <2>4
<1>5. S = Nat
  <2> HIDE DEF S
  <2>1. S \in SUBSET Nat
    BY DEF S
  <2>2. QED
    BY <1>3, <1>4, <2>1, CountingUp
<1>6. QED
  BY <1>5

LEMMA CarriedIsASum ==
    ASSUME NEW pages \in Seq(ChainLink)
    PROVE  \E sum : SumOf(pages, Len(pages), sum) /\ Carried(pages) = sum[Len(pages)]
<1> DEFINE the == CHOOSE sum : SumOf(pages, Len(pages), sum)
<1>1. Len(pages) \in Nat
  OBVIOUS
<1>2. SumOf(pages, Len(pages), the)
  BY <1>1, SumsExist
<1>3. Carried(pages) = the[Len(pages)]
  BY DEF Carried, SumOf
<1>4. QED
  BY <1>2, <1>3

LEMMA NothingIsCarried == Carried(<<>>) = 0
<1>1. <<>> \in Seq(ChainLink) /\ Len(<<>>) = 0
  OBVIOUS
<1>2. PICK sum : SumOf(<<>>, 0, sum) /\ Carried(<<>>) = sum[0]
  BY <1>1, CarriedIsASum
<1>3. QED
  BY <1>2 DEF SumOf

\* One page more carries what it carries.
LEMMA CarriedGrows ==
    ASSUME NEW pages \in Seq(ChainLink), NEW p \in ChainLink
    PROVE  Carried(Append(pages, p)) = Carried(pages) + p.length
<1> DEFINE n == Len(pages)
           longer == Append(pages, p)
<1>1. /\ n \in Nat /\ longer \in Seq(ChainLink) /\ Len(longer) = n + 1
      /\ longer[n + 1] = p /\ \A i \in 1 .. n : longer[i] = pages[i]
  BY AppendProperties
<1>2. PICK sum : SumOf(pages, n, sum) /\ Carried(pages) = sum[n]
  BY CarriedIsASum
<1>3. PICK more : SumOf(longer, n + 1, more) /\ Carried(longer) = more[n + 1]
  <2> HIDE DEF longer, n
  <2>1. PICK more : SumOf(longer, Len(longer), more) /\ Carried(longer) = more[Len(longer)]
    BY <1>1, CarriedIsASum
  <2>2. QED
    BY <1>1, <2>1
<1> HIDE DEF longer, n
<1>4. more[n + 1] = more[n] + longer[n + 1].length
  <2>1. n + 1 \in 0 .. n + 1 /\ n + 1 # 0
    BY <1>1
  <2>2. \A i \in 0 .. n + 1 : more[i] = IF i = 0 THEN 0 ELSE more[i - 1] + longer[i].length
    BY <1>1, <1>3 DEF SumOf
  <2>3. n \in Nat
    BY <1>1
  <2>4. QED
    BY <2>1, <2>2, <2>3
<1>5. sum[n] = more[n]
  <2>1. \A i \in 1 .. n : pages[i].length = longer[i].length
    BY <1>1
  <2>2. n <= n + 1 /\ n + 1 \in Nat
    BY <1>1
  <2>3. QED
    BY <1>1, <1>2, <1>3, <2>1, <2>2, SumsAgree
<1>6. QED
  BY <1>1, <1>2, <1>3, <1>4, <1>5 DEF longer

-----------------------------------------------------------------------------------
(* ChainReads.  A read, whether it goes on or is being ended, has a beginning of a    *)
(* chain; while it goes on, its next page is the one its last page names.             *)

PolicyLimits == [memory : Nat, decoded : Nat, steps : Nat]

Reads ==
    [stage : {"none", "walking", "named", "failed"},
     facet : {"none", "home", "overflow", "oos", "relocation", "special"},
     policy : PolicyLimits, capture : BOOLEAN, at : Nat, visited : SUBSET Nat, pages : Seq(ChainLink),
     total : Nat, remaining : Nat, validated : Nat, decoded : Nat, resident : Nat, torn : BOOLEAN]

ReadSound(r) ==
    /\ r \in Reads
    /\ Linked(r.pages)
    /\ r.validated = Carried(r.pages) /\ r.validated <= r.total
    /\ r.torn => moved

WithinPolicy(r) ==
    /\ r.resident <= r.policy.memory /\ Len(r.pages) <= r.policy.steps
    /\ r.facet # "oos" => r.decoded <= r.policy.decoded \/ r.pages = <<>>

Underway(r) ==
    /\ r.facet \in {"overflow", "oos", "relocation", "special"}
    /\ \A i \in DOMAIN r.pages : r.pages[i].page \in r.visited
    /\ r.pages # <<>> => r.pages[Len(r.pages)].link = r.at
    /\ r.pages = <<>> => r.total = 0
    /\ (r.facet = "overflow" /\ r.pages # <<>>) => r.validated + r.remaining = r.total
    /\ r.facet = "relocation" => r.pages = <<>> /\ (r.capture => r.policy.steps >= 1)
    /\ r.facet = "special" => IoPage <= r.policy.memory

\* What is read into memory, or searched for, is answered; the rest is published.
Answered(r) == r.capture \/ r.facet = "special"
Whole(r) ==
    /\ r.validated = r.total
    /\ r.pages # <<>> /\ r.pages[Len(r.pages)].link = Nothing

ChainInv ==
    /\ moved \in BOOLEAN
    /\ ReadSound(read)
    /\ read.stage # "none" => WithinPolicy(read)
    /\ read.stage = "walking" => Underway(read)
    /\ ChainsAreWhole

LEMMA LinkedBySteps ==
    ASSUME NEW pages \in Seq(ChainLink), Linked(pages), NEW p \in ChainLink,
           p.index = Len(pages),
           \A i \in DOMAIN pages : pages[i].page # p.page,
           pages # <<>> => pages[Len(pages)].link = p.page
    PROVE  Linked(Append(pages, p))
<1> DEFINE n == Len(pages)
           longer == Append(pages, p)
<1>1. /\ n \in Nat /\ Len(longer) = n + 1 /\ DOMAIN longer = 1 .. n + 1 /\ DOMAIN pages = 1 .. n
      /\ longer[n + 1] = p /\ \A i \in 1 .. n : longer[i] = pages[i]
      /\ n > 0 => pages # <<>>
  BY AppendProperties
<1> HIDE DEF n, longer
<1>2. /\ \A i, j \in 1 .. n : i # j => pages[i].page # pages[j].page
      /\ \A i \in 1 .. n : pages[i].index = i - 1
      /\ \A i \in 1 .. n : i > 1 => pages[i - 1].link = pages[i].page
  BY <1>1 DEF Linked
<1>3. \A i, j \in DOMAIN longer : i # j => longer[i].page # longer[j].page
  <2> SUFFICES ASSUME NEW i \in 1 .. n + 1, NEW j \in 1 .. n + 1, i # j
               PROVE  longer[i].page # longer[j].page
    BY <1>1
  <2>1. CASE i \in 1 .. n /\ j \in 1 .. n
    BY <1>1, <1>2, <2>1
  <2>2. CASE i = n + 1 /\ j \in 1 .. n
    BY <1>1, <2>2
  <2>3. CASE j = n + 1 /\ i \in 1 .. n
    BY <1>1, <2>3
  <2>4. QED
    BY <1>1, <2>1, <2>2, <2>3
<1>4. \A i \in DOMAIN longer : longer[i].index = i - 1
  <2> SUFFICES ASSUME NEW i \in 1 .. n + 1 PROVE longer[i].index = i - 1
    BY <1>1
  <2>1. CASE i \in 1 .. n
    BY <1>1, <1>2, <2>1
  <2>2. CASE i = n + 1
    BY <1>1, <2>2 DEF n
  <2>3. QED
    BY <1>1, <2>1, <2>2
<1>5. \A i \in DOMAIN longer : i > 1 => longer[i - 1].link = longer[i].page
  <2> SUFFICES ASSUME NEW i \in 1 .. n + 1, i > 1 PROVE longer[i - 1].link = longer[i].page
    BY <1>1
  <2>1. CASE i \in 1 .. n
    BY <1>1, <1>2, <2>1
  <2>2. CASE i = n + 1
    <3>1. i - 1 = n /\ i - 1 \in 1 .. n
      BY <1>1, <2>2
    <3>2. pages[n].link = p.page
      BY <1>1, <3>1 DEF n
    <3>3. QED
      BY <1>1, <2>2, <3>1, <3>2
  <2>3. QED
    BY <1>1, <2>1, <2>2
<1>6. QED
  BY <1>3, <1>4, <1>5 DEF Linked, longer

\* One page read: the chain is one page longer.
LongerBy(r, n, p) ==
    /\ p \in ChainLink /\ r.at \notin r.visited /\ p.page = r.at /\ p.index = Len(r.pages)
    /\ n \in Reads /\ n.pages = Append(r.pages, p) /\ n.visited = r.visited \cup {r.at}
    /\ n.validated = r.validated + p.length /\ n.validated <= n.total
    /\ n.at = p.link /\ (n.torn => moved)

LEMMA OnePageMore ==
    ASSUME NEW r, ReadSound(r), Underway(r), NEW n, NEW p, LongerBy(r, n, p)
    PROVE  /\ ReadSound(n)
           /\ n.pages # <<>> /\ Len(n.pages) = Len(r.pages) + 1 /\ n.pages[Len(n.pages)] = p
           /\ \A i \in DOMAIN n.pages : n.pages[i].page \in n.visited
<1>1. r.pages \in Seq(ChainLink)
  BY DEF ReadSound, Reads
<1>0. /\ p \in ChainLink /\ r.at \notin r.visited /\ p.page = r.at /\ p.index = Len(r.pages)
      /\ n \in Reads /\ n.pages = Append(r.pages, p) /\ n.visited = r.visited \cup {r.at}
      /\ n.validated = r.validated + p.length /\ n.validated <= n.total
      /\ n.at = p.link /\ (n.torn => moved)
  BY DEF LongerBy
<1>2. Linked(n.pages)
  <2>1. r.pages # <<>> => r.pages[Len(r.pages)].link = p.page
    BY <1>0 DEF Underway
  <2>2. \A i \in DOMAIN r.pages : r.pages[i].page # p.page
    BY <1>0 DEF Underway
  <2>3. QED
    BY <1>0, <1>1, <2>1, <2>2, LinkedBySteps DEF ReadSound
<1>3. n.validated = Carried(n.pages)
  BY <1>0, <1>1, CarriedGrows DEF ReadSound
<1>4. /\ n.pages # <<>> /\ Len(n.pages) = Len(r.pages) + 1 /\ Len(r.pages) \in Nat
      /\ n.pages[Len(n.pages)] = p
      /\ DOMAIN n.pages = 1 .. Len(r.pages) + 1
      /\ \A i \in 1 .. Len(r.pages) : n.pages[i] = r.pages[i]
  BY <1>0, <1>1, AppendProperties
<1>5. \A i \in DOMAIN n.pages : n.pages[i].page \in n.visited
  <2> SUFFICES ASSUME NEW i \in 1 .. Len(r.pages) + 1 PROVE n.pages[i].page \in n.visited
    BY <1>4
  <2>1. CASE i \in 1 .. Len(r.pages)
    <3>1. i \in DOMAIN r.pages
      BY <1>1, <2>1
    <3>2. QED
      BY <1>0, <1>4, <2>1, <3>1 DEF Underway
  <2>2. CASE i = Len(r.pages) + 1
    BY <1>0, <1>4, <2>2
  <2>3. QED
    BY <1>4, <2>1, <2>2
<1>6. QED
  BY <1>0, <1>2, <1>3, <1>4, <1>5 DEF ReadSound

LEMMA NoReadIsSound ==
    /\ ReadSound(NoChainRead) /\ NoChainRead.stage = "none"
    /\ WithinPolicy(NoChainRead)
<1>1. NoChainRead \in Reads
  BY DEF NoChainRead, Reads, NoPolicy, PolicyLimits, Nothing
<1>2. Linked(<<>>)
  BY DEF Linked
<1>3. QED
  BY <1>1, <1>2, NothingIsCarried DEF NoChainRead, NoPolicy, ReadSound, WithinPolicy

\* A read that is dropped leaves the session as it was.
LEMMA DroppedIsSound ==
    ASSUME moved' \in BOOLEAN, read' = NoChainRead, ChainsAreWhole'
    PROVE  ChainInv'
<1>1. Linked(<<>>)
  BY DEF Linked
<1>2. NoChainRead \in Reads
  BY NoReadIsSound DEF ReadSound
<1>3. QED
  BY <1>1, <1>2, NothingIsCarried DEF ChainInv, ReadSound, NoChainRead

\* However a read ends, what is published is a beginning of a chain, and all of it if it is
\* called complete; what is only answered is within the policy.
LEMMA StopIsSound ==
    ASSUME ChainInv, NEW r, NEW reason, ReadSound(r), Answered(r) => WithinPolicy(r),
           reason = "none" => Answered(r) \/ (Whole(r) /\ ~moved),
           Stop(r, reason)
    PROVE  ChainInv'
<1>1. CASE Answered(r)
  <2>1. PICK ending \in Endings(r, reason) : read' = [r EXCEPT !.stage = ending]
    BY <1>1 DEF Stop, Answer, Answered
  <2>2. ending \in {"named", "failed"} /\ UNCHANGED <<fact, moved>>
    BY <1>1, <2>1 DEF Endings, Stop, Answer, Answered
  <2>3. r \in Reads
    BY DEF ReadSound
  <2>4. /\ read' \in Reads /\ read'.stage = ending /\ read'.pages = r.pages /\ read'.policy = r.policy
        /\ read'.resident = r.resident /\ read'.decoded = r.decoded /\ read'.facet = r.facet
        /\ read'.validated = r.validated /\ read'.total = r.total /\ read'.torn = r.torn
    BY <2>1, <2>2, <2>3 DEF Reads
  <2>5. ReadSound(read)'
    BY <2>2, <2>4 DEF ReadSound
  <2>6. WithinPolicy(read)'
    BY <1>1, <2>4 DEF WithinPolicy
  <2>7. ChainsAreWhole'
    BY <2>2 DEF ChainInv, ChainsAreWhole
  <2>8. QED
    BY <2>2, <2>4, <2>5, <2>6, <2>7 DEF ChainInv
<1>2. CASE ~Answered(r) /\ reason = "unreadable"
  <2>1. InvalidateChain
    BY <1>2 DEF Stop, Answered
  <2>2. read' = NoChainRead /\ UNCHANGED <<fact, moved>>
    BY <2>1 DEF InvalidateChain
  <2>3. ChainsAreWhole'
    BY <2>2 DEF ChainInv, ChainsAreWhole
  <2>4. QED
    BY <2>2, <2>3, DroppedIsSound DEF ChainInv
<1>3. CASE ~Answered(r) /\ reason # "unreadable"
  <2>1. PublishChain(r, reason)
    BY <1>3 DEF Stop, Answered
  <2>2. /\ read' = NoChainRead /\ moved' = moved
        /\ fact'.pages = r.pages /\ fact'.reason = reason /\ fact'.total = r.total
        /\ fact'.validated = r.validated /\ fact'.torn = r.torn
    BY <2>1 DEF PublishChain
  <2>3. ChainsAreWhole'
    BY <1>3, <2>2 DEF ChainsAreWhole, ReadSound, Whole
  <2>4. QED
    BY <2>2, <2>3, DroppedIsSound DEF ChainInv
<1>4. QED
  BY <1>1, <1>2, <1>3

LEMMA StopCheckedIsSound ==
    ASSUME ChainInv, NEW r, NEW reason, ReadSound(r), Answered(r) => WithinPolicy(r),
           reason = "none" => Answered(r) \/ Whole(r),
           StopChecked(r, reason)
    PROVE  ChainInv'
<1>1. CASE moved /\ ~Answered(r)
  <2>1. InvalidateChain
    BY <1>1 DEF StopChecked, Answered
  <2>2. read' = NoChainRead /\ UNCHANGED <<fact, moved>>
    BY <2>1 DEF InvalidateChain
  <2>3. ChainsAreWhole'
    BY <2>2 DEF ChainInv, ChainsAreWhole
  <2>4. QED
    BY <2>2, <2>3, DroppedIsSound DEF ChainInv
<1>2. CASE ~(moved /\ ~Answered(r))
  <2>1. Stop(r, reason)
    BY <1>2 DEF StopChecked, Answered
  <2>2. QED
    BY <1>2, <2>1, StopIsSound
<1>3. QED
  BY <1>1, <1>2

\* A read that goes on.
LEMMA OnwardIsSound ==
    ASSUME ChainInv, NEW r, ReadSound(r), WithinPolicy(r), Underway(r),
           read' = r, UNCHANGED <<fact, moved>>
    PROVE  ChainInv'
<1>1. ReadSound(read)' /\ WithinPolicy(read)' /\ Underway(read)'
  BY DEF ReadSound, WithinPolicy, Underway
<1>2. ChainsAreWhole'
  BY DEF ChainInv, ChainsAreWhole
<1>3. QED
  BY <1>1, <1>2 DEF ChainInv

\* What a page is: its fields, and what it occupies.
LEMMA PagesAre ==
    ASSUME NEW p \in ChainPage
    PROVE  /\ p.link \in Nat /\ p.total \in Nat /\ p.length \in Nat /\ p.total > 0 /\ p.length > 0
           /\ PageResident(p) \in Nat /\ PageResident(p) >= IoPage
           /\ p.fault \in PageFaults /\ p.sealed \in BOOLEAN /\ p.placed \in BOOLEAN
BY ChainAssumption DEF ChainPage, PageResident

LEMMA LooksArePages ==
    /\ HomeLooks \subseteq ChainPage /\ OverflowLooks \subseteq ChainPage
    /\ ChunkLooks \subseteq ChainPage /\ TargetLooks \subseteq ChainPage
    /\ HeapLooks \subseteq ChainPage
BY DEF HomeLooks, OverflowLooks, ChunkLooks, TargetLooks, HeapLooks, Looks

\* A read with one page more is a read.
LEMMA ReadGrows ==
    ASSUME NEW r \in Reads, NEW remaining \in Nat, NEW validated \in Nat, NEW resident \in Nat,
           NEW pages \in Seq(ChainLink), NEW at \in Nat,
           NEW n, n = [r EXCEPT !.remaining = remaining, !.validated = validated,
                                !.resident = resident, !.pages = pages, !.at = at]
    PROVE  n \in Reads
BY DEF Reads

LEMMA LeastIs ==
    ASSUME NEW a \in Int, NEW b \in Int, NEW c \in Int, c <= Least(a, b)
    PROVE  c <= a /\ c <= b
BY DEF Least

LEMMA NotRefused ==
    ASSUME NEW r, NEW p, OverflowRefuses(r, p) = "none"
    PROVE  p.fault = "none" /\ ~(PageResident(p) > AdmittedForPage(r))
<1> DEFINE admitted == AdmittedForPage(r)
           large == PageResident(p) > admitted
           none == "none"
<1>1. "resource-limit" # none /\ "page-owner" # none /\ "page-role" # none /\ "unreadable" # none
  OBVIOUS
<1>2. none = (IF p.fault \in {"page-owner", "page-role"} THEN p.fault
              ELSE IF IoPage > admitted THEN "resource-limit"
              ELSE IF p.fault = "unreadable" THEN p.fault
              ELSE IF large THEN "resource-limit" ELSE p.fault)
  BY Zenon DEF OverflowRefuses
<1>3. none = "none"
  OBVIOUS
<1> HIDE DEF none, large, admitted
<1>4. p.fault = none /\ ~large
  BY <1>1, <1>2, Zenon
<1>5. QED
  BY <1>3, <1>4 DEF large, admitted

LEMMA OverflowKeeps ==
    ASSUME ChainInv, NEW cancelled \in BOOLEAN, OverflowStep(cancelled)
    PROVE  ChainInv'
<1>1. /\ read.stage = "walking" /\ read.facet = "overflow"
      /\ ReadSound(read) /\ WithinPolicy(read) /\ Underway(read) /\ read \in Reads
      /\ moved \in BOOLEAN
  BY DEF OverflowStep, ChainInv, ReadSound
<1>2. /\ read.total \in Nat /\ read.validated \in Nat /\ read.remaining \in Nat /\ read.decoded \in Nat
      /\ read.resident \in Nat /\ read.policy \in PolicyLimits /\ read.policy.memory \in Nat
      /\ read.policy.decoded \in Nat /\ read.policy.steps \in Nat
      /\ read.pages \in Seq(ChainLink) /\ Len(read.pages) \in Nat /\ read.at \in Nat
      /\ read.capture \in BOOLEAN
  BY <1>1 DEF Reads, PolicyLimits
<1>3. CASE OverflowStops(read, cancelled) # "none"
  BY <1>1, <1>3, StopCheckedIsSound DEF OverflowStep
<1>4. CASE OverflowStops(read, cancelled) = "none"
  <2>1. PICK p \in OverflowLooks :
           IF OverflowRefuses(read, p) # "none"
           THEN StopChecked([read EXCEPT !.visited = @ \cup {read.at}], OverflowRefuses(read, p))
           ELSE ReadOverflowPage(read, p)
    BY <1>4 DEF OverflowStep
  <2>2. p \in ChainPage /\ p.link \in Nat /\ p.total \in Nat /\ p.total > 0
        /\ PageResident(p) \in Nat
    BY LooksArePages, PagesAre
  <2>3. CASE OverflowRefuses(read, p) # "none"
    <3> DEFINE r == [read EXCEPT !.visited = @ \cup {read.at}]
    <3>1. /\ r \in Reads /\ r.pages = read.pages /\ r.validated = read.validated
          /\ r.total = read.total /\ r.torn = read.torn /\ r.resident = read.resident
          /\ r.policy = read.policy /\ r.facet = read.facet /\ r.decoded = read.decoded
      BY <1>1, <1>2 DEF Reads
    <3>2. StopChecked(r, OverflowRefuses(read, p))
      BY <2>1, <2>3
    <3> HIDE DEF r
    <3>3. ReadSound(r) /\ WithinPolicy(r)
      BY <1>1, <3>1 DEF ReadSound, WithinPolicy
    <3>4. QED
      BY <2>3, <3>2, <3>3, StopCheckedIsSound
  <2>4. CASE OverflowRefuses(read, p) = "none"
    <3> DEFINE head == read.pages = <<>>
               remaining == IF head THEN p.total ELSE read.remaining
               payload == Least(remaining, PageRoom(read))
               opened == [read EXCEPT !.visited = @ \cup {read.at}, !.decoded = @ + PageResident(p),
                                      !.torn = @ \/ moved]
               begun == [opened EXCEPT !.total = IF head THEN p.total ELSE @]
               entry == [page |-> read.at, link |-> p.link, length |-> payload,
                         index |-> Len(read.pages)]
               next == [begun EXCEPT !.remaining = remaining - payload, !.validated = @ + payload,
                          !.resident = PageResident(p) + (IF read.capture THEN begun.total ELSE 0),
                          !.pages = Append(@, entry),
                          !.at = p.link]
    <3>1. IF ~LinkShape(remaining, PageRoom(read), p.link)
          THEN StopChecked(opened, "overflow.page.link_shape")
          ELSE IF head /\ read.capture /\ ~AdmittedPayload(read, p)
          THEN StopChecked(begun, "resource-limit")
          ELSE IF p.link = Nothing THEN Finish(next)
          ELSE read' = next /\ UNCHANGED <<fact, moved>>
      BY <2>1, <2>4, Zenon DEF ReadOverflowPage
    <3>2. /\ PageResident(p) <= AdmittedForPage(read)
          /\ read.at \notin read.visited /\ Len(read.pages) < read.policy.steps
      <4>1. read.at \notin read.visited /\ ~(Len(read.pages) >= read.policy.steps)
        BY <1>4, Zenon DEF OverflowStops
      <4>3. AdmittedForPage(read) \in Int
        <5>1. (IF read.capture THEN read.total ELSE 0) \in Nat
          BY <1>2
        <5>2. QED
          BY <1>2, <5>1 DEF AdmittedForPage, Least
      <4>2. ~(PageResident(p) > AdmittedForPage(read))
        BY <2>4, NotRefused, Zenon
      <4>4. QED
        BY <1>2, <2>2, <4>1, <4>2, <4>3
    <3>3. /\ PageResident(p) <= read.policy.memory - (IF read.capture THEN read.total ELSE 0)
          /\ read.decoded + PageResident(p) <= read.policy.decoded
      <4> DEFINE held == IF read.capture THEN read.total ELSE 0
      <4>1. held \in Nat
        BY <1>2
      <4> HIDE DEF held
      <4>3. /\ read.policy.memory - held \in Int
            /\ read.policy.decoded - read.decoded \in Int /\ PageResident(p) \in Int
        <5>1. read.policy.memory - held \in Int
          BY <1>2, <4>1
        <5>2. read.policy.decoded - read.decoded \in Int
          BY <1>2
        <5>3. PageResident(p) \in Int
          BY <2>2
        <5>4. QED
          BY <5>1, <5>2, <5>3
      <4>4. PageResident(p) <= Least(read.policy.memory - held, read.policy.decoded - read.decoded)
        BY <3>2, Zenon DEF AdmittedForPage, held
      <4>5. /\ PageResident(p) <= read.policy.memory - held
            /\ PageResident(p) <= read.policy.decoded - read.decoded
        BY <4>3, <4>4, LeastIs
      <4>6. QED
        BY <1>2, <2>2, <4>5 DEF held
    <3>4. PageRoom(read) \in Nat /\ remaining \in Nat /\ payload \in Nat /\ payload <= remaining
      BY <1>2, <2>2, ChainAssumption DEF PageRoom, Least
    <3>5. read.validated + remaining = (IF head THEN p.total ELSE read.total)
      <4>1. CASE head
        BY <1>1, <1>2, <2>2, <4>1 DEF Underway, ReadSound
      <4>2. CASE ~head
        BY <1>1, <4>2 DEF Underway
      <4>3. QED
        BY <4>1, <4>2
    <3>18. payload = Least(remaining, PageRoom(read)) /\ (head => remaining = p.total)
      OBVIOUS
    <3> HIDE DEF payload, remaining
    <3>20. /\ opened \in Reads /\ (opened.torn => read.torn \/ moved)
      <4> DEFINE visited == read.visited \cup {read.at}
                 decoded == read.decoded + PageResident(p)
      <4>1. visited \in SUBSET Nat /\ decoded \in Nat
        BY <1>1, <1>2, <2>2 DEF Reads
      <4>2. opened = [read EXCEPT !.visited = visited, !.decoded = decoded, !.torn = @ \/ moved]
        OBVIOUS
      <4> HIDE DEF visited, decoded, opened
      <4>3. (read.torn \/ moved) \in BOOLEAN
        BY Zenon
      <4>4. opened \in Reads
        BY <1>1, <4>1, <4>2, <4>3 DEF Reads
      <4>5. opened.torn = (read.torn \/ moved)
        BY <1>1, <4>2, Zenon DEF Reads
      <4>6. QED
        BY <4>4, <4>5, Zenon
    <3>6. /\ opened \in Reads /\ opened.pages = read.pages /\ opened.validated = read.validated
          /\ opened.total = read.total /\ (opened.torn => read.torn \/ moved)
          /\ opened.resident = read.resident /\ opened.facet = "overflow"
          /\ opened.policy = read.policy /\ opened.decoded = read.decoded + PageResident(p)
          /\ opened.visited = read.visited \cup {read.at} /\ opened.capture = read.capture
          /\ opened.stage = "walking"
      <4>1. /\ opened.pages = read.pages /\ opened.validated = read.validated
            /\ opened.total = read.total /\ opened.resident = read.resident
            /\ opened.facet = read.facet /\ opened.policy = read.policy
            /\ opened.decoded = read.decoded + PageResident(p)
            /\ opened.visited = read.visited \cup {read.at} /\ opened.capture = read.capture
            /\ opened.stage = read.stage
        BY <1>1 DEF Reads
      <4> HIDE DEF opened
      <4>2. QED
        BY <1>1, <3>20, <4>1
    <3> HIDE DEF opened
    <3>7. /\ begun \in Reads /\ begun.pages = read.pages /\ begun.validated = read.validated
          /\ begun.total = (IF head THEN p.total ELSE read.total)
          /\ (begun.torn => read.torn \/ moved)
          /\ begun.resident = read.resident /\ begun.facet = "overflow"
          /\ begun.policy = read.policy /\ begun.decoded = read.decoded + PageResident(p)
          /\ begun.visited = read.visited \cup {read.at} /\ begun.capture = read.capture
          /\ begun.stage = "walking"
      <4> DEFINE total == IF head THEN p.total ELSE opened.total
      <4>1. total \in Nat /\ total = IF head THEN p.total ELSE read.total
        BY <1>2, <2>2, <3>6
      <4> HIDE DEF total, head
      <4>2. /\ begun \in Reads /\ begun.total = total /\ begun.pages = opened.pages
            /\ begun.validated = opened.validated /\ begun.torn = opened.torn
            /\ begun.resident = opened.resident /\ begun.facet = opened.facet
            /\ begun.policy = opened.policy /\ begun.decoded = opened.decoded
            /\ begun.visited = opened.visited /\ begun.capture = opened.capture
            /\ begun.stage = opened.stage
        BY <3>6, <4>1 DEF Reads, total
      <4> HIDE DEF begun
      <4>3. QED
        BY <3>6, <4>1, <4>2
    <3> HIDE DEF begun
    <3>8. /\ entry \in ChainLink /\ entry.page = read.at /\ entry.link = p.link
          /\ entry.length = payload /\ entry.index = Len(read.pages)
      BY <1>2, <2>2, <3>4 DEF ChainLink
    <3> HIDE DEF entry
    <3>9. /\ next.pages = Append(read.pages, entry)
          /\ next.validated = read.validated + payload /\ next.remaining = remaining - payload
          /\ next.total = begun.total /\ (next.torn => begun.torn)
          /\ next.resident = PageResident(p) + (IF read.capture THEN begun.total ELSE 0)
          /\ next.facet = "overflow" /\ next.policy = read.policy
          /\ next.decoded = read.decoded + PageResident(p)
          /\ next.visited = read.visited \cup {read.at} /\ next.at = p.link
          /\ next.capture = read.capture /\ next.stage = "walking"
      BY <3>7 DEF Reads
    <3>10. next \in Reads
      <4>1. begun.pages = read.pages /\ begun.validated = read.validated
        BY <3>7
      <4>2. /\ Append(begun.pages, entry) \in Seq(ChainLink) /\ begun.total \in Nat
            /\ PageResident(p) + (IF read.capture THEN begun.total ELSE 0) \in Nat
            /\ remaining - payload \in Nat /\ begun.validated + payload \in Nat
        <5>1. begun.total \in Nat
          BY <3>7 DEF Reads
        <5>2. PageResident(p) + (IF read.capture THEN begun.total ELSE 0) \in Nat
          BY <2>2, <5>1
        <5>3. remaining - payload \in Nat /\ begun.validated + payload \in Nat
          BY <1>2, <3>4, <4>1
        <5>4. Append(begun.pages, entry) \in Seq(ChainLink)
          BY <1>2, <3>8, <4>1, AppendProperties
        <5>5. QED
          BY <5>1, <5>2, <5>3, <5>4
      <4>3. p.link \in Nat
        BY <2>2
      <4> DEFINE r1 == remaining - payload
                 v1 == begun.validated + payload
                 m1 == PageResident(p) + (IF read.capture THEN begun.total ELSE 0)
                 s1 == Append(begun.pages, entry)
                 l1 == p.link
      <4>4. next = [begun EXCEPT !.remaining = r1, !.validated = v1, !.resident = m1,
                                 !.pages = s1, !.at = l1]
        OBVIOUS
      <4>5. r1 \in Nat /\ v1 \in Nat /\ m1 \in Nat /\ s1 \in Seq(ChainLink) /\ l1 \in Nat
        BY <4>2, <4>3
      <4> HIDE DEF r1, v1, m1, s1, l1, next
      <4>6. QED
        BY <3>7, <4>4, <4>5, ReadGrows, Zenon
    <3> HIDE DEF next
    <3>11. ReadSound(opened) /\ WithinPolicy(opened)
      BY <1>1, <1>2, <2>2, <3>3, <3>6 DEF ReadSound, WithinPolicy
    <3>12. ReadSound(begun) /\ WithinPolicy(begun)
      <4>1. begun.validated <= begun.total
        BY <1>2, <2>2, <3>4, <3>5, <3>7
      <4>2. QED
        BY <1>1, <1>2, <2>2, <3>3, <3>7, <4>1 DEF ReadSound, WithinPolicy
    <3>13. /\ ReadSound(next)
           /\ next.pages # <<>> /\ Len(next.pages) = Len(read.pages) + 1
           /\ next.pages[Len(next.pages)] = entry
           /\ \A i \in DOMAIN next.pages : next.pages[i].page \in next.visited
      <4>1. next.validated <= next.total
        BY <1>2, <2>2, <3>4, <3>5, <3>7, <3>9
      <4>2. next.torn => moved
        BY <1>1, <3>7, <3>9 DEF ReadSound
      <4>3. QED
        <5>1. next.validated = read.validated + entry.length
          BY <3>8, <3>9
        <5>2. next.at = entry.link
          BY <3>8, <3>9
        <5>3. /\ entry \in ChainLink /\ entry.page = read.at /\ entry.index = Len(read.pages)
              /\ next \in Reads /\ next.pages = Append(read.pages, entry)
              /\ next.visited = read.visited \cup {read.at}
          BY <3>8, <3>9, <3>10
        <5>4. ReadSound(read) /\ Underway(read) /\ read.at \notin read.visited
          BY <1>1, <3>2
        <5>5. QED
          <6>1. LongerBy(read, next, entry)
            BY <4>1, <4>2, <5>1, <5>2, <5>3, <5>4 DEF LongerBy
          <6>2. QED
            BY <5>4, <6>1, OnePageMore
    <3>14. next.validated + next.remaining = next.total
      BY <1>2, <2>2, <3>4, <3>5, <3>7, <3>9
    <3>15. CASE ~LinkShape(remaining, PageRoom(read), p.link)
      BY <3>1, <3>11, <3>15, StopCheckedIsSound
    <3>16. CASE LinkShape(remaining, PageRoom(read), p.link) /\ head /\ read.capture
                  /\ ~AdmittedPayload(read, p)
      BY <3>1, <3>12, <3>16, StopCheckedIsSound
    <3>17. CASE LinkShape(remaining, PageRoom(read), p.link)
                  /\ ~(head /\ read.capture /\ ~AdmittedPayload(read, p))
      <4>1. WithinPolicy(next)
        <5>1. next.resident <= next.policy.memory
          <6>1. CASE ~read.capture
            BY <1>2, <2>2, <3>3, <3>9, <6>1
          <6>2. CASE read.capture /\ head
            BY <1>2, <2>2, <3>7, <3>9, <3>17, <6>2 DEF AdmittedPayload
          <6>3. CASE read.capture /\ ~head
            <7>1. next.resident = PageResident(p) + read.total /\ next.policy = read.policy
              BY <3>7, <3>9, <6>3
            <7>2. PageResident(p) <= read.policy.memory - read.total
              BY <3>3, <6>3
            <7>3. PageResident(p) \in Nat /\ read.total \in Nat /\ read.policy.memory \in Nat
              BY <1>2, <2>2
            <7>4. QED
              BY <7>1, <7>2, <7>3
          <6>4. QED
            BY <1>2, <6>1, <6>2, <6>3
        <5>2. Len(next.pages) <= next.policy.steps
          BY <1>2, <3>2, <3>9, <3>13
        <5>3. next.decoded <= next.policy.decoded
          BY <3>3, <3>9
        <5>4. QED
          BY <5>1, <5>2, <5>3 DEF WithinPolicy
      <4>2. CASE p.link = Nothing
        <5>1. next.remaining = 0
          BY <3>4, <3>9, <3>17, <3>18, <4>2 DEF LinkShape, Least
        <5>2. Whole(next)
          <6>1. next.validated = next.total
            <7>1. next.validated \in Nat /\ next.total \in Nat
              BY <3>10 DEF Reads
            <7>2. QED
              BY <3>14, <5>1, <7>1
          <6>2. QED
            BY <3>8, <3>13, <4>2, <6>1 DEF Whole
        <5>3. StopChecked(next, "none")
          BY <3>1, <3>17, <4>2 DEF Finish
        <5>4. QED
          BY <3>13, <4>1, <5>2, <5>3, StopCheckedIsSound
      <4>3. CASE p.link # Nothing
        <5>1. Underway(next)
          BY <3>8, <3>9, <3>13, <3>14 DEF Underway
        <5>2. read' = next /\ UNCHANGED <<fact, moved>>
          BY <3>1, <3>17, <4>3
        <5>3. QED
          BY <3>13, <4>1, <5>1, <5>2, OnwardIsSound
      <4>4. QED
        BY <4>2, <4>3
    <3>19. QED
      BY <3>15, <3>16, <3>17
  <2>5. QED
    BY <2>3, <2>4
<1>5. QED
  BY <1>3, <1>4

LEMMA ChunkNotRefused ==
    ASSUME NEW r, NEW p, OosRefuses(r, p) = "none"
    PROVE  p.fault = "none" /\ ~(PageResident(p) > r.policy.memory)
<1> DEFINE large == PageResident(p) > r.policy.memory
           none == "none"
<1>1. "resource-limit" # none /\ "page-role" # none /\ "unreadable" # none
      /\ "encrypted" # none /\ "decrypt" # none
  OBVIOUS
<1>2. none = (IF p.fault = "page-role" THEN p.fault
              ELSE IF IoPage > r.policy.memory THEN "resource-limit"
              ELSE IF p.fault = "unreadable" THEN p.fault
              ELSE IF large THEN "resource-limit"
              ELSE IF p.fault \in {"encrypted", "decrypt"} THEN p.fault
              ELSE IF p.sealed /\ r.decoded + PageResident(p) > r.policy.decoded THEN "resource-limit"
              ELSE p.fault)
  BY Zenon DEF OosRefuses
<1>3. none = "none"
  OBVIOUS
<1> HIDE DEF none, large
<1>4. p.fault = none /\ ~large
  BY <1>1, <1>2, Zenon
<1>5. QED
  BY <1>3, <1>4 DEF large

LEMMA OosKeeps ==
    ASSUME ChainInv, NEW cancelled \in BOOLEAN, OosStep(cancelled)
    PROVE  ChainInv'
<1>1. /\ read.stage = "walking" /\ read.facet = "oos"
      /\ ReadSound(read) /\ WithinPolicy(read) /\ Underway(read) /\ read \in Reads
      /\ moved \in BOOLEAN
  BY DEF OosStep, ChainInv, ReadSound
<1>2. /\ read.total \in Nat /\ read.validated \in Nat /\ read.decoded \in Nat
      /\ read.policy.memory \in Nat /\ read.policy.decoded \in Nat /\ read.policy.steps \in Nat
      /\ read.pages \in Seq(ChainLink) /\ Len(read.pages) \in Nat /\ read.at \in Nat
      /\ read.capture \in BOOLEAN
  BY <1>1 DEF Reads, PolicyLimits
<1>3. CASE OosStops(read, cancelled) # "none"
  BY <1>1, <1>3, StopIsSound DEF OosStep
<1>4. CASE OosStops(read, cancelled) = "none"
  <2>1. PICK p \in ChunkLooks :
           IF OosRefuses(read, p) # "none"
           THEN Stop([read EXCEPT !.visited = @ \cup {read.at}], OosRefuses(read, p))
           ELSE ReadOosChunk(read, p)
    BY <1>4 DEF OosStep
  <2>2. /\ p.link \in Nat /\ p.total \in Nat /\ p.total > 0 /\ p.length \in Nat
        /\ PageResident(p) \in Nat
    BY LooksArePages, PagesAre
  <2>3. CASE OosRefuses(read, p) # "none"
    <3> DEFINE r == [read EXCEPT !.visited = @ \cup {read.at}]
    <3>1. /\ r \in Reads /\ r.pages = read.pages /\ r.validated = read.validated
          /\ r.total = read.total /\ r.torn = read.torn /\ r.resident = read.resident
          /\ r.policy = read.policy /\ r.facet = read.facet /\ r.decoded = read.decoded
      BY <1>1, <1>2 DEF Reads
    <3>2. Stop(r, OosRefuses(read, p))
      BY <2>1, <2>3
    <3> HIDE DEF r
    <3>3. ReadSound(r) /\ WithinPolicy(r)
      BY <1>1, <3>1 DEF ReadSound, WithinPolicy
    <3>4. QED
      BY <2>3, <3>2, <3>3, StopIsSound
  <2>4. CASE OosRefuses(read, p) = "none"
    <3> DEFINE visited == read.visited \cup {read.at}
               decoded == read.decoded + PageResident(p)
               resident == PageResident(p)
               opened == [read EXCEPT !.visited = visited, !.decoded = decoded,
                                      !.torn = @ \/ moved, !.resident = resident]
               begun == [opened EXCEPT !.total = p.total]
               entry == [page |-> read.at, link |-> p.link, length |-> p.length,
                         index |-> IF p.placed THEN Len(read.pages) ELSE Len(read.pages) + 1]
               next == [begun EXCEPT !.validated = @ + p.length, !.pages = Append(@, entry),
                                     !.at = p.link]
    <3>1. IF p.length > p.total THEN Stop(opened, "oos.chunk.payload_length")
          ELSE IF OutOfSequence(read, p) THEN Stop(opened, "oos.chain.sequence")
          ELSE IF next.validated > Least(p.total, read.policy.decoded)
          THEN Stop(begun, "oos.chain.accumulated_length")
          ELSE IF p.link # Nothing THEN read' = next /\ UNCHANGED <<fact, moved>>
          ELSE IF next.validated # p.total THEN Stop(next, "oos.chain.complete_length")
          ELSE Finish(next)
      BY <2>1, <2>4, Zenon DEF ReadOosChunk
    <3>2. read.at \notin read.visited /\ Len(read.pages) < read.policy.steps
      <4>1. read.at \notin read.visited /\ ~(Len(read.pages) >= read.policy.steps)
        BY <1>4, Zenon DEF OosStops
      <4>2. QED
        BY <1>2, <4>1
    <3>3. PageResident(p) <= read.policy.memory
      <4>1. ~(PageResident(p) > read.policy.memory)
        BY <2>4, ChunkNotRefused, Zenon
      <4>2. QED
        BY <1>2, <2>2, <4>1
    <3>4. visited \in SUBSET Nat /\ decoded \in Nat /\ resident \in Nat
      BY <1>1, <1>2, <2>2 DEF Reads
    <3>5. visited = read.visited \cup {read.at} /\ resident <= read.policy.memory
      BY <3>3
    <3> HIDE DEF visited, decoded, resident
    <3>6. opened \in Reads /\ (opened.torn => read.torn \/ moved)
      <4>1. (read.torn \/ moved) \in BOOLEAN
        BY Zenon
      <4>2. opened \in Reads
        BY <1>1, <3>4, <4>1 DEF Reads
      <4>3. opened.torn = (read.torn \/ moved)
        BY <1>1, Zenon DEF Reads
      <4>4. QED
        BY <4>2, <4>3, Zenon
    <3>7. /\ opened.pages = read.pages /\ opened.validated = read.validated
          /\ opened.total = read.total /\ opened.resident = resident
          /\ opened.facet = read.facet /\ opened.policy = read.policy
          /\ opened.visited = visited /\ opened.stage = read.stage
      BY <1>1 DEF Reads
    <3> HIDE DEF opened
    <3>8. ReadSound(opened) /\ WithinPolicy(opened)
      BY <1>1, <1>2, <3>5, <3>6, <3>7 DEF ReadSound, WithinPolicy
    <3>9. /\ begun \in Reads /\ begun.total = p.total /\ begun.pages = read.pages
          /\ begun.validated = read.validated /\ begun.torn = opened.torn
          /\ begun.resident = resident /\ begun.facet = "oos" /\ begun.policy = read.policy
          /\ begun.visited = visited /\ begun.stage = "walking"
      BY <1>1, <2>2, <3>6, <3>7 DEF Reads
    <3> HIDE DEF begun
    <3>10. CASE p.length > p.total \/ OutOfSequence(read, p)
      BY <3>1, <3>8, <3>10, StopIsSound
    <3>11. CASE ~(p.length > p.total) /\ ~OutOfSequence(read, p)
      <4>1. p.placed /\ (read.pages = <<>> \/ p.total = read.total)
        BY <3>11 DEF OutOfSequence
      <4>2. read.validated <= p.total
        <5>1. read.validated <= read.total
          BY <1>1 DEF ReadSound
        <5>2. CASE read.pages = <<>>
          BY <1>1, <1>2, <2>2, <5>1, <5>2 DEF Underway
        <5>3. QED
          BY <4>1, <5>1, <5>2
      <4>3. ReadSound(begun) /\ WithinPolicy(begun)
        BY <1>1, <1>2, <3>5, <3>6, <3>9, <4>2 DEF ReadSound, WithinPolicy
      <4>4. /\ entry \in ChainLink /\ entry.page = read.at /\ entry.link = p.link
            /\ entry.length = p.length /\ entry.index = Len(read.pages)
        BY <1>2, <2>2, <4>1 DEF ChainLink
      <4> HIDE DEF entry
      <4>5. /\ next.pages = Append(read.pages, entry) /\ next.validated = read.validated + p.length
            /\ next.at = p.link /\ next.total = p.total /\ next.torn = opened.torn
            /\ next.resident = resident /\ next.facet = "oos" /\ next.policy = read.policy
            /\ next.visited = visited /\ next.stage = "walking"
        BY <3>9 DEF Reads
      <4>6. next \in Reads
        <5> DEFINE more == begun.validated + p.length
                   longer == Append(begun.pages, entry)
                   at == p.link
        <5>1. more \in Nat /\ longer \in Seq(ChainLink) /\ at \in Nat
          BY <1>2, <2>2, <3>9, <4>4, AppendProperties
        <5>2. next = [begun EXCEPT !.validated = more, !.pages = longer, !.at = at]
          OBVIOUS
        <5> HIDE DEF more, longer, at, next
        <5>3. QED
          BY <3>9, <5>1, <5>2 DEF Reads
      <4> HIDE DEF next
      <4>7. CASE next.validated > Least(p.total, read.policy.decoded)
        BY <3>1, <3>11, <4>3, <4>7, StopIsSound
      <4>8. CASE ~(next.validated > Least(p.total, read.policy.decoded))
        <5>1. next.validated <= next.total
          BY <1>2, <2>2, <4>5, <4>8 DEF Least
        <5>2. /\ ReadSound(next)
              /\ next.pages # <<>> /\ Len(next.pages) = Len(read.pages) + 1
              /\ next.pages[Len(next.pages)] = entry
              /\ \A i \in DOMAIN next.pages : next.pages[i].page \in next.visited
          <6>1. next.validated = read.validated + entry.length /\ next.at = entry.link
            BY <4>4, <4>5
          <6>2. next.torn => moved
            BY <1>1, <3>6, <4>5 DEF ReadSound
          <6>3. /\ entry \in ChainLink /\ entry.page = read.at /\ entry.index = Len(read.pages)
                /\ next \in Reads /\ next.pages = Append(read.pages, entry)
                /\ next.visited = read.visited \cup {read.at}
            BY <3>5, <4>4, <4>5, <4>6
          <6>4. ReadSound(read) /\ Underway(read) /\ read.at \notin read.visited
            BY <1>1, <3>2
          <6>5. QED
            <7>1. LongerBy(read, next, entry)
              BY <5>1, <6>1, <6>2, <6>3, <6>4 DEF LongerBy
            <7>2. QED
              BY <6>4, <7>1, OnePageMore
        <5>3. WithinPolicy(next)
          BY <1>2, <3>2, <3>5, <4>5, <5>2 DEF WithinPolicy
        <5>4. CASE p.link # Nothing
          <6>1. Underway(next)
            BY <4>4, <4>5, <5>2 DEF Underway
          <6>2. read' = next /\ UNCHANGED <<fact, moved>>
            BY <3>1, <3>11, <4>8, <5>4
          <6>3. QED
            BY <5>2, <5>3, <6>1, <6>2, OnwardIsSound
        <5>5. CASE p.link = Nothing /\ next.validated # p.total
          BY <3>1, <3>11, <4>8, <5>2, <5>3, <5>5, StopIsSound
        <5>6. CASE p.link = Nothing /\ next.validated = p.total
          <6>1. Whole(next)
            BY <4>4, <4>5, <5>2, <5>6 DEF Whole
          <6>2. StopChecked(next, "none")
            BY <3>1, <3>11, <4>8, <5>6 DEF Finish
          <6>3. QED
            BY <5>2, <5>3, <6>1, <6>2, StopCheckedIsSound
        <5>7. QED
          BY <5>4, <5>5, <5>6
      <4>9. QED
        BY <4>7, <4>8
    <3>12. QED
      BY <3>10, <3>11
  <2>5. QED
    BY <2>3, <2>4
<1>5. QED
  BY <1>3, <1>4

LEMMA OnePage ==
    ASSUME NEW p \in ChainLink, p.index = 0
    PROVE  /\ <<p>> \in Seq(ChainLink) /\ <<p>> # <<>> /\ Len(<<p>>) = 1 /\ <<p>>[1] = p
           /\ Linked(<<p>>) /\ Carried(<<p>>) = p.length
<1>1. <<p>> \in Seq(ChainLink) /\ <<p>> # <<>> /\ Len(<<p>>) = 1 /\ <<p>>[1] = p /\ DOMAIN <<p>> = 1 .. 1
  OBVIOUS
<1>2. Linked(<<p>>)
  BY <1>1 DEF Linked
<1>3. Carried(Append(<<>>, p)) = Carried(<<>>) + p.length
  <2>1. <<>> \in Seq(ChainLink)
    OBVIOUS
  <2>2. QED
    BY <2>1, CarriedGrows
<1>4. Append(<<>>, p) = <<p>> /\ p.length \in Nat
  BY DEF ChainLink
<1>5. QED
  BY <1>1, <1>2, <1>3, <1>4, NothingIsCarried

LEMMA TargetKeeps ==
    ASSUME ChainInv, NEW cancelled \in BOOLEAN, TargetStep(cancelled)
    PROVE  ChainInv'
<1>1. /\ read.stage = "walking" /\ read.facet = "relocation"
      /\ ReadSound(read) /\ WithinPolicy(read) /\ Underway(read) /\ read \in Reads
      /\ moved \in BOOLEAN
  BY DEF TargetStep, ChainInv, ReadSound
<1>2. /\ read.decoded \in Nat /\ read.policy.memory \in Nat /\ read.total = 0
      /\ read.policy.decoded \in Nat /\ read.policy.steps \in Nat /\ read.at \in Nat
      /\ read.capture \in BOOLEAN /\ (read.capture => read.policy.steps >= 1)
  BY <1>1 DEF Reads, PolicyLimits, Underway
<1>3. CASE cancelled
  BY <1>1, <1>3, StopIsSound DEF TargetStep
<1>4. CASE ~cancelled
  <2> DEFINE length(p) == PageResident(p) + (IF read.capture THEN p.total ELSE 0)
             entry(p) == [page |-> read.at, link |-> Nothing, length |-> p.total, index |-> 0]
             next(p) == [read EXCEPT !.pages = <<entry(p)>>,
                                     !.decoded = @ + PageResident(p), !.torn = @ \/ moved,
                                     !.total = p.total, !.validated = p.total,
                                     !.resident = length(p)]
  <2>1. PICK p \in TargetLooks :
           IF OverflowRefuses(read, p) # "none" THEN Stop(read, OverflowRefuses(read, p))
           ELSE IF ~CopiedRecordFits(read, p) THEN Stop(read, "resource-limit")
           ELSE Finish(next(p))
    BY <1>4 DEF TargetStep
  <2>2. p \in ChainPage /\ p.total \in Nat /\ PageResident(p) \in Nat
    BY LooksArePages, PagesAre
  <2>3. CASE OverflowRefuses(read, p) # "none"
    BY <1>1, <2>1, <2>3, StopIsSound
  <2>4. CASE OverflowRefuses(read, p) = "none" /\ ~CopiedRecordFits(read, p)
    BY <1>1, <2>1, <2>4, StopIsSound
  <2>5. CASE OverflowRefuses(read, p) = "none" /\ CopiedRecordFits(read, p)
    <3> DEFINE n == next(p)
               e == entry(p)
               resident == length(p)
               decoded == read.decoded + PageResident(p)
    <3>1. StopChecked(n, "none")
      BY <2>1, <2>5 DEF Finish
    <3>2. decoded <= read.policy.decoded
      <4>1. ~(PageResident(p) > AdmittedForPage(read))
        BY <2>5, NotRefused, Zenon
      <4>2. /\ AdmittedForPage(read) = Least(read.policy.memory, read.policy.decoded - read.decoded)
            /\ AdmittedForPage(read) \in Int
        BY <1>2 DEF AdmittedForPage, Least
      <4>3. PageResident(p) <= Least(read.policy.memory, read.policy.decoded - read.decoded)
        BY <2>2, <4>1, <4>2
      <4>4. PageResident(p) <= read.policy.decoded - read.decoded
        BY <1>2, <2>2, <4>3, LeastIs
      <4>5. QED
        BY <1>2, <2>2, <4>4
    <3>3. e \in ChainLink /\ e.index = 0 /\ e.length = p.total /\ e.link = Nothing
      BY <1>2, <2>2 DEF ChainLink, Nothing
    <3>4. resident \in Nat /\ decoded \in Nat /\ (read.capture => resident <= read.policy.memory)
      BY <1>2, <2>2, <2>5 DEF CopiedRecordFits
    <3> HIDE DEF e
    <3>5. /\ <<e>> \in Seq(ChainLink) /\ <<e>> # <<>> /\ Len(<<e>>) = 1 /\ <<e>>[1] = e
          /\ Linked(<<e>>) /\ Carried(<<e>>) = p.total
      BY <3>3, OnePage
    <3> DEFINE pages == <<e>>
    <3>6. n = [read EXCEPT !.pages = pages, !.decoded = decoded, !.torn = @ \/ moved,
                           !.total = p.total, !.validated = p.total, !.resident = resident]
      BY DEF e
    <3>7. pages \in Seq(ChainLink)
      BY <3>5
    <3> HIDE DEF n, resident, decoded, pages
    <3>8. n \in Reads /\ (n.torn => read.torn \/ moved)
      <4>1. (read.torn \/ moved) \in BOOLEAN
        BY Zenon
      <4>2. n \in Reads
        BY <1>1, <2>2, <3>4, <3>6, <3>7, <4>1 DEF Reads
      <4>3. n.torn = (read.torn \/ moved)
        BY <1>1, <3>6, Zenon DEF Reads
      <4>4. QED
        BY <4>2, <4>3, Zenon
    <3>9. /\ n.pages = pages /\ n.validated = p.total /\ n.total = p.total
          /\ n.resident = resident /\ n.decoded = decoded /\ n.policy = read.policy
          /\ n.facet = "relocation" /\ n.capture = read.capture
      BY <1>1, <3>6 DEF Reads
    <3>10. ReadSound(n)
      BY <1>1, <2>2, <3>5, <3>8, <3>9 DEF ReadSound, pages
    <3>11. Answered(n) => WithinPolicy(n)
      <4>1. Len(n.pages) = 1
        BY <3>5, <3>9 DEF pages
      <4>2. QED
        BY <1>2, <3>2, <3>4, <3>9, <4>1 DEF Answered, WithinPolicy
    <3>12. Whole(n)
      <4>1. n.pages # <<>> /\ n.pages[Len(n.pages)] = e
        BY <3>5, <3>9 DEF pages
      <4>2. QED
        BY <3>3, <3>9, <4>1 DEF Whole
    <3>13. QED
      BY <3>1, <3>10, <3>11, <3>12, StopCheckedIsSound
  <2>6. QED
    BY <2>3, <2>4, <2>5
<1>5. QED
  BY <1>3, <1>4

LEMMA SpecialKeeps ==
    ASSUME ChainInv, NEW cancelled \in BOOLEAN, SpecialStep(cancelled)
    PROVE  ChainInv'
<1>1. /\ read.stage = "walking" /\ read.facet = "special"
      /\ ReadSound(read) /\ WithinPolicy(read) /\ Underway(read) /\ read \in Reads
      /\ moved \in BOOLEAN
  BY DEF SpecialStep, ChainInv, ReadSound
<1>2. /\ read.decoded \in Nat /\ read.policy.memory \in Nat /\ read.total \in Nat
      /\ read.validated \in Nat /\ IoPage <= read.policy.memory /\ IoPage \in Nat
      /\ read.policy.decoded \in Nat /\ read.policy.steps \in Nat /\ read.at \in Nat
      /\ read.pages \in Seq(ChainLink) /\ Len(read.pages) \in Nat
  BY <1>1, ChainAssumption DEF Reads, PolicyLimits, Underway
<1> DEFINE stops == \/ Len(read.pages) + 1 > read.policy.steps
                    \/ read.decoded + IoPage > read.policy.decoded
                    \/ read.at \in read.visited
<1>3. CASE cancelled \/ stops
  BY <1>1, <1>3, StopIsSound DEF SpecialStep
<1>4. CASE ~(cancelled \/ stops)
  <2> DEFINE entry(p) == [page |-> read.at, link |-> p.link, length |-> 0, index |-> Len(read.pages)]
             after(p) == [read EXCEPT !.visited = @ \cup {read.at}, !.decoded = @ + IoPage,
                             !.resident = IoPage, !.at = p.link, !.pages = Append(@, entry(p))]
  <2>1. PICK p \in HeapLooks, linkedBack \in BOOLEAN, holds \in BOOLEAN :
           IF p.fault # "none" \/ ~linkedBack THEN Stop(read, "tde-bootstrap")
           ELSE IF holds THEN Finish(after(p))
           ELSE IF p.link = Nothing THEN Stop(after(p), "tde-bootstrap")
           ELSE read' = after(p) /\ UNCHANGED <<fact, moved>>
    BY <1>4 DEF SpecialStep
  <2>2. p \in ChainPage /\ p.link \in Nat
    BY LooksArePages, PagesAre
  <2>3. CASE p.fault # "none" \/ ~linkedBack
    BY <1>1, <2>1, <2>3, StopIsSound
  <2>4. CASE ~(p.fault # "none" \/ ~linkedBack)
    <3> DEFINE e == entry(p)
               n == after(p)
               visited == read.visited \cup {read.at}
               decoded == read.decoded + IoPage
               pages == Append(read.pages, e)
               at == p.link
    <3>1. \/ Finish(n) \/ Stop(n, "tde-bootstrap")
          \/ read' = n /\ UNCHANGED <<fact, moved>>
      BY <2>1, <2>4
    <3>2. /\ e \in ChainLink /\ e.page = read.at /\ e.link = p.link /\ e.length = 0
          /\ e.index = Len(read.pages)
      BY <1>2, <2>2 DEF ChainLink
    <3> HIDE DEF e
    <3>3. visited \in SUBSET Nat /\ decoded \in Nat /\ pages \in Seq(ChainLink) /\ at \in Nat
      BY <1>1, <1>2, <2>2, <3>2, AppendProperties DEF Reads
    <3>4. n = [read EXCEPT !.visited = visited, !.decoded = decoded, !.resident = IoPage,
                           !.at = at, !.pages = pages]
      BY DEF e
    <3>5. read.at \notin read.visited /\ decoded <= read.policy.decoded
          /\ Len(read.pages) + 1 <= read.policy.steps
      BY <1>2, <1>4
    <3> HIDE DEF n, visited, decoded, pages, at
    <3>6. /\ n \in Reads /\ n.pages = pages /\ n.visited = visited /\ n.decoded = decoded
          /\ n.at = at /\ n.resident = IoPage /\ n.validated = read.validated
          /\ n.total = read.total /\ n.torn = read.torn /\ n.policy = read.policy
          /\ n.facet = "special" /\ n.stage = "walking" /\ n.capture = read.capture
      BY <1>1, <1>2, <3>3, <3>4 DEF Reads
    <3>7. /\ ReadSound(n)
          /\ n.pages # <<>> /\ Len(n.pages) = Len(read.pages) + 1 /\ n.pages[Len(n.pages)] = e
          /\ \A i \in DOMAIN n.pages : n.pages[i].page \in n.visited
      <4>1. n.validated = read.validated + e.length
        BY <1>2, <3>2, <3>6
      <4>2. n.validated <= n.total
        BY <1>1, <1>2, <3>6 DEF ReadSound
      <4>3. n.torn => moved
        BY <1>1, <3>6 DEF ReadSound
      <4>4. n.at = e.link
        BY <3>2, <3>6 DEF at
      <4>5. n.pages = Append(read.pages, e)
        BY <3>6 DEF pages
      <4>6. n.visited = read.visited \cup {read.at}
        BY <3>6 DEF visited
      <4>7. e \in ChainLink /\ e.page = read.at /\ e.index = Len(read.pages) /\ n \in Reads
        BY <3>2, <3>6
      <4>8. ReadSound(read) /\ Underway(read) /\ read.at \notin read.visited
        BY <1>1, <3>5
      <4> HIDE DEF stops, entry, after
      <4>9. QED
        <5>1. LongerBy(read, n, e)
          BY <4>1, <4>2, <4>3, <4>4, <4>5, <4>6, <4>7, <4>8 DEF LongerBy
        <5>2. QED
          BY <4>8, <5>1, OnePageMore
    <3>8. WithinPolicy(n)
      BY <1>2, <3>5, <3>6, <3>7 DEF WithinPolicy
    <3>9. Underway(n)
      BY <1>2, <3>2, <3>6, <3>7 DEF Underway, at
    <3>10. Answered(n)
      BY <3>6 DEF Answered
    <3>11. CASE Finish(n)
      BY <3>7, <3>8, <3>10, <3>11, StopCheckedIsSound DEF Finish
    <3>12. CASE Stop(n, "tde-bootstrap")
      BY <3>7, <3>8, <3>12, StopIsSound
    <3>13. CASE read' = n /\ UNCHANGED <<fact, moved>>
      BY <3>7, <3>8, <3>9, <3>13, OnwardIsSound
    <3>14. QED
      BY <3>1, <3>11, <3>12, <3>13
  <2>5. QED
    BY <2>3, <2>4
<1>5. QED
  BY <1>3, <1>4
\* A request that has read nothing yet.
Fresh(r) ==
    /\ r \in Reads /\ r.pages = <<>> /\ r.validated = 0 /\ r.total = 0 /\ r.resident = 0
    /\ r.torn = FALSE

LEMMA FreshIsSound ==
    ASSUME NEW r, Fresh(r)
    PROVE  ReadSound(r) /\ WithinPolicy(r)
<1>1. Linked(<<>>)
  BY DEF Linked
<1>2. r.policy.memory \in Nat /\ r.policy.steps \in Nat
  BY DEF Fresh, Reads, PolicyLimits
<1>3. QED
  BY <1>1, <1>2, NothingIsCarried DEF Fresh, ReadSound, WithinPolicy

ChainFacets == {"home", "overflow", "oos", "relocation", "special"}

LEMMA RequestsAreFresh ==
    ASSUME NEW facet, facet \in ChainFacets, NEW policy, policy \in PolicyLimits
    PROVE  /\ Fresh(Requested(facet, policy)) /\ Fresh([Requested(facet, policy) EXCEPT !.capture = TRUE])
           /\ Requested(facet, policy).facet = facet /\ Requested(facet, policy).policy = policy
<1> DEFINE r == Requested(facet, policy)
           c == [r EXCEPT !.capture = TRUE]
<1>1. NoChainRead \in Reads
  BY NoReadIsSound DEF ReadSound
<1>2. /\ NoChainRead.pages = <<>> /\ NoChainRead.validated = 0 /\ NoChainRead.total = 0
      /\ NoChainRead.resident = 0 /\ NoChainRead.torn = FALSE
  BY DEF NoChainRead
<1>3. /\ r \in Reads /\ r.pages = <<>> /\ r.validated = 0 /\ r.total = 0 /\ r.resident = 0
      /\ r.torn = FALSE /\ r.facet = facet /\ r.policy = policy
  BY <1>1, <1>2 DEF Requested, Reads, ChainFacets
<1> HIDE DEF r
<1>4. /\ c \in Reads /\ c.pages = <<>> /\ c.validated = 0 /\ c.total = 0 /\ c.resident = 0
      /\ c.torn = FALSE
  BY <1>3 DEF Reads
<1>5. QED
  BY <1>3, <1>4 DEF Fresh, r

LEMMA PoliciesAreLimits == Policies \subseteq PolicyLimits
BY ChainAssumption DEF PolicyLimits

\* A chain is followed from the first page on.
LEMMA SetOutIsSound ==
    ASSUME ChainInv, NEW r, Fresh(r), NEW at \in Nat, NEW decoded \in Nat,
           r.facet \in {"overflow", "oos", "relocation", "special"},
           r.facet = "relocation" /\ r.capture => r.policy.steps >= 1,
           r.facet = "special" => IoPage <= r.policy.memory,
           NEW torn \in BOOLEAN, torn => moved,
           read' = [r EXCEPT !.torn = torn, !.stage = "walking", !.at = at, !.decoded = decoded],
           UNCHANGED <<fact, moved>>
    PROVE  ChainInv'
<1> DEFINE n == [r EXCEPT !.torn = torn, !.stage = "walking", !.at = at, !.decoded = decoded]
<1>1. /\ n \in Reads /\ n.pages = <<>> /\ n.validated = 0 /\ n.total = 0 /\ n.resident = 0
      /\ n.torn = torn /\ n.facet = r.facet /\ n.capture = r.capture /\ n.policy = r.policy
  BY DEF Fresh, Reads
<1>2. read' = n
  OBVIOUS
<1> HIDE DEF n
<1>3. r.policy.memory \in Nat /\ r.policy.steps \in Nat
  BY DEF Fresh, Reads, PolicyLimits
<1>4. Linked(<<>>) /\ DOMAIN <<>> = {} /\ Len(<<>>) = 0
  BY DEF Linked
<1>5. ReadSound(n) /\ WithinPolicy(n)
  BY <1>1, <1>3, <1>4, NothingIsCarried DEF ReadSound, WithinPolicy
<1>6. Underway(n)
  BY <1>1, <1>4 DEF Underway
<1>7. QED
  BY <1>2, <1>5, <1>6, OnwardIsSound

LEMMA BeginKeeps ==
    ASSUME ChainInv, NEW r, Fresh(r), NEW p \in ChainPage,
           r.facet \in {"overflow", "relocation"},
           r.facet = "relocation" /\ r.capture => r.policy.steps >= 1,
           BeginFromHome(r, p)
    PROVE  ChainInv'
<1>1. p.link \in Nat /\ PageResident(p) \in Nat
  BY PagesAre
<1>2. moved \in BOOLEAN
  BY DEF ChainInv
<1> DEFINE torn == r.torn \/ moved
           home == [r EXCEPT !.torn = torn]
<1>3. torn \in BOOLEAN /\ (torn => moved)
  <2>1. r.torn = FALSE
    BY DEF Fresh
  <2>2. QED
    BY <1>2, <2>1, Zenon
<1>4. IF HomeRefuses(r, p) # "none" THEN Stop(home, HomeRefuses(r, p))
      ELSE /\ read' = [home EXCEPT !.stage = "walking", !.at = p.link, !.decoded = PageResident(p)]
           /\ UNCHANGED <<fact, moved>>
  BY Zenon DEF BeginFromHome
<1> HIDE DEF torn
<1>5. /\ home \in Reads /\ home.pages = <<>> /\ home.validated = 0 /\ home.total = 0
      /\ home.resident = 0 /\ home.torn = torn /\ home.policy = r.policy
  BY <1>3 DEF Fresh, Reads
<1>6. CASE HomeRefuses(r, p) # "none"
  <2>1. Stop(home, HomeRefuses(r, p))
    BY <1>4, <1>6
  <2> HIDE DEF home
  <2>2. r.policy.memory \in Nat /\ r.policy.steps \in Nat
    BY DEF Fresh, Reads, PolicyLimits
  <2>3. Linked(<<>>) /\ Len(<<>>) = 0
    BY DEF Linked
  <2>4. ReadSound(home) /\ WithinPolicy(home)
    BY <1>3, <1>5, <2>2, <2>3, NothingIsCarried DEF ReadSound, WithinPolicy
  <2>5. QED
    BY <1>6, <2>1, <2>4, StopIsSound
<1>7. CASE HomeRefuses(r, p) = "none"
  <2> DEFINE at == p.link
             decoded == PageResident(p)
  <2>1. /\ read' = [home EXCEPT !.stage = "walking", !.at = at, !.decoded = decoded]
        /\ UNCHANGED <<fact, moved>>
    BY <1>4, <1>7
  <2>2. at \in Nat /\ decoded \in Nat
    BY <1>1
  <2>3. read' = [r EXCEPT !.torn = torn, !.stage = "walking", !.at = at, !.decoded = decoded]
    BY <2>1
  <2> HIDE DEF at, decoded, home
  <2>4. r.facet \in {"overflow", "oos", "relocation", "special"} /\ r.facet # "special"
    OBVIOUS
  <2>5. UNCHANGED <<fact, moved>>
    BY <2>1
  <2>6. QED
    BY <1>3, <2>2, <2>3, <2>4, <2>5, SetOutIsSound
<1>8. QED
  BY <1>6, <1>7

LEMMA InvalidateKeeps ==
    ASSUME ChainInv, InvalidateChain
    PROVE  ChainInv'
<1>1. read' = NoChainRead /\ UNCHANGED <<fact, moved>>
  BY DEF InvalidateChain
<1>2. ChainsAreWhole'
  BY <1>1 DEF ChainInv, ChainsAreWhole
<1>3. QED
  BY <1>1, <1>2, DroppedIsSound DEF ChainInv

LEMMA EnrichKeeps ==
    ASSUME ChainInv, NEW policy \in Policies, NEW facet \in {"overflow", "relocation"},
           NEW cancelled \in BOOLEAN, EnrichFromHome(facet, policy, cancelled)
    PROVE  ChainInv'
<1> DEFINE r == Requested(facet, policy)
<1>1. Fresh(r) /\ r.facet = facet /\ r.capture = FALSE
  <2>1. policy \in PolicyLimits
    BY PoliciesAreLimits
  <2>2. r.capture = FALSE
    BY DEF Requested, NoChainRead
  <2>3. facet \in ChainFacets
    BY DEF ChainFacets
  <2>4. Fresh(r) /\ r.facet = facet
    <3> HIDE DEF r
    <3>1. Fresh(Requested(facet, policy)) /\ Requested(facet, policy).facet = facet
      BY <2>1, <2>3, RequestsAreFresh, Zenon
    <3>2. QED
      BY <3>1 DEF r
  <2>5. QED
    BY <2>2, <2>4
<1>2. \/ Stop(r, "interrupted") \/ Stop(r, "resource-limit") \/ InvalidateChain
      \/ \E p \in HomeLooks : BeginFromHome(r, p)
  BY DEF EnrichFromHome
<1> HIDE DEF r
<1>3. ReadSound(r) /\ WithinPolicy(r)
  BY <1>1, FreshIsSound
<1>4. CASE Stop(r, "interrupted")
  BY <1>3, <1>4, StopIsSound
<1>5. CASE Stop(r, "resource-limit")
  BY <1>3, <1>5, StopIsSound
<1>6. CASE \E p \in HomeLooks : BeginFromHome(r, p)
  BY <1>1, <1>6, BeginKeeps, LooksArePages
<1>7. QED
  BY <1>2, <1>4, <1>5, <1>6, InvalidateKeeps

LEMMA EnrichOosKeeps ==
    ASSUME ChainInv, NEW policy \in Policies, EnrichOos(policy)
    PROVE  ChainInv'
<1>1. CASE InvalidateChain
  BY <1>1, InvalidateKeeps
<1>2. CASE /\ read' = [Requested("oos", policy) EXCEPT !.stage = "walking", !.at = First]
           /\ UNCHANGED <<fact, moved>>
  <2> DEFINE r == Requested("oos", policy)
  <2>1. Fresh(r) /\ r.facet = "oos"
    BY PoliciesAreLimits, RequestsAreFresh DEF ChainFacets
  <2>2. read' = [r EXCEPT !.stage = "walking", !.at = First]
    BY <1>2
  <2> HIDE DEF r
  <2>3. r.torn = FALSE /\ r \in Reads
    BY <2>1 DEF Fresh
  <2> DEFINE n == [r EXCEPT !.stage = "walking", !.at = First]
  <2>4. /\ n \in Reads /\ n.pages = <<>> /\ n.validated = 0 /\ n.total = 0 /\ n.resident = 0
        /\ n.torn = FALSE /\ n.facet = "oos" /\ n.policy = r.policy
    BY <2>1, <2>3 DEF Fresh, Reads, First
  <2> HIDE DEF n
  <2>5. Fresh(n)
    BY <2>4 DEF Fresh
  <2>6. Underway(n)
    BY <2>4 DEF Underway
  <2>7. QED
    BY <1>2, <2>2, <2>5, <2>6, FreshIsSound, OnwardIsSound DEF n
<1>3. QED
  BY <1>1, <1>2 DEF EnrichOos

LEMMA SpecialRecordKeeps ==
    ASSUME ChainInv, NEW policy \in Policies, ReadSpecialRecord(policy)
    PROVE  ChainInv'
<1> DEFINE r == Requested("special", policy)
<1>1. Fresh(r) /\ r.facet = "special" /\ r.policy = policy
  BY PoliciesAreLimits, RequestsAreFresh DEF ChainFacets
<1>2. CASE Least(policy.memory, policy.decoded) < IoPage
  <2>1. Stop(r, "tde-bootstrap")
    BY <1>2 DEF ReadSpecialRecord
  <2> HIDE DEF r
  <2>2. QED
    BY <1>1, <2>1, FreshIsSound, StopIsSound
<1>3. CASE ~(Least(policy.memory, policy.decoded) < IoPage)
  <2>1. read' = [r EXCEPT !.stage = "walking", !.at = First] /\ UNCHANGED <<fact, moved>>
    BY <1>3 DEF ReadSpecialRecord
  <2>2. policy.memory \in Nat /\ policy.decoded \in Nat /\ IoPage \in Nat
    BY PoliciesAreLimits, ChainAssumption DEF PolicyLimits
  <2>3. IoPage <= policy.memory
    BY <1>3, <2>2 DEF Least
  <2> DEFINE n == [r EXCEPT !.stage = "walking", !.at = First]
  <2> HIDE DEF r
  <2>4. /\ n \in Reads /\ n.pages = <<>> /\ n.validated = 0 /\ n.total = 0 /\ n.resident = 0
        /\ n.torn = FALSE /\ n.facet = "special" /\ n.policy = policy
    BY <1>1 DEF Fresh, Reads, First
  <2> HIDE DEF n
  <2>5. Fresh(n)
    BY <2>4 DEF Fresh
  <2>6. Underway(n)
    BY <2>3, <2>4 DEF Underway
  <2>7. QED
    BY <2>1, <2>5, <2>6, FreshIsSound, OnwardIsSound DEF n
<1>4. QED
  BY <1>2, <1>3

LEMMA ClassNameKeeps ==
    ASSUME ChainInv, NEW policy \in Policies, NEW facet \in {"home", "overflow", "relocation"},
           NEW cancelled \in BOOLEAN, ReadClassName(facet, policy, cancelled)
    PROVE  ChainInv'
<1> DEFINE r == [Requested(facet, policy) EXCEPT !.capture = TRUE]
<1>1. policy \in PolicyLimits /\ policy.steps \in Nat
  BY PoliciesAreLimits DEF PolicyLimits
<1>2. Fresh(r) /\ r.facet = facet /\ r.policy = policy /\ r.capture = TRUE
  <2>1. Fresh(r)
    <3>1. facet \in ChainFacets
      BY DEF ChainFacets
    <3>2. QED
      BY <1>1, <3>1, RequestsAreFresh, Zenon
  <2>2. r.facet = facet /\ r.policy = policy /\ r.capture = TRUE
    BY DEF Requested, NoChainRead
  <2>3. QED
    BY <2>1, <2>2
<1>3. \/ Stop(r, "interrupted") \/ Stop(r, "resource-limit")
      \/ \E p \in HomeLooks :
            \/ HomeRefuses(r, p) # "none" /\ Stop(r, HomeRefuses(r, p))
            \/ facet = "home" /\ Answer(r, "none")
            \/ facet = "relocation" /\ Stop(r, "relocation-depth")
            \/ facet # "home" /\ ~(facet = "relocation" /\ policy.steps < 2) /\ BeginFromHome(r, p)
  BY DEF ReadClassName
<1> HIDE DEF r
<1>4. ReadSound(r) /\ WithinPolicy(r) /\ Answered(r)
  BY <1>2, FreshIsSound DEF Answered
<1>5. ASSUME NEW reason, Stop(r, reason) PROVE ChainInv'
  BY <1>4, <1>5, StopIsSound
<1>6. ASSUME Answer(r, "none") PROVE ChainInv'
  <2>1. Stop(r, "none")
    BY <1>2, <1>6 DEF Stop
  <2>2. QED
    BY <1>5, <2>1
<1>7. ASSUME NEW p \in HomeLooks, BeginFromHome(r, p), facet # "home",
             ~(facet = "relocation" /\ policy.steps < 2)
      PROVE  ChainInv'
  <2>1. r.facet = "relocation" /\ r.capture => r.policy.steps >= 1
    BY <1>1, <1>2, <1>7
  <2>2. r.facet \in {"overflow", "relocation"} /\ p \in ChainPage
    BY <1>2, <1>7, LooksArePages
  <2>3. QED
    BY <1>2, <1>7, <2>1, <2>2, BeginKeeps
<1>8. QED
  BY <1>3, <1>5, <1>6, <1>7

\* Every read the session makes of a chain is of one that is linked as far as it was read, and
\* what was published of one is what was read (enrich_bigone, enrich_oos, resolve_class_name).
THEOREM ChainsAreSound == ChainSpec => []ChainInv
<1>1. ChainInit => ChainInv
  <2> SUFFICES ASSUME ChainInit PROVE ChainInv
    OBVIOUS
  <2>1. read = NoChainRead /\ moved = FALSE /\ fact.held = FALSE
    BY DEF ChainInit, NoChain
  <2>2. ReadSound(read) /\ read.stage = "none"
    BY <2>1, NoReadIsSound, Zenon
  <2>3. ChainsAreWhole
    BY <2>1 DEF ChainsAreWhole
  <2>4. QED
    BY <2>1, <2>2, <2>3 DEF ChainInv
<1>2. ASSUME ChainInv, [ChainNext]_chainVars PROVE ChainInv'
  <2>1. CASE InputMoves
    <3>1. moved' = TRUE /\ UNCHANGED <<read, fact>>
      BY <2>1 DEF InputMoves
    <3>2. ReadSound(read)'
      BY <1>2, <3>1 DEF ChainInv, ReadSound
    <3>3. WithinPolicy(read)' = WithinPolicy(read) /\ Underway(read)' = Underway(read)
          /\ ChainsAreWhole' = ChainsAreWhole
      BY <3>1 DEF WithinPolicy, Underway, ChainsAreWhole
    <3>4. QED
      BY <1>2, <3>1, <3>2, <3>3 DEF ChainInv
  <2>2. CASE UNCHANGED chainVars
    <3>1. read' = read /\ fact' = fact /\ moved' = moved
      BY <2>2 DEF chainVars
    <3>2. QED
      BY <1>2, <3>1 DEF ChainInv, ReadSound, WithinPolicy, Underway, ChainsAreWhole
  <2>3. QED
    BY <1>2, <2>1, <2>2, OverflowKeeps, OosKeeps, TargetKeeps, SpecialKeeps, EnrichKeeps,
       EnrichOosKeeps, SpecialRecordKeeps, ClassNameKeeps DEF ChainNext
<1>3. QED
  BY <1>1, <1>2, PTL DEF ChainSpec

\* A chain the session calls complete has all its pages, in order, from one unchanged input, and
\* one it stopped in is a beginning of a chain (walk_overflow_chain, enrich_oos).
THEOREM CompleteChainsAreWhole == ChainSpec => []ChainsAreWhole
<1>1. ChainInv => ChainsAreWhole
  BY DEF ChainInv
<1>2. QED
  BY <1>1, ChainsAreSound, PTL

\* No deep read holds, decodes or visits more than the policy it was asked under (read_admitted,
\* admitted_overflow_payload_capacity).
THEOREM ReadsAreBounded == ChainSpec => []ReadsStayWithinPolicy
<1>1. ChainInv => ReadsStayWithinPolicy
  BY DEF ChainInv, WithinPolicy, ReadsStayWithinPolicy
<1>2. QED
  BY <1>1, ChainsAreSound, PTL
-----------------------------------------------------------------------------------
(* FileInventory.  What has been collected and what is published tell one story, file *)
(* by file.                                                                           *)

Owned(g, f) == {p \in DOMAIN g.owner : g.owner[p] = f}
ClaimsBy(g, f) == {c \in g.claims : c.file = f}
Claimed(claims) == UNION {ClaimedBits(c) : c \in claims}

SameStory(g) ==
    /\ \A f \in DOMAIN g.header :
         /\ g.header[f].tables \subseteq Owned(g, f)
         /\ Cardinality(Owned(g, f)) = g.header[f].pages
         /\ Owned(g, f) = Claimed(ClaimsBy(g, f))
    /\ \A p \in DOMAIN g.owner : g.owner[p] \in DOMAIN g.header
    /\ \A c \in g.claims : c.file \in DOMAIN g.header

SessionFields ==
    {"inventory", "reason", "tracked", "header", "owner", "claims", "names", "conflicts",
     "rejected", "valid"}

Complete(s) ==
    s.inventory = "complete" =>
      /\ s.tracked = DOMAIN s.header
      /\ DOMAIN s.names = ClassesOf(s.header)
      /\ s.conflicts = Conflicts(s.claims)

\* Files still to be read have not been: their pages and claims are new.
InventoryInv ==
    /\ SameStory(found) /\ SameStory(session)
    /\ DOMAIN session = SessionFields
    /\ unread \subseteq FileTables /\ unread \cap DOMAIN found.header = {}
    /\ stage # "files" => found = NothingFound
    /\ Complete(session)

\* What is collected of a file whose tables could all be read.
Reconciled(w) ==
    /\ w.tables \subseteq w.pages
    /\ Cardinality(w.pages) = w.count
    /\ w.pages = Claimed(w.claims)
    /\ \A c \in w.claims : c.file = w.file

LEMMA AllocatedIsClaimed ==
    ASSUME NEW w
    PROVE  Allocated(w) = Claimed(ClaimsOf(w)) /\ \A c \in ClaimsOf(w) : c.file = w.file
<1> DEFINE part(p) == [sector |-> p.sector, file |-> w.file, bits |-> p.bits, full |-> FALSE]
           whole(s) == [sector |-> s, file |-> w.file, bits |-> {}, full |-> TRUE]
<1>1. ClaimsOf(w) = {part(p) : p \in w.partial} \cup {whole(s) : s \in w.full}
  BY DEF ClaimsOf
<1>2. /\ \A p \in w.partial : ClaimedBits(part(p)) = {p.sector * SectorPages + bit : bit \in p.bits}
      /\ \A p \in w.partial : part(p).file = w.file
  BY DEF ClaimedBits
<1>3. /\ \A s \in w.full : ClaimedBits(whole(s)) = PagesOf(s)
      /\ \A s \in w.full : whole(s).file = w.file
  BY DEF ClaimedBits
<1> HIDE DEF part, whole
<1>4. \A c \in ClaimsOf(w) : c.file = w.file
  BY <1>1, <1>2, <1>3
<1> DEFINE bits(p) == {p.sector * SectorPages + bit : bit \in p.bits}
<1>5. Allocated(w) = (UNION {bits(p) : p \in w.partial}) \cup (UNION {PagesOf(s) : s \in w.full})
  BY DEF Allocated
<1>6. \A p \in w.partial : ClaimedBits(part(p)) = bits(p)
  BY <1>2
<1> HIDE DEF bits
<1>7. Claimed(ClaimsOf(w)) = (UNION {bits(p) : p \in w.partial}) \cup (UNION {PagesOf(s) : s \in w.full})
  <2>1. ASSUME NEW x, x \in Claimed(ClaimsOf(w))
        PROVE x \in (UNION {bits(p) : p \in w.partial}) \cup (UNION {PagesOf(s) : s \in w.full})
    <3>1. PICK c \in ClaimsOf(w) : x \in ClaimedBits(c)
      BY <2>1 DEF Claimed
    <3>2. CASE \E p \in w.partial : c = part(p)
      BY <1>6, <3>1, <3>2
    <3>3. CASE \E s \in w.full : c = whole(s)
      BY <1>3, <3>1, <3>3
    <3>4. QED
      BY <1>1, <3>1, <3>2, <3>3
  <2>2. ASSUME NEW p \in w.partial, NEW x \in bits(p) PROVE x \in Claimed(ClaimsOf(w))
    BY <1>1, <1>6, <2>2 DEF Claimed
  <2>3. ASSUME NEW s \in w.full, NEW x \in PagesOf(s) PROVE x \in Claimed(ClaimsOf(w))
    BY <1>1, <1>3, <2>3 DEF Claimed
  <2>4. QED
    BY <2>1, <2>2, <2>3
<1>8. QED
  BY <1>4, <1>5, <1>7

LEMMA CollectedIsReconciled ==
    ASSUME NEW file \in FileTables, NEW w \in CollectedFiles[file]
    PROVE  w.file = file /\ (w.stop = "none" => Reconciled(w))
<1>1. PICK v : w = Collected(v) /\ v.file = file
  <2> DEFINE of(r, l, n) == [file |-> file, stop |-> r.stop, tables |-> r.tables,
                             partial |-> l.partial, full |-> l.full, user |-> l.user,
                             numerable |-> n]
             listed(t, n) == {{Collected(of(r, l, n)) : l \in Listings(r, t, n)} : r \in Walks(file, t, n)}
  <2>1. CollectedFiles[file] = UNION {UNION listed(t, n) : t, n \in BOOLEAN}
    BY DEF CollectedFiles
  <2>2. PICK t \in BOOLEAN, n \in BOOLEAN : w \in UNION listed(t, n)
    <3> HIDE DEF listed
    <3>1. QED
      BY <2>1
  <2>3. PICK r \in Walks(file, t, n) : w \in {Collected(of(r, l, n)) : l \in Listings(r, t, n)}
    <3> HIDE DEF of
    <3>1. QED
      BY <2>2
  <2>4. PICK l \in Listings(r, t, n) : w = Collected(of(r, l, n))
    <3> HIDE DEF of
    <3>1. QED
      BY <2>3
  <2>5. of(r, l, n).file = file
    OBVIOUS
  <2> HIDE DEF of
  <2>6. QED
    BY <2>4, <2>5
<1>2. CASE FileStop(v) # "none"
  <2>1. w.file = file /\ w.stop # "none"
    BY <1>1, <1>2 DEF Collected
  <2>2. QED
    BY <2>1
<1>3. CASE FileStop(v) = "none"
  <2>1. /\ w.file = v.file /\ w.pages = Allocated(v) /\ w.claims = ClaimsOf(v)
        /\ w.tables = v.tables /\ w.count = UserPages(v) + Cardinality(v.tables)
    BY <1>1, <1>3 DEF Collected
  <2>2. PagesReconcile(v)
    <3> DEFINE distinct == SectorsAreDistinct(v)
               inside == Allocated(v) \subseteq DbPages
               reconcile == PagesReconcile(v)
               kept == Cardinality(Allocated(v)) > MaxRetained
    <3>1. FileStop(v) = (IF v.stop # "none" THEN v.stop
                         ELSE IF ~distinct THEN "file.table.sector_unique"
                         ELSE IF ~inside THEN "file.table.page_range"
                         ELSE IF ~reconcile THEN "file.table.page_reconciliation"
                         ELSE IF kept THEN "resource-limit" ELSE "none")
      BY Zenon DEF FileStop
    <3>2. reconcile
      <4> HIDE DEF distinct, inside, reconcile, kept
      <4>1. QED
        BY <1>3, <3>1
    <3>3. QED
      BY <3>2
  <2>3. Reconciled(w)
    BY <2>1, <2>2, AllocatedIsClaimed DEF Reconciled, PagesReconcile
  <2>4. QED
    BY <1>1, <2>1, <2>3
<1>4. QED
  BY <1>2, <1>3

\* One file more: its pages, its header and its claims come together.
LEMMA StoryGrows ==
    ASSUME NEW g, SameStory(g), NEW w, Reconciled(w), w.file \notin DOMAIN g.header,
           w.pages \cap DOMAIN g.owner = {}, NEW class, NEW h,
           h.header = With(g.header, {w.file}, HeaderFact(w, class)),
           h.owner = With(g.owner, w.pages, w.file),
           h.claims = g.claims \cup w.claims
    PROVE  SameStory(h)
<1>1. /\ DOMAIN h.header = DOMAIN g.header \cup {w.file}
      /\ h.header[w.file] = HeaderFact(w, class)
      /\ \A f \in DOMAIN g.header : h.header[f] = g.header[f]
  BY DEF With
<1>2. /\ DOMAIN h.owner = DOMAIN g.owner \cup w.pages
      /\ \A p \in w.pages : h.owner[p] = w.file
      /\ \A p \in DOMAIN g.owner : h.owner[p] = g.owner[p]
  BY DEF With
<1>3. /\ \A p \in DOMAIN g.owner : g.owner[p] # w.file
      /\ \A c \in g.claims : c.file # w.file
  BY DEF SameStory
<1>4. Owned(h, w.file) = w.pages /\ ClaimsBy(h, w.file) = w.claims
  BY <1>2, <1>3 DEF Owned, ClaimsBy, Reconciled
<1>5. ASSUME NEW f \in DOMAIN g.header
      PROVE  Owned(h, f) = Owned(g, f) /\ ClaimsBy(h, f) = ClaimsBy(g, f)
  <2>1. f # w.file
    OBVIOUS
  <2>2. Owned(h, f) = Owned(g, f)
    BY <1>2, <2>1 DEF Owned
  <2>3. ClaimsBy(h, f) = ClaimsBy(g, f)
    BY <2>1 DEF ClaimsBy, Reconciled
  <2>4. QED
    BY <2>2, <2>3
<1>6. ASSUME NEW f \in DOMAIN h.header
      PROVE  /\ h.header[f].tables \subseteq Owned(h, f)
             /\ Cardinality(Owned(h, f)) = h.header[f].pages
             /\ Owned(h, f) = Claimed(ClaimsBy(h, f))
  <2>1. CASE f \in DOMAIN g.header
    BY <1>1, <1>5, <2>1 DEF SameStory
  <2>2. CASE f = w.file
    BY <1>1, <1>4, <2>2 DEF Reconciled, HeaderFact
  <2>3. QED
    BY <1>1, <2>1, <2>2
<1>7. \A p \in DOMAIN h.owner : h.owner[p] \in DOMAIN h.header
  BY <1>1, <1>2 DEF SameStory
<1>8. \A c \in h.claims : c.file \in DOMAIN h.header
  BY <1>1 DEF SameStory, Reconciled
<1>9. QED
  BY <1>6, <1>7, <1>8 DEF SameStory

LEMMA NothingIsAStory == SameStory(NothingFound)
BY DEF SameStory, NothingFound, Empty

\* Only the files, the owners and the claims matter to it.
LEMMA StoryIsKept ==
    ASSUME NEW g, SameStory(g), NEW h, DOMAIN h.header = DOMAIN g.header,
           \A f \in DOMAIN g.header : h.header[f] = g.header[f],
           h.owner = g.owner, h.claims = g.claims
    PROVE  SameStory(h)
<1>1. ASSUME NEW f PROVE Owned(h, f) = Owned(g, f) /\ ClaimsBy(h, f) = ClaimsBy(g, f)
  BY DEF Owned, ClaimsBy
<1>2. ASSUME NEW f \in DOMAIN h.header
      PROVE  /\ h.header[f].tables \subseteq Owned(h, f)
             /\ Cardinality(Owned(h, f)) = h.header[f].pages
             /\ Owned(h, f) = Claimed(ClaimsBy(h, f))
  BY <1>1 DEF SameStory
<1>3. /\ \A p \in DOMAIN h.owner : h.owner[p] \in DOMAIN h.header
      /\ \A c \in h.claims : c.file \in DOMAIN h.header
  BY DEF SameStory
<1>4. QED
  BY <1>2, <1>3 DEF SameStory

LEMMA EndKeeps ==
    ASSUME InventoryInv, ReadIsOver, SameStory(session'), DOMAIN session' = SessionFields,
           Complete(session')
    PROVE  InventoryInv'
<1>1. stage' = "outside" /\ unread' = {} /\ found' = NothingFound
  BY DEF ReadIsOver
<1>2. SameStory(found')
  BY <1>1, NothingIsAStory
<1>3. QED
  BY <1>1, <1>2 DEF InventoryInv

\* An end that leaves the files, the owners and the claims alone, and completes nothing.
LEMMA EndAsIs ==
    ASSUME InventoryInv, ReadIsOver, DOMAIN session' = SessionFields,
           DOMAIN session'.header = DOMAIN session.header,
           \A f \in DOMAIN session.header : session'.header[f] = session.header[f],
           session'.owner = session.owner, session'.claims = session.claims,
           session'.tracked = session.tracked, session'.names = session.names,
           session'.conflicts = session.conflicts,
           session'.inventory = "complete" => session.inventory = "complete"
    PROVE  InventoryInv'
<1>1. SameStory(session) /\ Complete(session)
  BY DEF InventoryInv
<1>2. SameStory(session')
  BY <1>1, StoryIsKept
<1>3. ClassesOf(session'.header) = ClassesOf(session.header)
  BY DEF ClassesOf
<1>4. Complete(session')
  BY <1>1, <1>3 DEF Complete
<1>5. QED
  BY <1>2, <1>4, EndKeeps

LEMMA OpenWithoutKeeps ==
    ASSUME InventoryInv, NEW reason, OpenWithout(reason)
    PROVE  InventoryInv'
<1>1. DOMAIN session = SessionFields /\ ReadIsOver
  BY DEF InventoryInv, OpenWithout
<1>2. session' = [session EXCEPT !.inventory = "partial", !.reason = reason]
  BY DEF OpenWithout
<1>3. /\ DOMAIN session' = SessionFields /\ session'.header = session.header
      /\ session'.owner = session.owner /\ session'.claims = session.claims
      /\ session'.tracked = session.tracked /\ session'.names = session.names
      /\ session'.conflicts = session.conflicts /\ session'.inventory = "partial"
  BY <1>1, <1>2 DEF SessionFields
<1>4. QED
  BY <1>1, <1>3, EndAsIs

LEMMA RejectKeeps ==
    ASSUME InventoryInv, NEW page, page \notin DOMAIN session.header, RejectPage(page)
    PROVE  InventoryInv'
<1>1. DOMAIN session = SessionFields /\ ReadIsOver
  BY DEF InventoryInv, RejectPage
<1>2. session' = [session EXCEPT !.rejected = @ \cup {page},
                                 !.header = Restrict(@, (DOMAIN @) \ {page})]
  BY DEF RejectPage
<1>3. /\ DOMAIN session' = SessionFields
      /\ session'.header = Restrict(session.header, (DOMAIN session.header) \ {page})
      /\ session'.owner = session.owner /\ session'.claims = session.claims
      /\ session'.tracked = session.tracked /\ session'.names = session.names
      /\ session'.conflicts = session.conflicts /\ session'.inventory = session.inventory
  BY <1>1, <1>2 DEF SessionFields
<1>4. /\ DOMAIN session'.header = DOMAIN session.header
      /\ \A f \in DOMAIN session.header : session'.header[f] = session.header[f]
  BY <1>3 DEF Restrict
<1>5. QED
  BY <1>1, <1>3, <1>4, EndAsIs

LEMMA InvalidateSnapshotKeeps ==
    ASSUME InventoryInv, InvalidateSnapshot
    PROVE  InventoryInv'
<1>1. DOMAIN session = SessionFields /\ ReadIsOver
  BY DEF InventoryInv, InvalidateSnapshot
<1> DEFINE inventory == IF session.inventory = "unread" THEN "unlisted" ELSE session.inventory
<1>2. session' = [session EXCEPT !.valid = FALSE, !.inventory = inventory]
  BY DEF InvalidateSnapshot
<1>3. inventory = "complete" => session.inventory = "complete"
  OBVIOUS
<1> HIDE DEF inventory
<1>4. /\ DOMAIN session' = SessionFields /\ session'.header = session.header
      /\ session'.owner = session.owner /\ session'.claims = session.claims
      /\ session'.tracked = session.tracked /\ session'.names = session.names
      /\ session'.conflicts = session.conflicts /\ session'.inventory = inventory
  BY <1>1, <1>2 DEF SessionFields
<1>5. QED
  BY <1>1, <1>3, <1>4, EndAsIs

LEMMA FindTrackerKeeps ==
    ASSUME InventoryInv, NEW trackers \in SUBSET FileTables, FindTracker(trackers)
    PROVE  InventoryInv'
<1>1. stage = "outside" /\ found = NothingFound
  BY DEF InventoryInv, FindTracker, Unread
<1>2. \/ OpenWithout("structural")
      \/ stage' = "tracker" /\ unread' = trackers /\ UNCHANGED <<found, session>>
      \/ /\ session' = [session EXCEPT !.inventory = "unlisted", !.rejected = {Max(trackers)}]
         /\ ReadIsOver
  BY DEF FindTracker
<1>3. CASE stage' = "tracker" /\ unread' = trackers /\ UNCHANGED <<found, session>>
  <2>1. DOMAIN found'.header = {}
    BY <1>1, <1>3 DEF NothingFound, Empty
  <2>2. found' = found /\ session' = session
    BY <1>3
  <2>3. QED
    BY <1>1, <1>3, <2>1, <2>2 DEF InventoryInv
<1>4. CASE /\ session' = [session EXCEPT !.inventory = "unlisted", !.rejected = {Max(trackers)}]
           /\ ReadIsOver
  <2>1. DOMAIN session = SessionFields
    BY DEF InventoryInv
  <2>2. /\ DOMAIN session' = SessionFields /\ session'.header = session.header
        /\ session'.owner = session.owner /\ session'.claims = session.claims
        /\ session'.tracked = session.tracked /\ session'.names = session.names
        /\ session'.conflicts = session.conflicts /\ session'.inventory = "unlisted"
    BY <1>4, <2>1 DEF SessionFields
  <2>3. QED
    BY <1>4, <2>2, EndAsIs
<1>5. QED
  BY <1>2, <1>3, <1>4, OpenWithoutKeeps

LEMMA ReadTrackerKeeps ==
    ASSUME InventoryInv, ReadTracker
    PROVE  InventoryInv'
<1>1. found = NothingFound /\ unread \subseteq FileTables
  BY DEF InventoryInv, ReadTracker
<1>2. \/ \E reason : OpenWithout(reason)
      \/ \E items : /\ items \subseteq FileTables /\ stage' = "files" /\ unread' = unread \cup items
                    /\ UNCHANGED <<found, session>>
  <2>1. CASE \E reason \in OperationStops \cup {"structural"} : OpenWithout(reason)
    BY <2>1
  <2>2. ASSUME NEW first \in DbPages, NEW chain \in Chains(first), NEW items \in FewOf(DbPages),
               LET r == Walked(Reading(first), chain) IN
               IF r.stop \in OperationStops THEN OpenWithout(r.stop)
               ELSE IF r.stop # "none" \/ items \cap unread # {} \/ ~(items \subseteq FileTables)
               THEN OpenWithout("structural")
               ELSE /\ stage' = "files" /\ unread' = unread \cup items
                    /\ UNCHANGED <<found, session>>
        PROVE  \/ \E reason : OpenWithout(reason)
               \/ /\ items \subseteq FileTables /\ stage' = "files" /\ unread' = unread \cup items
                  /\ UNCHANGED <<found, session>>
    BY <2>2
  <2>3. QED
    BY <2>1, <2>2 DEF ReadTracker
<1>3. ASSUME NEW items, items \subseteq FileTables, stage' = "files", unread' = unread \cup items,
             UNCHANGED <<found, session>>
      PROVE  InventoryInv'
  <2>1. DOMAIN found'.header = {}
    BY <1>1, <1>3 DEF NothingFound, Empty
  <2>2. found' = found /\ session' = session
    BY <1>3
  <2>3. QED
    BY <1>1, <1>3, <2>1, <2>2 DEF InventoryInv
<1>4. QED
  BY <1>2, <1>3, OpenWithoutKeeps

LEMMA ReadFileKeeps ==
    ASSUME InventoryInv, ReadFile
    PROVE  InventoryInv'
<1> DEFINE file == Min(unread)
<1>1. file \in unread /\ file \in FileTables
  <2>1. unread \in SUBSET Nat /\ unread # {} /\ unread \subseteq FileTables
    BY InventoryAssumption DEF InventoryInv, ReadFile
  <2>2. QED
    BY <2>1, LeastExists
<1>2. \/ \E reason \in OperationStops \cup {"structural"} : OpenWithout(reason)
      \/ \E w \in CollectedFiles[file] : KeepFile(w)
  BY DEF ReadFile
<1>3. file \notin DOMAIN found.header /\ stage = "files"
  BY <1>1 DEF InventoryInv, ReadFile
<1> HIDE DEF file
<1>4. ASSUME NEW w \in CollectedFiles[file], KeepFile(w) PROVE InventoryInv'
  <2>1. CASE \E reason : OpenWithout(reason)
    BY <2>1, OpenWithoutKeeps
  <2>2. CASE ~ \E reason : OpenWithout(reason)
    <3>1. /\ w.stop = "none" /\ w.pages \cap DOMAIN found.owner = {}
          /\ \E class \in Classes \cup {NoClass} :
               found' = [header |-> With(found.header, {w.file}, HeaderFact(w, class)),
                         owner |-> With(found.owner, w.pages, w.file),
                         claims |-> found.claims \cup w.claims]
          /\ unread' = unread \ {w.file}
          /\ UNCHANGED <<stage, session>>
      BY <1>4, <2>2 DEF KeepFile
    <3>2. w.file = file /\ Reconciled(w)
      BY <1>1, <3>1, CollectedIsReconciled
    <3>3. PICK class \in Classes \cup {NoClass} :
               found' = [header |-> With(found.header, {w.file}, HeaderFact(w, class)),
                         owner |-> With(found.owner, w.pages, w.file),
                         claims |-> found.claims \cup w.claims]
      BY <3>1
    <3>4. /\ found'.header = With(found.header, {w.file}, HeaderFact(w, class))
          /\ found'.owner = With(found.owner, w.pages, w.file)
          /\ found'.claims = found.claims \cup w.claims
      BY <3>3
    <3>5. SameStory(found')
      BY <1>3, <3>1, <3>2, <3>4, StoryGrows DEF InventoryInv
    <3>6. DOMAIN found'.header = DOMAIN found.header \cup {file}
      BY <3>2, <3>4 DEF With
    <3>7. unread' \subseteq FileTables /\ unread' \cap DOMAIN found'.header = {}
      BY <3>1, <3>2, <3>6 DEF InventoryInv
    <3>8. stage' = "files" /\ session' = session
      BY <1>3, <3>1
    <3>9. QED
      BY <3>5, <3>7, <3>8 DEF InventoryInv
  <2>3. QED
    BY <2>1, <2>2
<1>5. QED
  BY <1>2, <1>4, OpenWithoutKeeps

LEMMA PublishInventoryKeeps ==
    ASSUME InventoryInv, PublishInventory
    PROVE  InventoryInv'
<1>1. CASE \E reason : OpenWithout(reason)
  BY <1>1, OpenWithoutKeeps
<1>2. CASE InvalidateSnapshot
  BY <1>2, InvalidateSnapshotKeeps
<1>3. ASSUME NEW names \in [ClassesOf(found.header) -> {"resolved", "unresolved"}],
             session' = [session EXCEPT
                 !.inventory = "complete", !.tracked = DOMAIN found.header,
                 !.header = found.header, !.owner = found.owner, !.claims = found.claims,
                 !.names = names, !.conflicts = Conflicts(found.claims)],
             ReadIsOver
      PROVE  InventoryInv'
  <2>1. DOMAIN session = SessionFields /\ SameStory(found)
    BY DEF InventoryInv
  <2>2. /\ DOMAIN session' = SessionFields /\ session'.header = found.header
        /\ session'.owner = found.owner /\ session'.claims = found.claims
        /\ session'.tracked = DOMAIN found.header /\ session'.names = names
        /\ session'.conflicts = Conflicts(found.claims)
    BY <1>3, <2>1 DEF SessionFields
  <2>3. SameStory(session')
    BY <2>1, <2>2, StoryIsKept
  <2>4. Complete(session')
    BY <2>2 DEF Complete
  <2>5. QED
    BY <1>3, <2>2, <2>3, <2>4, EndKeeps
<1>4. QED
  BY <1>1, <1>2, <1>3 DEF PublishInventory

LEMMA PublishFileKeeps ==
    ASSUME InventoryInv, NEW w, Reconciled(w), w.file \notin DOMAIN session.header, PublishFile(w)
    PROVE  InventoryInv'
<1>1. DOMAIN session = SessionFields /\ SameStory(session)
  BY DEF InventoryInv
<1>2. \A p \in DOMAIN session.owner : session.owner[p] # w.file
  BY <1>1 DEF SameStory
<1>3. CASE RejectPage(w.file)
  BY <1>3, RejectKeeps
<1>4. CASE ~RejectPage(w.file)
  <2> DEFINE header == With(session.header, {w.file}, HeaderFact(w, NoClass))
             owner == With(session.owner, w.pages, w.file)
             claims == {c \in session.claims : c.file # w.file} \cup w.claims
  <2>1. /\ ReadIsOver
        /\ \A p \in w.pages \cap DOMAIN session.owner : session.owner[p] = w.file
        /\ session' = [session EXCEPT !.header = header, !.owner = owner, !.claims = claims,
                                      !.inventory = "partial", !.reason = "selective-enrichment"]
    BY <1>4 DEF PublishFile
  <2>2. w.pages \cap DOMAIN session.owner = {}
    BY <1>2, <2>1
  <2>3. claims = session.claims \cup w.claims
    BY <1>1 DEF SameStory
  <2> HIDE DEF header, owner, claims
  <2>4. /\ DOMAIN session' = SessionFields /\ session'.header = header /\ session'.owner = owner
        /\ session'.claims = claims /\ session'.inventory = "partial"
    BY <1>1, <2>1 DEF SessionFields
  <2>5. SameStory(session')
    BY <1>1, <2>2, <2>3, <2>4, StoryGrows DEF header, owner
  <2>6. Complete(session')
    BY <2>4 DEF Complete
  <2>7. QED
    BY <2>1, <2>4, <2>5, <2>6, EndKeeps
<1>5. QED
  BY <1>3, <1>4

LEMMA EnrichFileKeeps ==
    ASSUME InventoryInv, NEW file \in DbPages, EnrichFile(file)
    PROVE  InventoryInv'
<1>1. file \in FileTables /\ file \notin DOMAIN session.header
  BY DEF EnrichFile
<1>2. CASE InvalidateSnapshot
  BY <1>2, InvalidateSnapshotKeeps
<1>3. CASE RejectPage(file)
  BY <1>1, <1>3, RejectKeeps
<1>4. ASSUME NEW w \in CollectedFiles[file], FileRead(w) PROVE InventoryInv'
  <2>1. w.file = file /\ (w.stop = "none" => Reconciled(w))
    BY <1>1, CollectedIsReconciled
  <2>2. CASE UNCHANGED inventoryVars
    <3>1. stage' = stage /\ unread' = unread /\ found' = found /\ session' = session
      BY <2>2 DEF inventoryVars
    <3>2. QED
      BY <3>1 DEF InventoryInv
  <2>3. CASE RejectPage(w.file)
    BY <1>1, <2>1, <2>3, RejectKeeps
  <2>4. CASE w.stop = "none" /\ PublishFile(w)
    BY <1>1, <2>1, <2>4, PublishFileKeeps
  <2>5. QED
    BY <1>4, <2>2, <2>3, <2>4 DEF FileRead
<1>5. QED
  BY <1>2, <1>3, <1>4 DEF EnrichFile

\* What is known of the files, collected or published, is one story: a file comes with all its
\* pages and claims, or not at all (collect_file_allocations, publish_file).
THEOREM InventoryIsOneStory == InventorySpec => []InventoryInv
<1>1. InventoryInit => InventoryInv
  <2> SUFFICES ASSUME InventoryInit PROVE InventoryInv
    OBVIOUS
  <2>1. /\ stage = "outside" /\ unread = {} /\ found = NothingFound
        /\ DOMAIN session = SessionFields /\ session.header = NothingFound.header
        /\ session.owner = NothingFound.owner /\ session.claims = NothingFound.claims
        /\ session.inventory = "unread"
    BY DEF InventoryInit, NothingFound, SessionFields
  <2>2. SameStory(session)
    BY <2>1, NothingIsAStory, StoryIsKept
  <2>3. QED
    BY <2>1, <2>2, NothingIsAStory DEF InventoryInv, Complete
<1>2. ASSUME InventoryInv, [InventoryNext]_inventoryVars PROVE InventoryInv'
  <2>1. CASE ScanIncomplete
    BY <1>2, <2>1, OpenWithoutKeeps DEF ScanIncomplete
  <2>2. CASE NoFileTables
    <3>1. /\ session' = [session EXCEPT !.inventory = "empty"] /\ stage' = stage /\ unread' = unread
          /\ found' = found
      BY <2>2 DEF NoFileTables
    <3>2. DOMAIN session = SessionFields /\ SameStory(session)
      BY <1>2 DEF InventoryInv
    <3>3. /\ DOMAIN session' = SessionFields /\ session'.header = session.header
          /\ session'.owner = session.owner /\ session'.claims = session.claims
          /\ session'.inventory = "empty"
      BY <3>1, <3>2 DEF SessionFields
    <3>4. SameStory(session') /\ Complete(session')
      BY <3>2, <3>3, StoryIsKept DEF Complete
    <3>5. QED
      BY <1>2, <3>1, <3>3, <3>4 DEF InventoryInv
  <2>3. CASE UNCHANGED inventoryVars
    <3>1. stage' = stage /\ unread' = unread /\ found' = found /\ session' = session
      BY <2>3 DEF inventoryVars
    <3>2. QED
      BY <1>2, <3>1 DEF InventoryInv
  <2>4. QED
    BY <1>2, <2>1, <2>2, <2>3, FindTrackerKeeps, ReadTrackerKeeps, ReadFileKeeps,
       PublishInventoryKeeps, EnrichFileKeeps DEF InventoryNext
<1>3. QED
  BY <1>1, <1>2, PTL DEF InventorySpec

\* Tables, ownership and claims agree in every snapshot, and a complete inventory is one
\* (collect_file_allocations, publish_file).
THEOREM OwnershipIsClaimed == InventorySpec => []OwnershipIsWhatIsClaimed
<1>1. InventoryInv => OwnershipIsWhatIsClaimed
  <2> SUFFICES ASSUME InventoryInv PROVE OwnershipIsWhatIsClaimed
    OBVIOUS
  <2>1. SameStory(session) /\ Complete(session)
    BY DEF InventoryInv
  <2>2. ASSUME NEW f \in DOMAIN session.header
        PROVE  /\ session.header[f].tables \subseteq OwnedBy(f)
               /\ Cardinality(OwnedBy(f)) = session.header[f].pages
               /\ OwnedBy(f) = UNION {ClaimedBits(c) : c \in {d \in session.claims : d.file = f}}
    <3>1. OwnedBy(f) = Owned(session, f)
      BY DEF OwnedBy, Owned
    <3>2. UNION {ClaimedBits(c) : c \in {d \in session.claims : d.file = f}} = Claimed(ClaimsBy(session, f))
      BY DEF Claimed, ClaimsBy
    <3>3. QED
      BY <2>1, <3>1, <3>2 DEF SameStory
  <2>3. {session.owner[p] : p \in DOMAIN session.owner} \subseteq DOMAIN session.header
    BY <2>1 DEF SameStory
  <2>4. QED
    BY <2>1, <2>2, <2>3 DEF OwnershipIsWhatIsClaimed, Complete
<1>2. QED
  BY <1>1, InventoryIsOneStory, PTL

-----------------------------------------------------------------------------------
(* Records keep their grounds. *)

PartNames == {"page", "slot", "relocation", "records", "target", "named", "class"}

\* What is said of a record, apart from how it was reached, if it is read as it was scanned.
SaidAtScan(r, class) ==
    LET rep == IF Readable(0, r) THEN SlotAt(0, r).rep ELSE 0 IN
    [class |-> class, rep |-> rep,
     reason |-> IF ~Readable(0, r) THEN "unreadable"
                ELSE IF ~Describes(0, class, rep) THEN "representation" ELSE SlotAt(0, r).fault]

Says(e, said) == e.class = said.class /\ e.rep = said.rep /\ e.reason = said.reason

\* A record of the scan that may be interpreted, under a class its sector names.
Interpretable(r, class) ==
    /\ HasSlot(0, r) /\ SlotAt(0, r).kind \in {"home", "newhome"}
    /\ Disk[0][r[1]].type = "heap" /\ class \in ClassesNamed(SectorOf(r[1]))

IsEvidence(e) == e = [class |-> e.class, rep |-> e.rep, from |-> e.from, reason |-> e.reason]

GraphShape(g) ==
    /\ g = [deep |-> g.deep, edges |-> g.edges, records |-> g.records, resolved |-> g.resolved,
            nameless |-> g.nameless, sectors |-> g.sectors, failures |-> g.failures,
            valid |-> g.valid]
    /\ \A r \in DOMAIN g.records : IsEvidence(g.records[r])

\* The grounds of a record that do not depend on the input.
Supported(g) ==
    \A r \in DOMAIN g.records :
      LET e == g.records[r] IN
      /\ e.reason = "none" => <<e.class, e.rep>> \in g.resolved
      /\ e.from # NoRecord => ValidTarget(g, e.from) /\ g.edges[e.from].target = r

\* In a session that does not follow its input everything known is of the scan, and no class is
\* noted of a sector that does not name it before the input is seen to have changed.
OfScan(g, v) ==
    /\ \A key \in g.resolved : Describes(0, key[1], key[2])
    /\ \A r \in DOMAIN g.edges :
         g.edges[r].valid => HasSlot(0, g.edges[r].target) /\ SlotAt(0, g.edges[r].target).kind = "newhome"
    /\ \A r \in DOMAIN g.records :
         /\ Interpretable(r, g.records[r].class)
         /\ Says(g.records[r], SaidAtScan(r, g.records[r].class))
    /\ v = 0 => \A s \in DOMAIN g.sectors : g.sectors[s] \in ClassesNamed(s)

Good(g, v, follows) == GraphShape(g) /\ Supported(g) /\ (~follows => OfScan(g, v))

\* What a later graph has of an earlier one.
Remembers(g, h, follows) ==
    /\ g.resolved \subseteq h.resolved
    /\ \A r \in DOMAIN g.edges : r \in DOMAIN h.edges /\ h.edges[r] = g.edges[r]
    /\ \A r \in DOMAIN g.records :
         /\ r \in DOMAIN h.records
         /\ g.records[r].from # NoRecord => h.records[r].from # NoRecord
         /\ ~follows /\ OneClass(SectorOf(r[1])) => Says(h.records[r], g.records[r])

\* The inductive invariant: what the session knows is good, and what a request has made of it
\* is, and remembers what the session knew.
RecordInv ==
    /\ version \in DOMAIN Disk /\ following \in BOOLEAN
    /\ request.parts \in Seq(PartNames)
    /\ request = [parts |-> request.parts, record |-> request.record, limit |-> request.limit,
                  view |-> request.view]
    /\ Good(graph, version, following) /\ Good(request.view, version, following)
    /\ request.parts = <<>> => request.view = NoGraph
    /\ request.parts # <<>> => Remembers(graph, request.view, following)

LEMMA GoodIsGrounded ==
    ASSUME NEW g, NEW v, Good(g, v, following)
    PROVE  Grounded(g)
  BY DEF Good, GraphShape, Supported, OfScan, Interpretable, Grounded

LEMMA RemembersKeepsGrounds ==
    ASSUME NEW g, NEW h, NEW v, NEW w, Good(g, v, following), Good(h, w, following),
           Remembers(g, h, following)
    PROVE  KeepsGrounds(g, h)
<1>1. Grounded(h)
  BY GoodIsGrounded
<1>2. ASSUME NEW r \in DOMAIN g.records, ~following, OneClass(SectorOf(r[1]))
      PROVE [h.records[r] EXCEPT !.from = g.records[r].from] = g.records[r]
  <2>1. /\ r \in DOMAIN h.records /\ Says(h.records[r], g.records[r])
        /\ IsEvidence(g.records[r]) /\ IsEvidence(h.records[r])
    BY <1>2 DEF Remembers, Good, GraphShape
  <2> DEFINE e == g.records[r] f == h.records[r]
  <2>2. [f EXCEPT !.from = e.from] = [class |-> f.class, rep |-> f.rep, from |-> e.from, reason |-> f.reason]
    BY <2>1 DEF IsEvidence
  <2>3. QED
    BY <2>1, <2>2 DEF IsEvidence, Says
<1>3. QED
  BY <1>1, <1>2 DEF Remembers, KeepsGrounds

LEMMA RemembersItself ==
    ASSUME NEW g, NEW follows
    PROVE  Remembers(g, g, follows)
  BY DEF Remembers, Says

LEMMA RemembersOnward ==
    ASSUME NEW g, NEW h, NEW i, NEW follows, Remembers(g, h, follows), Remembers(h, i, follows)
    PROVE  Remembers(g, i, follows)
  BY DEF Remembers, Says

LEMMA NothingIsGood ==
    ASSUME NEW v, NEW follows
    PROVE  Good(NoGraph, v, follows)
  BY DEF Good, NoGraph, GraphShape, Supported, OfScan

LEMMA NothingIsRemembered ==
    ASSUME NEW g, NEW follows
    PROVE  Remembers(NoGraph, g, follows)
  BY DEF Remembers, NoGraph

\* What has been learnt of the input stays so as it changes.
LEMMA GoodStays ==
    ASSUME NEW v \in Nat, NEW w \in Nat, v <= w, NEW g, NEW follows, Good(g, v, follows)
    PROVE  Good(g, w, follows)
  BY DEF Good, OfScan

-----------------------------------------------------------------------------------
(* Publication of an interpretation. *)

\* What a batch must be for its publication to keep grounds.
Sound(g, reps, batch) ==
    /\ \A b \in batch : b.reason = "none" => <<b.class, b.rep>> \in reps
    /\ \A b \in batch : b.from # NoRecord => ValidTarget(g, b.from) /\ g.edges[b.from].target = b.record
    /\ ~following =>
         /\ \A key \in reps : Describes(0, key[1], key[2])
         /\ \A b \in batch : Interpretable(b.record, b.class) /\ Says(b, SaidAtScan(b.record, b.class))

LEMMA PublishedGraph ==
    ASSUME NEW g, GraphShape(g), NEW v, NEW p, NEW reps, NEW batch, NEW class, NEW reason
    PROVE  LET h == PublishInterpretation(g, v, p, reps, batch, class, reason) IN
           /\ h.edges = g.edges
           /\ h.records = RecordsAfter(g, batch)
           /\ h.resolved = g.resolved \cup reps
           /\ h.sectors = Over(IF class = NoRecord THEN <<>> ELSE Only(SectorOf(p), class), g.sectors)
           /\ h = [deep |-> h.deep, edges |-> h.edges, records |-> h.records, resolved |-> h.resolved,
                   nameless |-> h.nameless, sectors |-> h.sectors, failures |-> h.failures,
                   valid |-> h.valid]
<1> DEFINE h == PublishInterpretation(g, v, p, reps, batch, class, reason)
<1>1. PICK d, e, r, s, n, t, f, w :
        g = [deep |-> d, edges |-> e, records |-> r, resolved |-> s, nameless |-> n, sectors |-> t,
             failures |-> f, valid |-> w]
  BY DEF GraphShape
<1>2. PICK R, F, N, S :
        /\ R = RecordsAfter(g, batch)
        /\ S = Over(IF class = NoRecord THEN <<>> ELSE Only(SectorOf(p), class), g.sectors)
        /\ h = [g EXCEPT !.records = R, !.resolved = @ \cup reps, !.nameless = N, !.sectors = S,
                         !.failures = F]
  BY Zenon DEF PublishInterpretation
<1> HIDE DEF h
<1>3. h = [deep |-> d, edges |-> e, records |-> R, resolved |-> s \cup reps, nameless |-> N,
           sectors |-> S, failures |-> F, valid |-> w]
  <2>1. h = [[deep |-> d, edges |-> e, records |-> r, resolved |-> s, nameless |-> n, sectors |-> t,
              failures |-> f, valid |-> w]
               EXCEPT !.records = R, !.resolved = @ \cup reps, !.nameless = N, !.sectors = S,
                      !.failures = F]
    BY <1>1, <1>2
  <2>2. QED
    BY <2>1
<1>4. QED
  BY <1>1, <1>2, <1>3 DEF h

LEMMA RecordAfter ==
    ASSUME NEW g, NEW batch, NEW r \in DOMAIN RecordsAfter(g, batch)
    PROVE  \/ \E b \in SaidAnew(g, batch) : b.record = r /\ RecordsAfter(g, batch)[r] = Evidence(b)
           \/ r \in DOMAIN g.records /\ RecordsAfter(g, batch)[r] = g.records[r]
<1> DEFINE said == {b.record : b \in SaidAnew(g, batch)}
           new == [s \in said |-> Evidence(CHOOSE b \in SaidAnew(g, batch) : b.record = s)]
<1>1. RecordsAfter(g, batch) = Over(new, g.records)
  BY DEF RecordsAfter
<1>2. DOMAIN new = said
  OBVIOUS
<1>3. CASE r \in said
  <2>1. PICK b : b = CHOOSE c \in SaidAnew(g, batch) : c.record = r
    OBVIOUS
  <2>2. b \in SaidAnew(g, batch) /\ b.record = r
    BY <1>3, <2>1, Zenon
  <2>3. new[r] = Evidence(b)
    BY <1>3, <2>1
  <2> HIDE DEF new, said
  <2>4. RecordsAfter(g, batch)[r] = new[r]
    BY <1>1, <1>2, <1>3 DEF Over
  <2>5. QED
    BY <2>2, <2>3, <2>4
<1>4. CASE r \notin said
  <2> HIDE DEF new, said
  <2>1. QED
    BY <1>1, <1>2, <1>4 DEF Over
<1>5. QED
  BY <1>3, <1>4

LEMMA RecordsStay ==
    ASSUME NEW g, NEW batch
    PROVE  DOMAIN g.records \subseteq DOMAIN RecordsAfter(g, batch)
  BY DEF RecordsAfter, Over

LEMMA PublicationKeeps ==
    ASSUME NEW g, NEW v \in Nat, NEW w \in Nat, v <= w, Good(g, v, following),
           NEW u, NEW p, NEW reps, NEW batch, NEW class, NEW reason, Sound(g, reps, batch),
           ~following /\ w = 0 => class \in {NoRecord} \cup ClassesNamed(SectorOf(p)),
           NEW h, h = PublishInterpretation(g, u, p, reps, batch, class, reason)
    PROVE  Good(h, w, following) /\ Remembers(g, h, following)
<1>1. /\ h.edges = g.edges
      /\ h.records = RecordsAfter(g, batch)
      /\ h.resolved = g.resolved \cup reps
      /\ h.sectors = Over(IF class = NoRecord THEN <<>> ELSE Only(SectorOf(p), class), g.sectors)
      /\ h = [deep |-> h.deep, edges |-> h.edges, records |-> h.records, resolved |-> h.resolved,
              nameless |-> h.nameless, sectors |-> h.sectors, failures |-> h.failures,
              valid |-> h.valid]
  BY PublishedGraph DEF Good
<1>2. ASSUME NEW r \in DOMAIN h.records
      PROVE  \/ \E b \in batch : /\ b.record = r /\ h.records[r] = Evidence(b)
                                 /\ \/ b.from # NoRecord
                                    \/ r \notin DOMAIN g.records \/ g.records[r].from = NoRecord
             \/ r \in DOMAIN g.records /\ h.records[r] = g.records[r]
  BY <1>1, <1>2, RecordAfter DEF SaidAnew
<1>3. GraphShape(h)
  BY <1>1, <1>2 DEF GraphShape, Evidence, IsEvidence, Good
<1>4. Supported(h)
  <2>1. ASSUME NEW r \in DOMAIN h.records
        PROVE  LET e == h.records[r] IN
               /\ e.reason = "none" => <<e.class, e.rep>> \in h.resolved
               /\ e.from # NoRecord => ValidTarget(h, e.from) /\ h.edges[e.from].target = r
    <3>1. CASE \E b \in batch : b.record = r /\ h.records[r] = Evidence(b)
      BY <1>1, <3>1 DEF Sound, Evidence, ValidTarget
    <3>2. CASE r \in DOMAIN g.records /\ h.records[r] = g.records[r]
      BY <1>1, <3>2 DEF Good, Supported, ValidTarget
    <3>3. QED
      BY <1>2, <2>1, <3>1, <3>2
  <2>2. QED
    BY <2>1 DEF Supported
<1>5. ASSUME ~following PROVE OfScan(h, w)
  <2>1. \A key \in h.resolved : Describes(0, key[1], key[2])
    BY <1>1, <1>5 DEF Good, OfScan, Sound
  <2>2. ASSUME NEW r \in DOMAIN h.records
        PROVE  /\ Interpretable(r, h.records[r].class)
               /\ Says(h.records[r], SaidAtScan(r, h.records[r].class))
    <3>1. CASE \E b \in batch : b.record = r /\ h.records[r] = Evidence(b)
      <4>1. PICK b \in batch : b.record = r /\ h.records[r] = Evidence(b)
        BY <3>1
      <4>2. h.records[r].class = b.class /\ Interpretable(r, b.class) /\ Says(b, SaidAtScan(r, b.class))
        BY <1>5, <4>1 DEF Sound, Evidence
      <4>3. QED
        BY <4>1, <4>2 DEF Says, Evidence
    <3>2. CASE r \in DOMAIN g.records /\ h.records[r] = g.records[r]
      BY <1>5, <3>2 DEF Good, OfScan
    <3>3. QED
      BY <1>2, <2>2, <3>1, <3>2
  <2>3. ASSUME w = 0, NEW s \in DOMAIN h.sectors PROVE h.sectors[s] \in ClassesNamed(s)
    <3>1. \A t \in DOMAIN g.sectors : g.sectors[t] \in ClassesNamed(t)
      BY <1>5, <2>3 DEF Good, OfScan
    <3>2. CASE class = NoRecord
      BY <1>1, <2>3, <3>1, <3>2 DEF Over
    <3>3. CASE class # NoRecord
      BY <1>1, <1>5, <2>3, <3>1, <3>3 DEF Over, Only
    <3>4. QED
      BY <3>2, <3>3
  <2>4. QED
    BY <1>1, <1>5, <2>1, <2>2, <2>3 DEF Good, OfScan
<1>6. Remembers(g, h, following)
  <2>1. ASSUME NEW r \in DOMAIN g.records
        PROVE  /\ r \in DOMAIN h.records
               /\ g.records[r].from # NoRecord => h.records[r].from # NoRecord
               /\ ~following /\ OneClass(SectorOf(r[1])) => Says(h.records[r], g.records[r])
    <3>1. r \in DOMAIN h.records
      BY <1>1, RecordsStay
    <3>2. g.records[r].from # NoRecord => h.records[r].from # NoRecord
      <4>1. CASE \E b \in batch : /\ b.record = r /\ h.records[r] = Evidence(b)
                                 /\ \/ b.from # NoRecord
                                    \/ r \notin DOMAIN g.records \/ g.records[r].from = NoRecord
        BY <2>1, <4>1 DEF Evidence
      <4>2. CASE h.records[r] = g.records[r]
        BY <4>2
      <4>3. QED
        BY <1>2, <3>1, <4>1, <4>2
    <3>3. ASSUME ~following, OneClass(SectorOf(r[1])) PROVE Says(h.records[r], g.records[r])
      <4>1. /\ Interpretable(r, h.records[r].class)
            /\ Says(h.records[r], SaidAtScan(r, h.records[r].class))
        BY <1>5, <3>1, <3>3 DEF OfScan
      <4>2. /\ Interpretable(r, g.records[r].class)
            /\ Says(g.records[r], SaidAtScan(r, g.records[r].class))
        BY <3>3 DEF Good, OfScan
      <4>3. h.records[r].class = g.records[r].class
        BY <3>3, <4>1, <4>2 DEF OneClass, Interpretable
      <4>4. QED
        BY <4>1, <4>2, <4>3 DEF Says
    <3>4. QED
      BY <3>1, <3>2, <3>3
  <2>2. QED
    BY <1>1, <2>1 DEF Remembers
<1>7. QED
  BY <1>3, <1>4, <1>5, <1>6 DEF Good

-----------------------------------------------------------------------------------
(* The parts of a request. *)

\* What a part may make of a good graph, when the input is last seen at version w.
Keeps(g, made, w) == made.ok => Good(made.graph, w, following) /\ Remembers(g, made.graph, following)

LEMMA ClassIsNamed ==
    ASSUME NEW g, NEW p, Good(g, 0, following), ~following, ClassOf(g, 0, p).reason = "none"
    PROVE  ClassOf(g, 0, p).class \in ClassesNamed(SectorOf(p))
<1>1. CASE SectorOf(p) \in DOMAIN g.sectors
  BY <1>1 DEF ClassOf, Good, OfScan
<1>2. CASE SectorOf(p) \notin DOMAIN g.sectors
  <2>1. Opens(0, p) /\ Disk[0][p].type = "heap" /\ Disk[0][p].class # NoRecord
        /\ ClassOf(g, 0, p).class = Disk[0][p].class
    BY <1>2 DEF ClassOf
  <2>2. p \in DiskPages
    BY <2>1 DEF Opens
  <2>3. QED
    BY <2>1, <2>2 DEF ClassesNamed
<1>3. QED
  BY <1>1, <1>2

LEMMA InterpretationIsSound ==
    ASSUME NEW g, Good(g, 0, following), NEW class, NEW r, NEW from, NEW i, ~following,
           Interpretable(r, class)
    PROVE  LET b == Interpret(g, 0, class, r, from, i) IN
           /\ b.record = r /\ b.class = class /\ b.from = from
           /\ Says(b, SaidAtScan(r, class))
           /\ b.reason \notin {"unreadable", "representation"} => Describes(0, b.class, b.rep)
<1> DEFINE rep == IF Readable(0, r) THEN SlotAt(0, r).rep ELSE 0
           b == Interpret(g, 0, class, r, from, i)
<1>1. Represented(g, 0, class, rep) <=> Describes(0, class, rep)
  <2>1. <<class, rep>> \in g.resolved => Describes(0, <<class, rep>>[1], <<class, rep>>[2])
    BY DEF Good, OfScan
  <2>2. QED
    BY <2>1 DEF Represented
<1>2. b = [record |-> r, from |-> from, slot |-> i, class |-> class, rep |-> rep,
           reason |-> IF ~Readable(0, r) THEN "unreadable"
                      ELSE IF ~Describes(0, class, rep) THEN "representation"
                      ELSE SlotAt(0, r).fault]
  BY <1>1 DEF Interpret
<1> HIDE DEF rep, b
<1>3. SaidAtScan(r, class) =
        [class |-> class, rep |-> rep,
         reason |-> IF ~Readable(0, r) THEN "unreadable"
                    ELSE IF ~Describes(0, class, rep) THEN "representation" ELSE SlotAt(0, r).fault]
  BY DEF SaidAtScan, rep
<1>4. QED
  BY <1>2, <1>3 DEF Says, b

LEMMA InterpretedIsSound ==
    ASSUME NEW g, NEW v \in Nat, NEW w \in Nat, NEW p \in DiskPages, NEW u \in Nat,
           Good(g, u, following), ~following => u = 0 /\ v = 0 /\ w = 0,
           Disk[w][p].type = "heap", ClassOf(g, v, p).reason = "none"
    PROVE  LET batch == Interpreted(g, w, p, ClassOf(g, v, p).class) IN
           Sound(g, Representations(batch), batch)
<1> DEFINE class == ClassOf(g, v, p).class
           batch == Interpreted(g, w, p, class)
           home == {j \in DOMAIN Disk[w][p].slots : SlotAt(w, <<p, j>>).kind \in {"home", "newhome"}}
           Edge(i) == g.edges[<<p, i>>]
           ClassAt(i) == ClassOf(g, w, Edge(i).target[1]).class
<1>1. ASSUME NEW b \in batch
      PROVE  \/ \E i \in home : b = Interpret(g, w, class, <<p, i>>, NoRecord, i)
             \/ \E i \in Reached(g, w, p) :
                  b = Interpret(g, w, ClassAt(i), Edge(i).target, <<p, i>>, i)
  BY <1>1 DEF Interpreted
<1>2. ASSUME NEW b \in batch, b.from # NoRecord
      PROVE  ValidTarget(g, b.from) /\ g.edges[b.from].target = b.record
  <2>1. \A i \in home : Interpret(g, w, class, <<p, i>>, NoRecord, i).from = NoRecord
    BY DEF Interpret
  <2> HIDE DEF class, home, ClassAt, Edge
  <2>2. \E i \in Reached(g, w, p) : b = Interpret(g, w, ClassAt(i), Edge(i).target, <<p, i>>, i)
    BY <1>1, <1>2, <2>1
  <2>3. PICK i \in Reached(g, w, p) : b = Interpret(g, w, ClassAt(i), Edge(i).target, <<p, i>>, i)
    BY <2>2
  <2>4. b.from = <<p, i>> /\ b.record = g.edges[<<p, i>>].target
    BY <2>3 DEF Interpret, Edge
  <2>5. ValidTarget(g, <<p, i>>)
    BY DEF Reached
  <2>6. QED
    BY <2>4, <2>5
<1>3. ASSUME ~following, NEW b \in batch
      PROVE  /\ Interpretable(b.record, b.class) /\ Says(b, SaidAtScan(b.record, b.class))
             /\ b.reason \notin {"unreadable", "representation"} => Describes(0, b.class, b.rep)
  <2>1. CASE \E i \in home : b = Interpret(g, w, class, <<p, i>>, NoRecord, i)
    <3>1. PICK i \in home : b = Interpret(g, w, class, <<p, i>>, NoRecord, i)
      BY <2>1
    <3>2. Interpretable(<<p, i>>, class)
      <4>1. class \in ClassesNamed(SectorOf(p))
        BY <1>3, ClassIsNamed
      <4>2. HasSlot(0, <<p, i>>) /\ SlotAt(0, <<p, i>>).kind \in {"home", "newhome"}
        BY <1>3 DEF HasSlot
      <4>3. QED
        BY <1>3, <4>1, <4>2 DEF Interpretable
    <3>3. w = 0 /\ u = 0
      BY <1>3
    <3> HIDE DEF class
    <3>4. QED
      BY <1>3, <3>1, <3>2, <3>3, InterpretationIsSound
  <2>2. CASE \E i \in Reached(g, w, p) :
               b = Interpret(g, w, ClassAt(i), Edge(i).target, <<p, i>>, i)
    <3>1. PICK i \in Reached(g, w, p) :
                 b = Interpret(g, w, ClassAt(i), Edge(i).target, <<p, i>>, i)
      BY <2>2
    <3> DEFINE t == g.edges[<<p, i>>].target
    <3>2. w = 0 /\ u = 0
      BY <1>3
    <3>3. /\ <<p, i>> \in DOMAIN g.edges /\ g.edges[<<p, i>>].valid
          /\ ClassOf(g, 0, t[1]).reason = "none" /\ Disk[0][t[1]].type = "heap"
      BY <3>2 DEF Reached, ValidTarget
    <3>4. HasSlot(0, t) /\ SlotAt(0, t).kind = "newhome"
      BY <1>3, <3>3 DEF Good, OfScan
    <3>5. ClassAt(i) = ClassOf(g, 0, t[1]).class
      BY <3>2
    <3> HIDE DEF t
    <3>6. ClassAt(i) \in ClassesNamed(SectorOf(t[1]))
      BY <1>3, <3>2, <3>3, <3>5, ClassIsNamed
    <3>7. Interpretable(t, ClassAt(i))
      BY <3>3, <3>4, <3>6 DEF Interpretable
    <3>8. b = Interpret(g, 0, ClassAt(i), t, <<p, i>>, i)
      BY <3>1, <3>2 DEF t
    <3> HIDE DEF ClassAt
    <3>9. QED
      BY <1>3, <3>2, <3>7, <3>8, InterpretationIsSound
  <2>3. QED
    BY <1>1, <1>3, <2>1, <2>2
<1>4. ASSUME ~following, NEW key \in Representations(batch)
      PROVE  Describes(0, key[1], key[2])
  <2> HIDE DEF batch
  <2>1. PICK b \in batch : b.reason \notin {"unreadable", "representation"} /\ key = <<b.class, b.rep>>
    BY <1>4 DEF Representations
  <2>2. QED
    BY <1>3, <1>4, <2>1
<1>5. ASSUME NEW b \in batch, b.reason = "none" PROVE <<b.class, b.rep>> \in Representations(batch)
  BY <1>5 DEF Representations
<1> HIDE DEF batch
<1>6. Sound(g, Representations(batch), batch)
  BY <1>2, <1>3, <1>4, <1>5 DEF Sound
<1>7. QED
  BY <1>6 DEF batch, class

\* The input as a part sees it: never earlier than it was last seen.
InOrder(v, seen) ==
    /\ v \in Nat /\ seen \in [1 .. 3 -> DOMAIN Disk]
    /\ v <= seen[1] /\ seen[1] <= seen[2] /\ seen[2] <= seen[3]

LEMMA VersionsAreNumbers ==
    ASSUME NEW v, NEW seen, InOrder(v, seen)
    PROVE  /\ v \in Nat /\ seen[1] \in Nat /\ seen[2] \in Nat /\ seen[3] \in Nat /\ v <= seen[3]
           /\ v <= seen[1] /\ seen[1] <= seen[2] /\ seen[2] <= seen[3]
           /\ ~following /\ ~Changed(seen[3]) => v = 0 /\ seen[1] = 0 /\ seen[2] = 0 /\ seen[3] = 0
<1>1. v \in Nat /\ seen[1] \in Nat /\ seen[2] \in Nat /\ seen[3] \in Nat
  BY RecordAssumption DEF InOrder
<1>2. QED
  BY <1>1 DEF InOrder, Changed

LEMMA UntouchedKeeps ==
    ASSUME NEW g, NEW v, NEW seen, InOrder(v, seen), Good(g, v, following)
    PROVE  Keeps(g, Made(g), seen[3])
  BY VersionsAreNumbers, GoodStays, RemembersItself DEF Keeps, Made

LEMMA AbandonedKeeps ==
    ASSUME NEW g, NEW w
    PROVE  Keeps(g, Abandoned, w)
  BY DEF Keeps, Abandoned

\* A graph that differs in no map of records, edges, representations or sectors.
LEMMA AlikeKeeps ==
    ASSUME NEW g, NEW h, NEW v, NEW seen, InOrder(v, seen), Good(g, v, following), GraphShape(h),
           h.edges = g.edges, h.records = g.records, h.resolved = g.resolved, h.sectors = g.sectors
    PROVE  Keeps(g, Made(h), seen[3])
<1>1. Good(g, seen[3], following)
  BY VersionsAreNumbers, GoodStays
<1>2. Good(h, seen[3], following)
  BY <1>1 DEF Good, Supported, OfScan, ValidTarget
<1>3. Remembers(g, h, following)
  BY DEF Remembers, Says
<1>4. QED
  BY <1>2, <1>3 DEF Keeps, Made

LEMMA InvalidatedKeeps ==
    ASSUME NEW g, NEW v, NEW seen, InOrder(v, seen), Good(g, v, following)
    PROVE  Keeps(g, Invalidated(g), seen[3])
<1>0. PICK no : no = FALSE
  OBVIOUS
<1> DEFINE h == [g EXCEPT !.valid = no]
<1>1. PICK d, e, r, s, n, t, f, w :
        g = [deep |-> d, edges |-> e, records |-> r, resolved |-> s, nameless |-> n, sectors |-> t,
             failures |-> f, valid |-> w]
  BY DEF Good, GraphShape
<1>2. h = [deep |-> d, edges |-> e, records |-> r, resolved |-> s, nameless |-> n, sectors |-> t,
           failures |-> f, valid |-> no]
  BY <1>1
<1> HIDE DEF h
<1>3. GraphShape(h) /\ h.edges = g.edges /\ h.records = g.records /\ h.resolved = g.resolved
      /\ h.sectors = g.sectors
  BY <1>1, <1>2 DEF Good, GraphShape
<1>4. Keeps(g, Made(h), seen[3])
  BY <1>3, AlikeKeeps
<1>5. Invalidated(g) = Made(h)
  BY <1>0, Zenon DEF Invalidated, h
<1>6. QED
  BY <1>4, <1>5

LEMMA DeepKeeps ==
    ASSUME NEW g, NEW v, NEW seen, InOrder(v, seen), Good(g, v, following), NEW deep
    PROVE  Keeps(g, Made([g EXCEPT !.deep = deep]), seen[3])
<1> DEFINE h == [g EXCEPT !.deep = deep]
<1>1. PICK d, e, r, s, n, t, f, w :
        g = [deep |-> d, edges |-> e, records |-> r, resolved |-> s, nameless |-> n, sectors |-> t,
             failures |-> f, valid |-> w]
  BY DEF Good, GraphShape
<1>2. h = [deep |-> deep, edges |-> e, records |-> r, resolved |-> s, nameless |-> n, sectors |-> t,
           failures |-> f, valid |-> w]
  BY <1>1
<1> HIDE DEF h
<1>3. GraphShape(h) /\ h.edges = g.edges /\ h.records = g.records /\ h.resolved = g.resolved
      /\ h.sectors = g.sectors
  BY <1>1, <1>2 DEF Good, GraphShape
<1>4. Keeps(g, Made(h), seen[3])
  BY <1>3, AlikeKeeps
<1>5. QED
  BY <1>4 DEF h

LEMMA ReadPageKeeps ==
    ASSUME NEW g, NEW v, NEW seen, InOrder(v, seen), Good(g, v, following), NEW p, NEW limit
    PROVE  Keeps(g, ReadPage(g, p, limit, seen), seen[3])
<1>1. \/ ReadPage(g, p, limit, seen) \in {Invalidated(g), Abandoned}
      \/ \E deep : ReadPage(g, p, limit, seen) = Made([g EXCEPT !.deep = deep])
  BY DEF ReadPage
<1>2. QED
  BY <1>1, InvalidatedKeeps, AbandonedKeeps, DeepKeeps

\* An edge that is new, and of the scan if it is valid and the input is not followed.
LEMMA EdgeKeeps ==
    ASSUME NEW g, NEW v, NEW seen, InOrder(v, seen), Good(g, v, following),
           NEW r, r \notin DOMAIN g.edges, NEW target, NEW reason,
           ~following /\ reason = "none" =>
             HasSlot(0, target) /\ SlotAt(0, target).kind = "newhome"
    PROVE  Keeps(g, Made(PublishEdge(g, r, target, reason)), seen[3])
<1> DEFINE h == PublishEdge(g, r, target, reason)
           edge == [target |-> target, valid |-> reason = "none"]
           edges == Over(Only(r, edge), g.edges)
<1>1. PICK d, e, x, s, n, t, f, w :
        g = [deep |-> d, edges |-> e, records |-> x, resolved |-> s, nameless |-> n, sectors |-> t,
             failures |-> f, valid |-> w]
  BY DEF Good, GraphShape
<1>2. h = [g EXCEPT !.edges = edges]
  BY Zenon DEF PublishEdge
<1> HIDE DEF h, edges
<1>3. h = [deep |-> d, edges |-> edges, records |-> x, resolved |-> s, nameless |-> n,
           sectors |-> t, failures |-> f, valid |-> w]
  BY <1>1, <1>2
<1>4. GraphShape(h) /\ h.edges = edges /\ h.records = g.records /\ h.resolved = g.resolved
      /\ h.sectors = g.sectors
  BY <1>1, <1>3 DEF Good, GraphShape
<1>5. /\ DOMAIN edges = {r} \cup DOMAIN g.edges
      /\ edges[r] = edge
      /\ \A q \in DOMAIN g.edges : edges[q] = g.edges[q]
  BY DEF edges, Over, Only
<1>6. Good(g, seen[3], following)
  BY VersionsAreNumbers, GoodStays
<1>7. Supported(h)
  BY <1>4, <1>5 DEF Good, Supported, ValidTarget
<1>8. ASSUME ~following PROVE OfScan(h, seen[3])
  <2>1. ASSUME NEW q \in DOMAIN h.edges, h.edges[q].valid
        PROVE  HasSlot(0, h.edges[q].target) /\ SlotAt(0, h.edges[q].target).kind = "newhome"
    <3>1. CASE q = r
      <4>1. h.edges[q] = edge
        BY <1>4, <1>5, <3>1
      <4>2. edge.target = target /\ (edge.valid <=> reason = "none")
        OBVIOUS
      <4>3. QED
        BY <1>8, <2>1, <4>1, <4>2
    <3>2. CASE q # r
      BY <1>4, <1>5, <1>6, <1>8, <2>1, <3>2 DEF Good, OfScan
    <3>3. QED
      BY <3>1, <3>2
  <2>2. QED
    BY <1>4, <1>6, <1>8, <2>1 DEF Good, OfScan
<1>9. Remembers(g, h, following)
  BY <1>4, <1>5 DEF Remembers, Says
<1>10. QED
  BY <1>4, <1>7, <1>8, <1>9 DEF Keeps, Made, Good, h

LEMMA ValidatedTargets ==
    ASSUME NEW v, NEW source, NEW target, NEW limit, TargetRefusal(v, source, target, limit) = "none"
    PROVE  HasSlot(v, target) /\ SlotAt(v, target).kind = "newhome"
  BY DEF TargetRefusal

LEMMA ReadRelocationKeeps ==
    ASSUME NEW g, NEW v, NEW seen, InOrder(v, seen), Good(g, v, following), NEW r, NEW limit,
           NEW cancelled
    PROVE  Keeps(g, ReadRelocation(g, r, limit, cancelled, seen), seen[3])
<1> DEFINE made == ReadRelocation(g, r, limit, cancelled, seen)
           target == SlotAt(seen[2], r).link
<1>1. CASE r \in DOMAIN g.edges
  BY <1>1, UntouchedKeeps DEF ReadRelocation
<1>2. CASE r \notin DOMAIN g.edges
  <2>1. \/ made \in {Invalidated(g), Abandoned}
        \/ \E t, reason : reason # "none" /\ made = Made(PublishEdge(g, r, t, reason))
        \/ /\ ~Changed(seen[3]) /\ TargetRefusal(seen[3], r, target, limit) = "none"
           /\ made = Made(PublishEdge(g, r, target, "none"))
    BY <1>2 DEF ReadRelocation
  <2> HIDE DEF made, target
  <2>2. CASE made \in {Invalidated(g), Abandoned}
    BY <2>2, InvalidatedKeeps, AbandonedKeeps DEF made
  <2>3. CASE \E t, reason : reason # "none" /\ made = Made(PublishEdge(g, r, t, reason))
    <3>1. PICK t, reason : reason # "none" /\ made = Made(PublishEdge(g, r, t, reason))
      BY <2>3
    <3>2. Keeps(g, Made(PublishEdge(g, r, t, reason)), seen[3])
      BY <1>2, <3>1, EdgeKeeps
    <3>3. QED
      BY <3>1, <3>2 DEF made
  <2>4. CASE /\ ~Changed(seen[3]) /\ TargetRefusal(seen[3], r, target, limit) = "none"
             /\ made = Made(PublishEdge(g, r, target, "none"))
    <3>1. ~following => HasSlot(0, target) /\ SlotAt(0, target).kind = "newhome"
      BY <2>4, VersionsAreNumbers, ValidatedTargets
    <3>2. Keeps(g, Made(PublishEdge(g, r, target, "none")), seen[3])
      BY <1>2, <3>1, EdgeKeeps
    <3>3. QED
      BY <2>4, <3>2 DEF made
  <2>5. QED
    BY <2>1, <2>2, <2>3, <2>4
<1>3. QED
  BY <1>1, <1>2

LEMMA InterpretationKeeps ==
    ASSUME NEW g, NEW v, NEW seen, InOrder(v, seen), Good(g, v, following), NEW p, NEW reps,
           NEW batch, NEW class, NEW reason, Sound(g, reps, batch),
           ~following /\ seen[3] = 0 => class \in {NoRecord} \cup ClassesNamed(SectorOf(p))
    PROVE  Keeps(g, Made(PublishInterpretation(g, seen[3], p, reps, batch, class, reason)), seen[3])
<1> DEFINE h == PublishInterpretation(g, seen[3], p, reps, batch, class, reason)
<1>1. v \in Nat /\ seen[3] \in Nat /\ v <= seen[3]
  BY VersionsAreNumbers
<1>2. Good(h, seen[3], following) /\ Remembers(g, h, following)
  BY <1>1, PublicationKeeps
<1>3. QED
  BY <1>2 DEF Keeps, Made

LEMMA DegradationKeeps ==
    ASSUME NEW g, NEW v, NEW seen, InOrder(v, seen), Good(g, v, following), NEW p, NEW reason
    PROVE  Keeps(g, Made(Degrade(g, seen[3], p, reason)), seen[3])
<1>1. Sound(g, {}, {})
  BY DEF Sound
<1>2. QED
  BY <1>1, InterpretationKeeps DEF Degrade

LEMMA ReadRecordsKeeps ==
    ASSUME NEW g, NEW v, NEW seen, InOrder(v, seen), Good(g, v, following), NEW p, NEW limit
    PROVE  Keeps(g, ReadRecords(g, p, limit, seen), seen[3])
<1> DEFINE made == ReadRecords(g, p, limit, seen)
           owner == ClassOf(g, seen[2], p)
           batch == Interpreted(g, seen[3], p, owner.class)
           whole == PublishInterpretation(g, seen[3], p, Representations(batch), batch, owner.class, "none")
<1>1. \/ made \in {Invalidated(g), Abandoned, Made(g)}
      \/ \E reason : made = Made(Degrade(g, seen[3], p, reason))
      \/ /\ ~Changed(seen[3]) /\ owner.reason = "none" /\ Refusal(seen[3], p, limit) = "none"
         /\ Disk[seen[3]][p].type = "heap" /\ made = Made(whole)
  BY DEF ReadRecords
<1> HIDE DEF made
<1>2. CASE made \in {Invalidated(g), Abandoned, Made(g)}
  BY <1>2, InvalidatedKeeps, AbandonedKeeps, UntouchedKeeps DEF made
<1>3. CASE \E reason : made = Made(Degrade(g, seen[3], p, reason))
  BY <1>3, DegradationKeeps DEF made
<1>4. CASE /\ ~Changed(seen[3]) /\ owner.reason = "none" /\ Refusal(seen[3], p, limit) = "none"
           /\ Disk[seen[3]][p].type = "heap" /\ made = Made(whole)
  <2>1. p \in DiskPages
    BY <1>4 DEF Refusal
  <2>2. /\ v \in Nat /\ seen[2] \in Nat /\ seen[3] \in Nat
        /\ ~following => v = 0 /\ seen[2] = 0 /\ seen[3] = 0
    BY <1>4, VersionsAreNumbers
  <2>3. Sound(g, Representations(batch), batch)
    BY <1>4, <2>1, <2>2, InterpretedIsSound
  <2>4. ~following => owner.class \in ClassesNamed(SectorOf(p))
    BY <1>4, <2>2, ClassIsNamed
  <2> HIDE DEF batch, owner
  <2>5. Keeps(g, Made(whole), seen[3])
    BY <2>3, <2>4, InterpretationKeeps
  <2>6. QED
    BY <1>4, <2>5 DEF made
<1>5. QED
  BY <1>1, <1>2, <1>3, <1>4

LEMMA ReadClassKeeps ==
    ASSUME NEW g, NEW v, NEW seen, InOrder(v, seen), Good(g, v, following), NEW p, NEW limit
    PROVE  Keeps(g, ReadClass(g, p, limit, seen), seen[3])
<1> DEFINE made == ReadClass(g, p, limit, seen)
           owner == ClassOf(g, seen[2], p)
           current == SlotAt(seen[3], ClassRecord(seen[3], owner.class)).rep
           key == <<owner.class, current>>
           failed == PublishInterpretation(g, seen[3], p, {}, {}, owner.class, "class-record")
           whole == PublishInterpretation(g, seen[3], p, {key}, {}, owner.class, "none")
<1>1. \/ made \in {Invalidated(g), Abandoned, Made(g)}
      \/ \E reason : made = Made(Degrade(g, seen[3], p, reason))
      \/ owner.reason = "none" /\ made = Made(failed)
      \/ /\ owner.reason = "none" /\ ~Changed(seen[3]) /\ Describes(seen[3], owner.class, current)
         /\ made = Made(whole)
  BY DEF ReadClass
<1> HIDE DEF made
<1>2. CASE made \in {Invalidated(g), Abandoned, Made(g)}
  BY <1>2, InvalidatedKeeps, AbandonedKeeps, UntouchedKeeps DEF made
<1>3. CASE \E reason : made = Made(Degrade(g, seen[3], p, reason))
  BY <1>3, DegradationKeeps DEF made
<1>4. ASSUME ~following, seen[3] = 0, owner.reason = "none"
      PROVE owner.class \in {NoRecord} \cup ClassesNamed(SectorOf(p))
  <2>1. v = 0 /\ seen[2] = 0
    BY <1>4, VersionsAreNumbers DEF Changed
  <2>2. QED
    BY <1>4, <2>1, ClassIsNamed
<1>5. CASE owner.reason = "none" /\ made = Made(failed)
  <2>1. Sound(g, {}, {})
    BY DEF Sound
  <2> HIDE DEF owner
  <2>2. Keeps(g, Made(failed), seen[3])
    BY <1>4, <1>5, <2>1, InterpretationKeeps
  <2>3. QED
    BY <1>5, <2>2 DEF made
<1>6. CASE /\ owner.reason = "none" /\ ~Changed(seen[3]) /\ Describes(seen[3], owner.class, current)
           /\ made = Made(whole)
  <2>1. ~following => Describes(0, key[1], key[2])
    BY <1>6, VersionsAreNumbers
  <2> HIDE DEF owner, key
  <2>2. Sound(g, {key}, {})
    BY <2>1 DEF Sound
  <2>3. Keeps(g, Made(whole), seen[3])
    BY <1>4, <1>6, <2>2, InterpretationKeeps
  <2>4. QED
    BY <1>6, <2>3 DEF made
<1>7. QED
  BY <1>1, <1>2, <1>3, <1>5, <1>6

LEMMA PartKeeps ==
    ASSUME RecordInv, NEW part \in PartNames, NEW cancelled, NEW seen, InOrder(version, seen)
    PROVE  Keeps(request.view, Part(part, cancelled, seen), seen[3])
<1> DEFINE g == request.view
<1>1. Good(g, version, following)
  BY DEF RecordInv
<1>2. \/ Part(part, cancelled, seen) \in {Made(g), Abandoned}
      \/ \E p, limit : Part(part, cancelled, seen) = ReadPage(g, p, limit, seen)
      \/ \E r, limit : Part(part, cancelled, seen) = ReadRelocation(g, r, limit, cancelled, seen)
      \/ \E p, limit : Part(part, cancelled, seen) = ReadRecords(g, p, limit, seen)
      \/ \E p, limit : Part(part, cancelled, seen) = ReadClass(g, p, limit, seen)
  <2>1. CASE part = "page"
    BY <2>1 DEF Part
  <2>2. CASE part = "slot"
    BY <2>2 DEF Part
  <2>3. CASE part = "relocation"
    BY <2>3 DEF Part
  <2>4. CASE part = "records"
    BY <2>4 DEF Part
  <2>5. CASE part = "target"
    BY <2>5 DEF Part
  <2>6. CASE part = "named"
    BY <2>6 DEF Part
  <2>7. CASE part = "class"
    BY <2>7 DEF Part
  <2>8. QED
    BY <2>1, <2>2, <2>3, <2>4, <2>5, <2>6, <2>7 DEF PartNames
<1> HIDE DEF g
<1>3. QED
  BY <1>1, <1>2, UntouchedKeeps, AbandonedKeeps, ReadPageKeeps, ReadRelocationKeeps, ReadRecordsKeeps,
     ReadClassKeeps DEF g

-----------------------------------------------------------------------------------
(* Steps. *)

LEMMA RecordsStart == RecordsInit => RecordInv
<1> SUFFICES ASSUME RecordsInit PROVE RecordInv
  OBVIOUS
<1>1. request.parts \in Seq(PartNames) /\ request.view = NoGraph /\ graph = NoGraph
  BY DEF RecordsInit, NothingAsked
<1>2. version \in DOMAIN Disk /\ following \in BOOLEAN
  BY RecordAssumption DEF RecordsInit
<1>3. QED
  BY <1>1, <1>2, NothingIsGood DEF RecordsInit, NothingAsked, RecordInv

LEMMA AskKeepsRecordInv ==
    ASSUME RecordInv, NEW parts, parts \in Seq(PartNames), parts # <<>>, NEW r, NEW limit,
           Ask(parts, r, limit)
    PROVE  RecordInv' /\ KeepsGrounds(request.view, request'.view) /\ KeepsGrounds(graph, graph')
           /\ request'.parts # <<>>
<1>1. /\ request.parts = <<>> /\ request.view = NoGraph
      /\ request' = [parts |-> parts, record |-> r, limit |-> limit, view |-> graph]
      /\ graph' = graph /\ version' = version /\ following' = following
  BY DEF Ask, RecordInv
<1>2. Good(graph, version, following) /\ Good(NoGraph, version, following)
  BY NothingIsGood DEF RecordInv
<1>3. RecordInv'
  BY <1>1, <1>2, RemembersItself DEF RecordInv
<1>4. KeepsGrounds(NoGraph, graph) /\ KeepsGrounds(graph, graph)
  BY <1>2, NothingIsRemembered, RemembersItself, RemembersKeepsGrounds
<1>5. QED
  BY <1>1, <1>3, <1>4

\* What the property says of a step.
StepKeepsGrounds ==
    \/ request'.parts = <<>> /\ graph' = graph
    \/ /\ KeepsGrounds(request.view, IF request'.parts = <<>> THEN graph' ELSE request'.view)
       /\ KeepsGrounds(graph, graph')

LEMMA RunPartKeepsRecordInv ==
    ASSUME RecordInv, NEW cancelled, NEW seen \in Sightings, RunPart(cancelled, seen)
    PROVE  RecordInv' /\ StepKeepsGrounds
<1> DEFINE made == Part(Head(request.parts), cancelled, seen)
           w == seen[3]
<1>1. /\ request.parts # <<>> /\ Continue(made) /\ version' = w /\ following' = following
  BY DEF RunPart
<1>2. InOrder(version, seen) /\ version \in Nat /\ w \in DOMAIN Disk /\ w \in Nat /\ version <= w
  BY RecordAssumption, VersionsAreNumbers DEF Sightings, RecordInv, InOrder
<1>3. Keeps(request.view, made, w)
  <2>1. Head(request.parts) \in PartNames
    BY <1>1 DEF RecordInv
  <2>2. QED
    BY <1>2, <2>1, PartKeeps
<1> HIDE DEF made, w
<1>4. /\ Good(graph, w, following) /\ Good(request.view, w, following)
      /\ Good(graph, version, following) /\ Good(request.view, version, following)
      /\ Remembers(graph, request.view, following)
  BY <1>1, <1>2, GoodStays DEF RecordInv
<1>5. CASE ~made.ok
  <2>1. request' = NothingAsked /\ graph' = graph
    BY <1>1, <1>5 DEF Continue
  <2>2. RecordInv'
    BY <1>1, <1>2, <1>4, <2>1, NothingIsGood DEF RecordInv, NothingAsked
  <2>3. QED
    BY <2>1, <2>2 DEF StepKeepsGrounds, NothingAsked
<1>6. CASE made.ok
  <2>1. /\ Good(made.graph, w, following) /\ Remembers(request.view, made.graph, following)
        /\ Remembers(graph, made.graph, following)
    BY <1>3, <1>4, <1>6, RemembersOnward DEF Keeps
  <2>2. KeepsGrounds(request.view, made.graph) /\ KeepsGrounds(graph, made.graph)
        /\ KeepsGrounds(graph, graph)
    BY <1>4, <2>1, RemembersItself, RemembersKeepsGrounds
  <2>3. CASE Tail(request.parts) = <<>>
    <3>1. request' = NothingAsked /\ graph' = made.graph
      BY <1>1, <1>6, <2>3 DEF Continue
    <3>2. RecordInv'
      BY <1>1, <1>2, <2>1, <3>1, NothingIsGood DEF RecordInv, NothingAsked
    <3>3. QED
      BY <2>2, <3>1, <3>2 DEF StepKeepsGrounds, NothingAsked
  <2>4. CASE Tail(request.parts) # <<>>
    <3>1. /\ request' = [parts |-> Tail(request.parts), record |-> request.record,
                         limit |-> request.limit, view |-> made.graph]
          /\ graph' = graph
      BY <1>1, <1>6, <2>4 DEF Continue, RecordInv
    <3>2. Tail(request.parts) \in Seq(PartNames)
      BY <1>1 DEF RecordInv
    <3>3. RecordInv'
      BY <1>1, <1>2, <1>4, <2>1, <2>4, <3>1, <3>2 DEF RecordInv
    <3>4. QED
      BY <2>2, <2>4, <3>1, <3>3 DEF StepKeepsGrounds
  <2>5. QED
    BY <2>3, <2>4
<1>7. QED
  BY <1>5, <1>6

LEMMA RecordsNextKeeps == RecordInv /\ [RecordsNext]_recordVars =>
                            RecordInv' /\ (StepKeepsGrounds \/ UNCHANGED recordVars)
<1> SUFFICES ASSUME RecordInv, [RecordsNext]_recordVars
             PROVE  RecordInv' /\ (StepKeepsGrounds \/ UNCHANGED recordVars)
  OBVIOUS
<1>1. ASSUME NEW parts, parts \in Seq(PartNames), parts # <<>>, NEW r, NEW limit, Ask(parts, r, limit)
      PROVE  RecordInv' /\ StepKeepsGrounds
  BY <1>1, AskKeepsRecordInv DEF StepKeepsGrounds
<1>2. CASE \E limit \in Limits, p \in DiskPages : AskRecordPage(p, limit) \/ AskClass(p, limit)
  <2>1. <<"records">> \in Seq(PartNames) /\ <<"class">> \in Seq(PartNames)
    BY DEF PartNames
  <2>2. QED
    BY <1>1, <1>2, <2>1 DEF AskRecordPage, AskClass
<1>3. CASE \E limit \in Limits, p \in DiskPages : \E i \in DOMAIN Disk[0][p].slots :
             SelectRecord(<<p, i>>, limit) \/ InspectSlot(<<p, i>>, limit)
  <2>1. /\ <<"page", "relocation", "records", "target">> \in Seq(PartNames)
        /\ <<"page", "slot", "relocation", "records", "named">> \in Seq(PartNames)
    BY DEF PartNames
  <2>2. QED
    BY <1>1, <1>3, <2>1 DEF SelectRecord, InspectSlot
<1>4. CASE \E cancelled \in {"never", "before", "during"}, seen \in Sightings : RunPart(cancelled, seen)
  BY <1>4, RunPartKeepsRecordInv
<1>5. CASE UNCHANGED recordVars
  BY <1>5 DEF recordVars, RecordInv
<1>6. QED
  BY <1>2, <1>3, <1>4, <1>5 DEF RecordsNext

\* For any pages, rewritings, sectors, limits and sequence of requests: what a part of a request
\* makes of the session, and what the session becomes, keeps every record's grounds (its
\* representation, the validated edge it was reached by and, unless the input is followed, its
\* class among those its sector names), and forgets nothing; a request that fails changes
\* nothing (RecordsKeepTheirGrounds; publish_interpretation, enrich_record_selection).
THEOREM RecordGroundsAreKept == RecordsSpec => RecordsKeepTheirGrounds
<1>1. RecordInv /\ [RecordsNext]_recordVars => [StepKeepsGrounds]_recordVars
  BY RecordsNextKeeps
<1>2. QED
  BY <1>1, RecordsStart, RecordsNextKeeps, PTL DEF RecordsSpec, RecordsKeepTheirGrounds, StepKeepsGrounds
===================================================================================
