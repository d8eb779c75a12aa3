---------------------------- MODULE AtomI2cProofs ----------------------------
(***************************************************************************)
(* Proofs about AtomI2c, for every set of images and every limit: type     *)
(* correctness, the object walk, and that the report names the consumers   *)
(* the image has and no other.                                             *)
(***************************************************************************)
EXTENDS AtomI2cInvariant, SequenceTheorems, FiniteSetTheorems, TLAPS

-----------------------------------------------------------------------------
(* The bytes                                                               *)

\* The parts of an image that the walk uses.
LEMMA ImageFields ==
  ASSUME image \in ImageSet
  PROVE  /\ image.bytes \in Seq(ByteValue)
         /\ FileEnd \in Nat
         /\ Lists \in Seq(Nat \cup {Absent})
         /\ Pins \in Seq(ByteValue)
         /\ image.volt # Absent => image.volt.first \in Nat
<1>1. /\ image.bytes \in Seq(ByteValue)
      /\ image.pins \in Seq(ByteValue) \cup {Absent}
      /\ image.paths \in [cont : Nat, lists : Seq(Nat \cup {Absent})] \cup {Absent}
      /\ image.volt \in [first : Nat, end : Nat] \cup {Absent}
  BY DEF ImageSet
<1>2. FileEnd \in Nat
  BY <1>1 DEF FileEnd
<1>3. Lists \in Seq(Nat \cup {Absent})
  <2>1. CASE Supported(image.paths)
    BY <1>1, <2>1 DEF Lists, Supported
  <2>2. CASE ~Supported(image.paths)
    BY <2>2 DEF Lists
  <2> QED
    BY <2>1, <2>2
<1>4. Pins \in Seq(ByteValue)
  BY <1>1 DEF Pins
<1> QED
  BY <1>1, <1>2, <1>3, <1>4

\* What is read inside the file is a byte.
LEMMA ByteInFile ==
  ASSUME image \in ImageSet, NEW o \in Nat, o < FileEnd
  PROVE  ByteAt(o) \in ByteValue /\ ByteAt(o) \in Nat
<1>1. o + 1 \in 1..Len(image.bytes) /\ image.bytes \in Seq(ByteValue)
  BY ImageFields DEF FileEnd
<1>2. image.bytes[o + 1] \in ByteValue
  BY <1>1, ElementOfSeq
<1> QED
  BY <1>2 DEF ByteAt, ByteValue

\* A record has a size.
LEMMA RecordAdvances ==
  ASSUME image \in ImageSet, NEW o \in Nat, IsRecord(o)
  PROVE  o \in 0..FileEnd /\ ByteAt(o + 1) \in Nat /\ o + ByteAt(o + 1) > o
<1>1. o + 2 <= FileEnd /\ FileEnd \in Nat /\ ByteAt(o + 1) # 0
  BY ImageFields DEF IsRecord
<1>2. ByteAt(o + 1) \in Nat
  BY <1>1, ByteInFile
<1> QED
  BY <1>1, <1>2

-----------------------------------------------------------------------------
(* The record lists                                                        *)

\* The successor of a record of the list is one of the list, if it is a record.
LEMMA ChainGoesOn ==
  ASSUME image \in ImageSet, NEW o, NEW h \in Chain(o),
         IsRecord(h + ByteAt(h + 1))
  PROVE  h + ByteAt(h + 1) \in Chain(o)
<1> DEFINE next == h + ByteAt(h + 1)
<1>1. h \in Nat /\ IsRecord(h) /\ \A s \in SUBSET (0..FileEnd) : Closed(s, o) => h \in s
  BY ImageFields DEF Chain
<1>2. next \in Nat
  BY <1>1, RecordAdvances
<1>3. next \in 0..FileEnd /\ next <= FileEnd
  BY <1>2, RecordAdvances
<1>4. \A s \in SUBSET (0..FileEnd) : Closed(s, o) => next \in s
  BY <1>1, <1>3 DEF Closed
<1> QED
  BY <1>3, <1>4 DEF Chain

\* The first offset is in the list, if it is that of a record.
LEMMA ChainStarts ==
  ASSUME image \in ImageSet, NEW o \in Nat, IsRecord(o)
  PROVE  o \in Chain(o)
<1>1. o \in 0..FileEnd /\ o <= FileEnd
  BY RecordAdvances
<1> QED
  BY <1>1 DEF Chain, Closed

\* The cursor is a number beyond everything read.
LEMMA AfterIsBeyond ==
  ASSUME image \in ImageSet, NEW o \in Nat, NEW r \in Seq(0..FileEnd), Begins(r, o)
  PROVE  /\ After(r, o) \in Nat
         /\ \A k \in 1..Len(r) : r[k] < After(r, o)
         /\ IsRecord(After(r, o)) => After(r, o) \in Chain(o)
<1>1. CASE r = << >>
  BY <1>1, ChainStarts DEF After
<1>2. CASE r # << >>
  <2> DEFINE n == Len(r)
  <2>1. n \in Nat /\ n > 0 /\ FileEnd \in Nat
    BY <1>2, ImageFields
  <2>2. r[n] \in Nat /\ IsRecord(r[n]) /\ \A k \in 1..n : r[k] \in Nat
    BY <2>1, ImageFields DEF Begins
  <2>3. After(r, o) = r[n] + ByteAt(r[n] + 1)
    BY <1>2 DEF After
  <2>4. After(r, o) \in Nat /\ r[n] < After(r, o)
    BY <2>2, <2>3, RecordAdvances
  <2>5. \A k \in 1..n : k = n \/ r[k] < r[n]
    BY <2>1 DEF Begins
  <2>6. r[n] \in Chain(o)
    BY <2>1 DEF Begins, Elements
  <2>7. IsRecord(After(r, o)) => After(r, o) \in Chain(o)
    BY <2>3, <2>6, ChainGoesOn
  <2>8. \A k \in 1..n : r[k] < After(r, o)
    BY <2>2, <2>4, <2>5
  <2> QED
    BY <2>4, <2>7, <2>8
<1> QED
  BY <1>1, <1>2

\* One record more of the same list.
LEMMA BeginsGrows ==
  ASSUME image \in ImageSet, NEW o \in Nat, NEW r \in Seq(0..FileEnd), Begins(r, o),
         IsRecord(After(r, o))
  PROVE  LET a == After(r, o)
             t == Append(r, a)
         IN  /\ t \in Seq(0..FileEnd)
             /\ Begins(t, o)
             /\ After(t, o) = a + ByteAt(a + 1)
<1> DEFINE a == After(r, o)
           t == Append(r, a)
           n == Len(r)
<1>1. a \in Nat /\ a \in 0..FileEnd /\ a \in Chain(o) /\ \A k \in 1..n : r[k] < a
  BY AfterIsBeyond, RecordAdvances
<1>2. n \in Nat /\ (n = 0 <=> r = << >>)
  OBVIOUS
<1>3. n > 0 => a = r[n] + ByteAt(r[n] + 1)
  BY <1>2 DEF After
<1>4. n = 0 => a = o
  BY <1>2 DEF After
<1> HIDE DEF a
<1>5. /\ t \in Seq(0..FileEnd) /\ Len(t) = n + 1 /\ t[n + 1] = a
      /\ \A k \in 1..n : t[k] = r[k]
  BY <1>1
<1> HIDE DEF t, n
<1>6. \A k \in 1..n + 1 : k \in 1..n \/ k = n + 1
  BY <1>2
<1>7. /\ \A k \in 1..n : IsRecord(r[k])
      /\ n > 0 => r[1] = o
      /\ \A k \in 1..n - 1 : r[k + 1] = r[k] + ByteAt(r[k] + 1)
      /\ \A j, k \in 1..n : j < k => r[j] < r[k]
      /\ \A k \in 1..n : r[k] \in Chain(o)
  BY DEF Begins, Elements, n
<1>8. IsRecord(a)
  BY DEF a
<1>9. \A k \in 1..n + 1 : IsRecord(t[k])
  BY <1>5, <1>6, <1>7, <1>8
<1>10. t[1] = o
  BY <1>2, <1>4, <1>5, <1>7
<1>11. ASSUME NEW k \in 1..n PROVE t[k + 1] = t[k] + ByteAt(t[k] + 1)
  <2>1. CASE k = n
    BY <1>2, <1>3, <1>5, <2>1
  <2>2. CASE k # n
    <3>1. k \in 1..n - 1 /\ k + 1 \in 1..n
      BY <1>2, <2>2
    <3> QED
      BY <1>5, <1>7, <3>1
  <2> QED
    BY <2>1, <2>2
<1>12. ASSUME NEW j \in 1..n + 1, NEW k \in 1..n + 1, j < k PROVE t[j] < t[k]
  <2>1. j \in 1..n
    BY <1>2, <1>12
  <2>2. CASE k \in 1..n
    BY <1>5, <1>7, <1>12, <2>1, <2>2
  <2>3. CASE k = n + 1
    BY <1>1, <1>5, <2>1, <2>3 DEF n
  <2> QED
    BY <1>6, <2>2, <2>3
<1>13. Elements(t) \subseteq Chain(o)
  <2>1. DOMAIN t = 1..n + 1
    BY <1>5
  <2>2. \A k \in 1..n + 1 : t[k] \in Chain(o)
    BY <1>1, <1>5, <1>6, <1>7
  <2> QED
    BY <2>1, <2>2 DEF Elements
<1>14. (n + 1) - 1 = n /\ n + 1 > 0
  BY <1>2
<1>15. Begins(t, o)
  BY <1>5, <1>9, <1>10, <1>11, <1>12, <1>13, <1>14 DEF Begins
<1>16. After(t, o) = a + ByteAt(a + 1)
  <2>1. t # << >>
    BY <1>2, <1>5
  <2> QED
    BY <1>5, <2>1 DEF After
<1> QED
  BY <1>5, <1>15, <1>16 DEF t, a

\* No record is read twice.
LEMMA ElementsCounted ==
  ASSUME image \in ImageSet, NEW o, NEW r \in Seq(0..FileEnd), Begins(r, o)
  PROVE  IsFiniteSet(Elements(r)) /\ Cardinality(Elements(r)) = Len(r)
<1> DEFINE n == Len(r)
           f == [k \in 1..n |-> r[k]]
<1>1. n \in Nat /\ DOMAIN r = 1..n
  OBVIOUS
<1>2. \A j, k \in 1..n : r[j] = r[k] => j = k
  <2> SUFFICES ASSUME NEW j \in 1..n, NEW k \in 1..n, r[j] = r[k], j # k
               PROVE  FALSE
    OBVIOUS
  <2>1. r[j] \in Int /\ r[k] \in Int
    BY ImageFields
  <2>2. (j < k => r[j] < r[k]) /\ (k < j => r[k] < r[j])
    BY DEF Begins
  <2> QED
    BY <1>1, <2>1, <2>2
<1>3. Elements(r) = {f[k] : k \in 1..n}
  BY <1>1 DEF Elements
<1>4. f \in Bijection(1..n, Elements(r))
  <2>1. f \in [1..n -> Elements(r)]
    BY <1>3
  <2>2. f \in Injection(1..n, Elements(r))
    <3>1. \A j, k \in 1..n : f[j] = f[k] => j = k
      BY <1>2
    <3> HIDE DEF f
    <3> QED
      BY <2>1, <3>1 DEF Injection, IsInjective
  <2>3. f \in Surjection(1..n, Elements(r))
    BY <1>3, <2>1 DEF Surjection
  <2> QED
    BY <2>2, <2>3 DEF Bijection
<1>5. IsFiniteSet(1..n) /\ Cardinality(1..n) = n
  BY <1>1, FS_Interval
<1>6. ExistsBijection(1..n, Elements(r))
  BY <1>4 DEF ExistsBijection
<1> QED
  BY <1>5, <1>6, FS_Bijection

\* What is not yet read lies at the cursor or beyond it.
LEMMA RestIsBeyond ==
  ASSUME image \in ImageSet, NEW o \in Nat, NEW r \in Seq(0..FileEnd), Begins(r, o),
         NEW h \in Chain(o)
  PROVE  /\ h \in Nat
         /\ h \in Elements(r) \/ h >= After(r, o)
         /\ ~IsRecord(After(r, o)) => h \in Elements(r)
<1> DEFINE a == After(r, o)
           n == Len(r)
           beyond == {x \in 0..FileEnd : x >= a}
           cursor == {x \in 0..FileEnd : x = a}
<1>1. FileEnd \in Nat /\ n \in Nat /\ DOMAIN r = 1..n /\ a \in Nat
      /\ \A k \in 1..n : r[k] < a
  <2>1. FileEnd \in Nat /\ n \in Nat /\ DOMAIN r = 1..n
    BY ImageFields
  <2>2. a \in Nat /\ \A k \in 1..n : r[k] < a
    BY AfterIsBeyond
  <2> QED
    BY <2>1, <2>2
<1>2. h \in Nat /\ IsRecord(h) /\ \A s \in SUBSET (0..FileEnd) : Closed(s, o) => h \in s
  BY <1>1 DEF Chain
<1>3. Elements(r) \subseteq 0..FileEnd /\ \A x \in Elements(r) : \E k \in 1..n : x = r[k]
  BY <1>1 DEF Elements
<1>4. \A k \in 1..n : r[k] \in Elements(r)
  BY <1>1 DEF Elements
<1>5. o \in Elements(r) \/ o = a
  <2>1. CASE n = 0
    BY <2>1 DEF After
  <2>2. CASE n > 0
    BY <1>1, <1>4, <2>2 DEF Begins
  <2> QED
    BY <1>1, <2>1, <2>2
<1>6. \A x \in Elements(r) : x + ByteAt(x + 1) \in Elements(r) \/ x + ByteAt(x + 1) = a
  <2> SUFFICES ASSUME NEW k \in 1..n
               PROVE  r[k] + ByteAt(r[k] + 1) \in Elements(r) \/ r[k] + ByteAt(r[k] + 1) = a
    BY <1>3
  <2>1. CASE k = n
    BY <1>1, <2>1 DEF After
  <2>2. CASE k # n
    <3>1. k \in 1..n - 1 /\ k + 1 \in 1..n
      <4>1. n \in Nat
        BY <1>1
      <4> HIDE DEF n
      <4> QED
        BY <2>2, <4>1
    <3>2. r[k + 1] = r[k] + ByteAt(r[k] + 1)
      BY <3>1 DEF Begins
    <3> QED
      BY <1>4, <3>1, <3>2
  <2> QED
    BY <2>1, <2>2
<1> HIDE DEF a, n
<1>7. h \in Elements(r) \cup beyond
  <2> DEFINE s == Elements(r) \cup beyond
  <2>1. s \in SUBSET (0..FileEnd)
    BY <1>3
  <2>2. o <= FileEnd => o \in s
    BY <1>1, <1>5
  <2>3. ASSUME NEW x \in s, IsRecord(x), x + ByteAt(x + 1) <= FileEnd
        PROVE  x + ByteAt(x + 1) \in s
    <3>1. x \in Nat
      BY <1>1, <1>3, <2>3
    <3>2. x + ByteAt(x + 1) \in Nat /\ x + ByteAt(x + 1) > x
      BY <2>3, <3>1, RecordAdvances
    <3>3. x + ByteAt(x + 1) \in 0..FileEnd
      BY <1>1, <2>3, <3>2
    <3>4. CASE x \in Elements(r)
      <4>1. x + ByteAt(x + 1) \in Elements(r) \/ x + ByteAt(x + 1) = a
        BY <1>6, <3>4
      <4>2. x + ByteAt(x + 1) = a => x + ByteAt(x + 1) \in beyond
        BY <1>1, <3>3
      <4> QED
        BY <4>1, <4>2
    <3>5. CASE x \in beyond
      <4>1. x >= a
        BY <3>5
      <4>2. x + ByteAt(x + 1) >= a
        BY <1>1, <3>1, <3>2, <4>1
      <4> QED
        BY <3>3, <4>2
    <3> QED
      BY <2>3, <3>4, <3>5
  <2>4. Closed(s, o)
    BY <2>2, <2>3 DEF Closed
  <2> QED
    BY <1>2, <2>1, <2>4
<1>8. ASSUME ~IsRecord(a) PROVE h \in Elements(r)
  <2> DEFINE s == Elements(r) \cup cursor
  <2>1. s \in SUBSET (0..FileEnd)
    BY <1>3
  <2>2. o <= FileEnd => o \in s
    BY <1>1, <1>5
  <2>3. ASSUME NEW x \in s, IsRecord(x), x + ByteAt(x + 1) <= FileEnd
        PROVE  x + ByteAt(x + 1) \in s
    <3>1. x \in Elements(r)
      BY <1>8, <2>3
    <3>2. x \in Nat
      BY <1>1, <1>3, <3>1
    <3>3. x + ByteAt(x + 1) \in 0..FileEnd
      BY <1>1, <2>3, <3>2, RecordAdvances
    <3>4. x + ByteAt(x + 1) = a => x + ByteAt(x + 1) \in cursor
      BY <3>3
    <3> QED
      BY <1>6, <3>1, <3>4
  <2>4. Closed(s, o)
    BY <2>2, <2>3 DEF Closed
  <2>5. h \in s
    BY <1>2, <2>1, <2>4
  <2> QED
    BY <1>2, <1>8, <2>5
<1> QED
  BY <1>2, <1>7, <1>8 DEF a

\* A list that is done is what the reference reads.
LEMMA ListIsChainRead ==
  ASSUME image \in ImageSet, NEW o \in Nat, NEW r \in Seq(0..FileEnd), Begins(r, o),
         Len(r) <= BIOS_MAX_NUM_RECORD, Full(r) \/ ~IsRecord(After(r, o))
  PROVE  Elements(r) = ChainRead(o)
<1> DEFINE chain == Chain(o)
           below(h) == {g \in chain : g < h}
           n == Len(r)
           max == BIOS_MAX_NUM_RECORD
<1>1. /\ IsFiniteSet(Elements(r)) /\ Cardinality(Elements(r)) = n
      /\ n \in Nat /\ max \in Nat /\ n <= max
  BY ElementsCounted, CapAssumption
<1>2. /\ Elements(r) \subseteq chain
      /\ \A x \in Elements(r) : x \in Nat /\ x < After(r, o)
      /\ After(r, o) \in Nat
  <2>1. \A x \in Elements(r) : \E k \in 1..n : x = r[k]
    BY DEF Elements
  <2>2. \A k \in 1..n : r[k] \in Nat
    BY ImageFields
  <2> QED
    BY <2>1, <2>2, AfterIsBeyond DEF Begins
<1>3. \A h \in chain : h \in Nat /\ (h \in Elements(r) \/ h >= After(r, o))
  BY RestIsBeyond
<1> HIDE DEF chain, max, n
<1>4. ASSUME NEW h \in Elements(r) PROVE Cardinality(below(h)) < max
  <2>1. below(h) \in SUBSET (Elements(r) \ {h})
    BY <1>2, <1>3
  <2>2. IsFiniteSet(Elements(r) \ {h}) /\ Cardinality(Elements(r) \ {h}) = n - 1
    BY <1>1, FS_RemoveElement
  <2>3. IsFiniteSet(below(h)) /\ Cardinality(below(h)) <= n - 1
    BY <2>1, <2>2, FS_Subset
  <2>4. Cardinality(below(h)) \in Nat
    BY <2>3, FS_CardinalityType
  <2> QED
    BY <1>1, <2>3, <2>4
<1>5. ASSUME NEW h \in chain, h \notin Elements(r) PROVE ~(Cardinality(below(h)) < max)
  <2>1. n = max
    BY <1>5, RestIsBeyond DEF Full, chain, n, max
  <2>2. below(h) = Elements(r) \cup {g \in chain : g < h /\ g >= After(r, o)}
    BY <1>2, <1>3, <1>5
  <2>3. IsFiniteSet(below(h))
    <3>1. below(h) \in SUBSET Nat /\ h \in Nat /\ \A g \in below(h) : g <= h
      BY <1>3
    <3> HIDE DEF below
    <3> QED
      BY <3>1, FS_BoundedSetOfNaturals
  <2>4. Elements(r) \in SUBSET below(h)
    BY <2>2
  <2>5. n <= Cardinality(below(h)) /\ Cardinality(below(h)) \in Nat
    BY <1>1, <2>3, <2>4, FS_Subset, FS_CardinalityType
  <2> QED
    BY <1>1, <2>1, <2>5
<1>6. ChainRead(o) = {h \in chain : Cardinality(below(h)) < max}
  BY DEF ChainRead, chain, max
<1> HIDE DEF below
<1> QED
  BY <1>2, <1>4, <1>5, <1>6

-----------------------------------------------------------------------------
(* The inductive invariant                                                 *)

\* Before anything is read.
LEMMA AtomInitInv ==
  ASSUME Init
  PROVE  AInv
<1>1. image \in ImageSet
  BY ImageAssumption DEF Init
<1>2. pc = "rom_header" /\ off = 0 /\ records = << >> /\ objects = << >> /\ report = NoReport
  BY DEF Init
<1>3. TypeOK
  BY <1>1, <1>2, ImageFields DEF TypeOK, NoReport
<1>4. Stages /\ Walk
  BY <1>2 DEF Stages, Walk, Early, Late
<1>5. ObjectWalk /\ Reported
  BY <1>2 DEF ObjectWalk, ObjectsFollow, Reported
<1> QED
  BY <1>3, <1>4, <1>5 DEF AInv

\* A stage that reads a table leaves the lists alone.
LEMMA ReadStep ==
  ASSUME AInv, ReadHeader \/ ReadPins \/ ReadFirmware \/ ReadPaths
  PROVE  AInv'
<1>1. /\ UNCHANGED <<image, off, records, objects, report>>
      /\ pc \in Early
      /\ pc' \in Early \cup {"path", "raised"}
  BY DEF ReadHeader, ReadPins, ReadFirmware, ReadPaths, Read, Early
<1>2. records = << >> /\ objects = << >>
  BY <1>1 DEF AInv, Stages
<1>3. TypeOK'
  BY <1>1 DEF AInv, TypeOK, Early, FileEnd, Lists, Supported, Pins
<1>4. Stages'
  BY <1>1, <1>2 DEF AInv, Stages, Early, Late, FileEnd
<1>5. Walk' /\ ObjectWalk'
  BY <1>1, <1>2 DEF Walk, ObjectWalk, ObjectsFollow
<1>6. Reported'
  BY <1>1 DEF AInv, Reported, Early
<1> QED
  BY <1>3, <1>4, <1>5, <1>6 DEF AInv

\* The operators that depend on the image alone do not change with a step.
LEMMA ImageStays ==
  ASSUME image' = image
  PROVE  /\ FileEnd' = FileEnd /\ Lists' = Lists /\ Pins' = Pins
         /\ \A o : /\ ByteAt(o)' = ByteAt(o) /\ IsRecord(o)' = IsRecord(o)
                   /\ U16At(o)' = U16At(o) /\ Chain(o)' = Chain(o)
         /\ \A r, o : Begins(r, o)' = Begins(r, o) /\ After(r, o)' = After(r, o)
         /\ \A r : Full(r)' = Full(r)
BY DEF FileEnd, Lists, Supported, Pins, ByteAt, IsRecord, U16At, Chain, Closed, Begins, After, Full

\* The next display path: its list is new, and the one before it is done.
LEMMA NextPathStep ==
  ASSUME AInv, NextPath
  PROVE  AInv'
<1> DEFINE n == Len(records)
<1>1. /\ pc = "path" /\ UNCHANGED <<image, objects, report>>
      /\ records \in Seq(Seq(0..FileEnd)) /\ n \in Nat /\ n <= Len(Lists)
      /\ image \in ImageSet /\ Lists \in Seq(Nat \cup {Absent}) /\ Len(Lists) \in Nat
      /\ objects = << >> /\ off \in Nat
  BY ImageFields DEF NextPath, AInv, TypeOK, Stages
<1>2. CASE n + 1 > Len(Lists)
  <2>1. pc' = "voltageobject_info" /\ UNCHANGED <<off, records>> /\ n = Len(Lists)
    BY <1>1, <1>2 DEF NextPath
  <2>2. TypeOK'
    BY <1>1, <2>1, ImageStays DEF AInv, TypeOK
  <2>3. Stages'
    BY <1>1, <2>1, ImageStays DEF AInv, Stages, Early, Late
  <2>4. Walk'
    BY <1>1, <2>1, ImageStays DEF AInv, Walk
  <2>5. ObjectWalk' /\ Reported'
    BY <1>1, <2>1 DEF AInv, ObjectWalk, ObjectsFollow, Reported
  <2> QED
    BY <2>2, <2>3, <2>4, <2>5 DEF AInv
<1>3. CASE ~(n + 1 > Len(Lists))
  <2>1. /\ records' = Append(records, << >>)
        /\ n + 1 \in 1..Len(Lists)
        /\ IF Lists[n + 1] = Absent THEN pc' = "path" /\ off' = off
           ELSE pc' = "records" /\ off' = Lists[n + 1]
    BY <1>1, <1>3 DEF NextPath
  <2>2. Lists[n + 1] \in Nat \cup {Absent}
    BY <1>1, <2>1, ElementOfSeq
  <2>3. /\ records' \in Seq(Seq(0..FileEnd)) /\ Len(records') = n + 1
        /\ records'[n + 1] = << >>
        /\ \A i \in 1..n : records'[i] = records[i]
        /\ DOMAIN records = 1..n /\ DOMAIN records' = 1..n + 1
    BY <1>1, <2>1
  <2>4. off' \in Nat
    BY <1>1, <2>1, <2>2
  <2> HIDE DEF n
  <2>5. \A i \in 1..n + 1 : i \in 1..n \/ i = n + 1
    BY <1>1
  <2>6. TypeOK'
    <3>1. \A i \in 1..n + 1 : /\ records'[i] \in Seq(0..FileEnd)
                              /\ Len(records'[i]) <= BIOS_MAX_NUM_RECORD
      <4>1. \A i \in 1..n : /\ records[i] \in Seq(0..FileEnd)
                            /\ Len(records[i]) <= BIOS_MAX_NUM_RECORD
        BY <2>3 DEF AInv, TypeOK
      <4>2. << >> \in Seq(0..FileEnd) /\ Len(<< >>) <= BIOS_MAX_NUM_RECORD
        BY CapAssumption
      <4> QED
        BY <2>3, <2>5, <4>1, <4>2
    <3>2. Len(records') <= Len(Lists)
      BY <1>1, <2>1, <2>3
    <3> QED
      BY <1>1, <2>1, <2>3, <2>4, <3>1, <3>2, ImageStays DEF AInv, TypeOK
  <2>7. Stages'
    <3>1. After(<< >>, Lists[n + 1]) = Lists[n + 1]
      BY DEF After
    <3>2. pc' = "records" =>
            /\ Len(records') > 0 /\ Lists[Len(records')] # Absent
            /\ off' = After(records'[Len(records')], Lists[Len(records')])
      BY <1>1, <2>1, <2>3, <3>1
    <3>3. pc' \in {"path", "records"}
      BY <2>1
    <3> QED
      BY <1>1, <2>3, <3>2, <3>3, ImageStays DEF Stages, Early, Late
  <2>8. Walk'
    <3> SUFFICES ASSUME NEW i \in 1..n + 1
                 PROVE  IF Lists[i] = Absent THEN records'[i] = << >>
                        ELSE /\ Begins(records'[i], Lists[i])
                             /\ i < n + 1 \/ pc' \notin {"records", "raised"}
                                  => \/ Full(records'[i])
                                     \/ ~IsRecord(After(records'[i], Lists[i]))
      BY <1>1, <2>3, ImageStays DEF Walk
    <3>1. CASE i \in 1..n
      <4>1. IF Lists[i] = Absent THEN records[i] = << >>
            ELSE /\ Begins(records[i], Lists[i])
                 /\ Full(records[i]) \/ ~IsRecord(After(records[i], Lists[i]))
        BY <1>1, <3>1 DEF AInv, Walk, n
      <4> QED
        BY <2>3, <3>1, <4>1
    <3>2. CASE i = n + 1
      <4>1. Begins(<< >>, Lists[i])
        BY DEF Begins, Elements
      <4>2. i < n + 1 \/ pc' \notin {"records", "raised"} => Lists[i] = Absent
        BY <1>1, <2>1, <3>2
      <4> QED
        BY <2>3, <3>2, <4>1, <4>2
    <3> QED
      BY <2>5, <3>1, <3>2
  <2>9. ObjectWalk' /\ Reported'
    BY <1>1, <2>1 DEF AInv, ObjectWalk, ObjectsFollow, Reported
  <2> QED
    BY <2>6, <2>7, <2>8, <2>9 DEF AInv
<1> QED
  BY <1>2, <1>3

\* A turn of the loop in _records: one record more, or the list is done.
LEMMA NextRecordStep ==
  ASSUME AInv, NextRecord
  PROVE  AInv'
<1> DEFINE n == Len(records)
           r == records[n]
<1>1. /\ pc = "records" /\ UNCHANGED <<image, objects, report>>
      /\ records \in Seq(Seq(0..FileEnd)) /\ n \in Nat /\ n > 0 /\ n <= Len(Lists)
      /\ image \in ImageSet /\ Lists \in Seq(Nat \cup {Absent}) /\ Len(Lists) \in Nat
      /\ objects = << >> /\ off \in Nat
      /\ DOMAIN records = 1..n
      /\ Lists[n] # Absent /\ off = After(r, Lists[n])
  BY ImageFields DEF NextRecord, AInv, TypeOK, Stages
<1>2. /\ n \in 1..n /\ r \in Seq(0..FileEnd) /\ Len(r) \in Nat
      /\ Len(r) <= BIOS_MAX_NUM_RECORD /\ Begins(r, Lists[n])
  BY <1>1 DEF AInv, TypeOK, Walk
<1>3. Lists[n] \in Nat
  BY <1>1, ElementOfSeq
<1> HIDE DEF n
<1>4. \A i \in 1..n : i = n \/ i < n
  BY <1>1
<1>5. CASE UNCHANGED <<off, records>> /\ (pc' = "raised" \/
              (pc' = "path" /\ (Full(r) \/ ~IsRecord(off))))
  <2>1. TypeOK'
    BY <1>1, <1>5, ImageStays DEF AInv, TypeOK
  <2>2. Stages'
    BY <1>1, <1>5, ImageStays DEF AInv, Stages, Early, Late
  <2>3. Walk'
    <3> SUFFICES ASSUME NEW i \in 1..n
                 PROVE  IF Lists[i] = Absent THEN records[i] = << >>
                        ELSE /\ Begins(records[i], Lists[i])
                             /\ i < n \/ pc' \notin {"records", "raised"}
                                  => Full(records[i]) \/ ~IsRecord(After(records[i], Lists[i]))
      BY <1>1, <1>5, ImageStays DEF Walk, n
    <3>1. IF Lists[i] = Absent THEN records[i] = << >>
          ELSE /\ Begins(records[i], Lists[i])
               /\ i < n => Full(records[i]) \/ ~IsRecord(After(records[i], Lists[i]))
      BY DEF AInv, Walk, n
    <3>2. i = n /\ pc' # "raised" => Full(records[i]) \/ ~IsRecord(After(records[i], Lists[i]))
      BY <1>1, <1>5
    <3> QED
      BY <1>4, <1>5, <3>1, <3>2
  <2>4. ObjectWalk' /\ Reported'
    BY <1>1, <1>5 DEF AInv, ObjectWalk, ObjectsFollow, Reported
  <2> QED
    BY <2>1, <2>2, <2>3, <2>4 DEF AInv
<1>6. CASE /\ ~Full(r) /\ IsRecord(off)
           /\ records' = [records EXCEPT ![n] = Append(r, off)]
           /\ off' = off + ByteAt(off + 1)
           /\ pc' = pc
  <2> DEFINE t == Append(r, off)
  <2>1. /\ t \in Seq(0..FileEnd) /\ Begins(t, Lists[n])
        /\ After(t, Lists[n]) = off + ByteAt(off + 1)
    BY <1>1, <1>2, <1>3, <1>6, BeginsGrows
  <2>2. Len(t) <= BIOS_MAX_NUM_RECORD
    <3>1. off \in 0..FileEnd
      BY <1>1, <1>6, RecordAdvances
    <3>2. Len(t) = Len(r) + 1
      BY <1>2, <3>1
    <3> QED
      BY <1>2, <1>6, <3>2, CapAssumption DEF Full
  <2> HIDE DEF t
  <2>3. /\ records' \in Seq(Seq(0..FileEnd)) /\ Len(records') = n
        /\ DOMAIN records' = 1..n
        /\ records'[n] = t
        /\ \A i \in 1..n : i # n => records'[i] = records[i]
    <3>1. records' = [records EXCEPT ![n] = t] /\ n \in 1..Len(records)
      BY <1>2, <1>6 DEF t, n
    <3>2. /\ records' \in Seq(Seq(0..FileEnd)) /\ Len(records') = Len(records)
          /\ \A i \in 1..Len(records) : records'[i] = IF i = n THEN t ELSE records[i]
      BY <1>1, <2>1, <3>1, ExceptSeq
    <3> QED
      BY <1>2, <3>2 DEF n
  <2>4. off' \in Nat
    BY <1>1, <1>6, RecordAdvances
  <2>5. TypeOK'
    <3>1. \A i \in 1..n : /\ records'[i] \in Seq(0..FileEnd)
                          /\ Len(records'[i]) <= BIOS_MAX_NUM_RECORD
      BY <1>1, <2>1, <2>2, <2>3 DEF AInv, TypeOK
    <3> QED
      BY <1>1, <1>6, <2>3, <2>4, <3>1, ImageStays DEF AInv, TypeOK
  <2>6. Stages'
    BY <1>1, <1>6, <2>1, <2>3, ImageStays DEF Stages, Early, Late
  <2>7. Walk'
    <3> SUFFICES ASSUME NEW i \in 1..n
                 PROVE  IF Lists[i] = Absent THEN records'[i] = << >>
                        ELSE /\ Begins(records'[i], Lists[i])
                             /\ i < n => \/ Full(records'[i])
                                         \/ ~IsRecord(After(records'[i], Lists[i]))
      BY <1>1, <1>6, <2>3, ImageStays DEF Walk
    <3>1. CASE i = n
      BY <1>1, <2>1, <2>3, <3>1
    <3>2. CASE i # n
      <4>1. IF Lists[i] = Absent THEN records[i] = << >>
            ELSE /\ Begins(records[i], Lists[i])
                 /\ i < n => Full(records[i]) \/ ~IsRecord(After(records[i], Lists[i]))
        BY DEF AInv, Walk, n
      <4> QED
        BY <2>3, <3>2, <4>1
    <3> QED
      BY <3>1, <3>2
  <2>8. ObjectWalk' /\ Reported'
    BY <1>1, <1>6 DEF AInv, ObjectWalk, ObjectsFollow, Reported
  <2> QED
    BY <2>5, <2>6, <2>7, <2>8 DEF AInv
<1>7. \/ UNCHANGED <<off, records>> /\ (pc' = "raised" \/
              (pc' = "path" /\ (Full(r) \/ ~IsRecord(off))))
      \/ /\ ~Full(r) /\ IsRecord(off)
         /\ records' = [records EXCEPT ![n] = Append(r, off)]
         /\ off' = off + ByteAt(off + 1)
         /\ pc' = pc
  BY DEF NextRecord, n
<1> QED
  BY <1>5, <1>6, <1>7

\* The voltage table is absent, or its first object is where it says.
LEMMA ReadVoltageStep ==
  ASSUME AInv, ReadVoltage
  PROVE  AInv'
<1>1. /\ pc = "voltageobject_info" /\ UNCHANGED <<image, records, objects, report>>
      /\ pc' \in {"raised", "cross_reference", "objects"}
      /\ off' = off \/ (image.volt # Absent /\ off' = image.volt.first)
      /\ image \in ImageSet /\ objects = << >> /\ off \in Nat
  BY DEF ReadVoltage, AInv, TypeOK, Stages
<1>2. off' \in Nat
  BY <1>1, ImageFields
<1>3. TypeOK'
  BY <1>1, <1>2, ImageStays DEF AInv, TypeOK
<1>4. Stages'
  BY <1>1, ImageStays DEF AInv, Stages, Early, Late
<1>5. Walk'
  BY <1>1, ImageStays DEF AInv, Walk
<1>6. ObjectWalk' /\ Reported'
  BY <1>1 DEF AInv, ObjectWalk, ObjectsFollow, Reported
<1> QED
  BY <1>3, <1>4, <1>5, <1>6 DEF AInv

\* A turn of the loop in voltage_objects: one object more, or they are done.
LEMMA NextObjectStep ==
  ASSUME AInv, NextObject
  PROVE  AInv'
<1> DEFINE n == Len(objects)
           size == U16At(off + 2)
<1>1. /\ pc = "objects" /\ UNCHANGED <<image, records, report>>
      /\ image \in ImageSet /\ FileEnd \in Nat /\ off \in Nat
      /\ objects \in Seq(0..FileEnd) /\ n \in Nat
      /\ n > 0 => off = objects[n] + U16At(objects[n] + 2)
      /\ \A i \in 1..n : objects[i] + 4 <= FileEnd /\ U16At(objects[i] + 2) # 0
      /\ \A i \in 1..n - 1 : /\ objects[i] < objects[i + 1]
                             /\ objects[i + 1] = objects[i] + U16At(objects[i] + 2)
  <2>1. /\ pc = "objects" /\ UNCHANGED <<image, records, report>>
        /\ image \in ImageSet /\ FileEnd \in Nat /\ off \in Nat
        /\ objects \in Seq(0..FileEnd) /\ n \in Nat
    BY ImageFields DEF NextObject, AInv, TypeOK
  <2>2. n > 0 => off = objects[n] + U16At(objects[n] + 2)
    BY <2>1 DEF AInv, ObjectWalk
  <2>3. \A i \in 1..n : objects[i] + 4 <= FileEnd /\ U16At(objects[i] + 2) # 0
    BY DEF AInv, ObjectWalk
  <2>4. \A i \in 1..n - 1 : /\ objects[i] < objects[i + 1]
                            /\ objects[i + 1] = objects[i] + U16At(objects[i] + 2)
    BY DEF AInv, ObjectWalk, ObjectsFollow
  <2> QED
    BY <2>1, <2>2, <2>3, <2>4
<1>2. Walk'
  BY <1>1, ImageStays DEF NextObject, AInv, Walk
<1>3. Reported'
  BY <1>1 DEF NextObject, AInv, Reported
<1>4. CASE pc' \in {"cross_reference", "raised"} /\ UNCHANGED <<off, objects>>
  <2>1. TypeOK'
    BY <1>1, <1>4, ImageStays DEF AInv, TypeOK
  <2>2. Stages'
    BY <1>1, <1>4, ImageStays DEF AInv, Stages, Early, Late
  <2>3. ObjectWalk'
    BY <1>1, <1>4, ImageStays DEF AInv, ObjectWalk, ObjectsFollow
  <2> QED
    BY <1>2, <1>3, <2>1, <2>2, <2>3 DEF AInv
<1>5. CASE /\ off + 4 <= FileEnd /\ size # 0
           /\ objects' = Append(objects, off) /\ off' = off + size /\ pc' = pc
  <2>1. \A o \in Nat : o + 4 <= FileEnd => U16At(o + 2) \in Nat
    <3> SUFFICES ASSUME NEW o \in Nat, o + 4 <= FileEnd
                 PROVE  U16At(o + 2) \in Nat
      OBVIOUS
    <3>1. ByteAt(o + 2) \in Nat /\ ByteAt(o + 2 + 1) \in Nat
      BY <1>1, ByteInFile
    <3> QED
      BY <3>1 DEF U16At
  <2>2. size \in Nat /\ off \in 0..FileEnd
    BY <1>1, <1>5, <2>1
  <2> HIDE DEF size
  <2>3. /\ objects' \in Seq(0..FileEnd) /\ Len(objects') = n + 1
        /\ objects'[n + 1] = off
        /\ \A i \in 1..n : objects'[i] = objects[i] /\ objects[i] \in Nat
    BY <1>1, <1>5, <2>2
  <2> HIDE DEF n
  <2>4. \A i \in 1..n + 1 : i \in 1..n \/ i = n + 1
    BY <1>1
  <2>5. TypeOK'
    <3>1. off' \in Nat
      BY <1>1, <1>5, <2>2
    <3> QED
      BY <1>1, <1>5, <2>3, <3>1, ImageStays DEF AInv, TypeOK
  <2>6. Stages'
    BY <1>1, <1>5, ImageStays DEF AInv, Stages, Early, Late
  <2>7. \A i \in 1..n + 1 : objects'[i] + 4 <= FileEnd /\ U16At(objects'[i] + 2) # 0
    BY <1>1, <1>5, <2>3, <2>4 DEF size
  <2>8. ASSUME NEW i \in 1..n
        PROVE  /\ objects'[i] < objects'[i + 1]
               /\ objects'[i + 1] = objects'[i] + U16At(objects'[i] + 2)
    <3>1. CASE i = n
      <4>1. U16At(objects[n] + 2) \in Nat /\ U16At(objects[n] + 2) # 0
        BY <1>1, <2>1, <2>3, <3>1
      <4>2. n > 0
        BY <1>1, <3>1
      <4> QED
        BY <1>1, <2>3, <3>1, <4>1, <4>2
    <3>2. CASE i # n
      <4>1. i \in 1..n - 1 /\ i + 1 \in 1..n
        BY <1>1, <3>2
      <4> QED
        BY <1>1, <2>3, <4>1
    <3> QED
      BY <3>1, <3>2
  <2>9. ObjectWalk'
    <3>1. (n + 1) - 1 = n
      BY <1>1
    <3>2. off' = objects'[n + 1] + U16At(objects'[n + 1] + 2)
      BY <1>5, <2>3 DEF size
    <3>3. FileEnd' = FileEnd /\ \A o : U16At(o)' = U16At(o)
      BY <1>1, ImageStays
    <3>4. ObjectsFollow'
      BY <2>3, <2>8, <3>1, <3>3 DEF ObjectsFollow
    <3> QED
      BY <2>3, <2>7, <3>2, <3>3, <3>4 DEF ObjectWalk
  <2> QED
    BY <1>2, <1>3, <2>5, <2>6, <2>9 DEF AInv
<1>6. \/ pc' \in {"cross_reference", "raised"} /\ UNCHANGED <<off, objects>>
      \/ /\ off + 4 <= FileEnd /\ size # 0
         /\ objects' = Append(objects, off) /\ off' = off + size /\ pc' = pc
  BY <1>1 DEF NextObject, NoMoreObjects
<1> QED
  BY <1>4, <1>5, <1>6

\* The report is written.
LEMMA CrossReferenceStep ==
  ASSUME AInv, CrossReference
  PROVE  AInv'
<1>1. /\ pc = "cross_reference" /\ pc' = "done"
      /\ UNCHANGED <<image, off, records, objects>>
      /\ report' = [pins    |-> [i \in DOMAIN Pins |-> {c \in Consumers : c.id = Pins[i]}],
                    orphans |-> {c.id : c \in Consumers} \ Elements(Pins)]
  BY DEF CrossReference
<1>2. TypeOK'
  BY <1>1, ImageStays DEF AInv, TypeOK
<1>3. Stages' /\ Walk'
  BY <1>1, ImageStays DEF AInv, Stages, Walk, Early, Late
<1>4. ObjectWalk'
  BY <1>1, ImageStays DEF AInv, ObjectWalk, ObjectsFollow
<1>5. Consumers' = Consumers
  BY <1>1 DEF Consumers, Connectors, Connector, IsI2c, ByteAt, OemI2cPresent, OemBoard
<1>6. Reported'
  BY <1>1, <1>5, ImageStays DEF Reported
<1> QED
  BY <1>2, <1>3, <1>4, <1>6 DEF AInv

\* Every step preserves the invariant.
LEMMA AtomNextStep ==
  ASSUME AInv, [Next]_vars
  PROVE  AInv'
<1>1. CASE ReadHeader \/ ReadPins \/ ReadFirmware \/ ReadPaths
  BY <1>1, ReadStep
<1>2. CASE NextPath
  BY <1>2, NextPathStep
<1>3. CASE NextRecord
  BY <1>3, NextRecordStep
<1>4. CASE ReadVoltage
  BY <1>4, ReadVoltageStep
<1>5. CASE NextObject
  BY <1>5, NextObjectStep
<1>6. CASE CrossReference
  BY <1>6, CrossReferenceStep
<1>7. CASE UNCHANGED vars
  <2>1. UNCHANGED <<image, pc, off, records, objects, report>>
    BY <1>7 DEF vars
  <2>2. TypeOK'
    BY <2>1, ImageStays DEF AInv, TypeOK
  <2>3. Stages'
    BY <2>1, ImageStays DEF AInv, Stages
  <2>4. Walk'
    BY <2>1, ImageStays DEF AInv, Walk
  <2>5. ObjectWalk'
    BY <2>1, ImageStays DEF AInv, ObjectWalk, ObjectsFollow
  <2>6. Consumers' = Consumers
    BY <2>1 DEF Consumers, Connectors, Connector, IsI2c, ByteAt, OemI2cPresent, OemBoard
  <2>7. Reported'
    BY <2>1, <2>6, ImageStays DEF AInv, Reported
  <2> QED
    BY <2>2, <2>3, <2>4, <2>5, <2>7 DEF AInv
<1> QED
  BY <1>1, <1>2, <1>3, <1>4, <1>5, <1>6, <1>7 DEF Next

\* The lists, the objects and the report stay what the image makes them.
THEOREM AtomInvHolds == Spec => []AInv
<1>1. Init => AInv
  BY AtomInitInv
<1>2. AInv /\ [Next]_vars => AInv'
  BY AtomNextStep
<1> QED
  BY <1>1, <1>2, PTL DEF Spec

\* No variable leaves its type, on any image: no record and no object is ever
\* taken from beyond the end of the file.
THEOREM AtomTypeCorrect == Spec => []TypeOK
BY AtomInvHolds, PTL DEF AInv

\* voltage_objects goes through the objects in their order, each where the one
\* before it ends, and never over one of them twice.
THEOREM ObjectsAlwaysFollow == Spec => []ObjectsFollow
<1>1. AInv => ObjectsFollow
  BY DEF AInv, ObjectWalk
<1> QED
  BY <1>1, AtomInvHolds, PTL

\* When every list is read, the connectors are those of the reference.
LEMMA ConnectorsAreNamed ==
  ASSUME AInv, pc = "done"
  PROVE  LET listed(i) == IF Lists[i] = Absent THEN {} ELSE ChainRead(Lists[i])
         IN  Connectors = UNION {{Connector(i, h) : h \in {g \in listed(i) : IsI2c(g)}} :
                                   i \in DOMAIN Lists}
<1> DEFINE listed(i) == IF Lists[i] = Absent THEN {} ELSE ChainRead(Lists[i])
<1>1. /\ image \in ImageSet /\ Lists \in Seq(Nat \cup {Absent})
      /\ records \in Seq(Seq(0..FileEnd)) /\ Len(records) = Len(Lists)
  BY ImageFields DEF AInv, TypeOK, Stages, Late
<1>2. DOMAIN records = DOMAIN Lists /\ DOMAIN records = 1..Len(records)
  BY <1>1
<1>3. ASSUME NEW i \in DOMAIN Lists
      PROVE  Elements(records[i]) = listed(i)
  <2>1. i \in 1..Len(records) /\ records[i] \in Seq(0..FileEnd)
        /\ Len(records[i]) <= BIOS_MAX_NUM_RECORD
    BY <1>1, <1>2, <1>3 DEF AInv, TypeOK
  <2>2. CASE Lists[i] = Absent
    <3>1. records[i] = << >>
      BY <2>1, <2>2 DEF AInv, Walk
    <3> QED
      BY <2>2, <3>1 DEF Elements
  <2>3. CASE Lists[i] # Absent
    <3>1. Lists[i] \in Nat
      BY <1>1, <2>3
    <3>2. Begins(records[i], Lists[i])
          /\ (Full(records[i]) \/ ~IsRecord(After(records[i], Lists[i])))
      BY <2>1, <2>3 DEF AInv, Walk
    <3> QED
      BY <1>1, <2>1, <2>3, <3>1, <3>2, ListIsChainRead
  <2> QED
    BY <2>2, <2>3
<1> HIDE DEF listed
<1>4. Connectors = UNION {{Connector(i, h) : h \in {g \in listed(i) : IsI2c(g)}} :
                            i \in DOMAIN Lists}
  BY <1>2, <1>3 DEF Connectors
<1> QED
  BY <1>4 DEF listed

\* The report of an image is right when it is printed.
LEMMA ReportIsRight ==
  ASSUME AInv
  PROVE  EveryConsumerAccounted
<1> SUFFICES ASSUME pc = "done"
             PROVE  EveryConsumerAccounted
  BY DEF EveryConsumerAccounted
<1> DEFINE listed(i) == IF Lists[i] = Absent THEN {} ELSE ChainRead(Lists[i])
           linked == UNION {{Connector(i, h) : h \in {g \in listed(i) : IsI2c(g)}} :
                              i \in DOMAIN Lists}
           named  == linked \cup {c \in {OemBoard} : OemI2cPresent}
<1>1. named = Consumers
  <2>1. Connectors = linked
    BY ConnectorsAreNamed
  <2>2. {c \in {OemBoard} : OemI2cPresent} = IF OemI2cPresent THEN {OemBoard} ELSE {}
    OBVIOUS
  <2> HIDE DEF linked
  <2> QED
    BY <2>1, <2>2 DEF Consumers
<1>2. report = [pins    |-> [i \in DOMAIN Pins |-> {c \in Consumers : c.id = Pins[i]}],
                orphans |-> {c.id : c \in Consumers} \ Elements(Pins)]
  BY DEF AInv, Reported
<1> HIDE DEF named, linked, listed
<1>3. /\ \A i \in DOMAIN Pins : report.pins[i] = {c \in named : c.id = Pins[i]}
      /\ \A c \in named : c.id \in report.orphans <=> c.id \notin Elements(Pins)
      /\ report.orphans \subseteq {c.id : c \in named}
  BY <1>1, <1>2
<1> QED
  BY <1>3 DEF EveryConsumerAccounted, named, linked, listed

\* A report that is printed names the consumers the image has and no other: a
\* pin shown without one is in no record list and is not the OEM bus.
THEOREM ConsumersAccounted == Spec => []EveryConsumerAccounted
<1>1. AInv => EveryConsumerAccounted
  BY ReportIsRight
<1> QED
  BY <1>1, AtomInvHolds, PTL

=============================================================================
