---------------------------- MODULE KeyRecovery ----------------------------
(***************************************************************************)
(* Why decrypt_res.py finds a key that decrypts: undoing the chain leaves  *)
(* the plaintext XORed with the running key, so the header uncovers the    *)
(* key as it runs along it; and a period of that is a period of the key    *)
(* when the header is long enough.                                         *)
(***************************************************************************)
EXTENDS DecryptRes, FiniteSetTheorems, WellFoundedInduction, NaturalsInduction, TLAPS

\* A set of naturals has a least element; it stands in for induction below.
LEMMA LeastElement ==
  ASSUME NEW T, T \subseteq Nat, T # {}
  PROVE  \E m \in T : \A k \in T : m <= k
<1> DEFINE R == OpToRel(<, Nat)
<1>1. IsWellFoundedOn(R, Nat)
  BY NatLessThanWellFounded
<1> HIDE DEF R
<1>2. PICK m \in T : \A k \in T : <<k, m>> \notin R
  BY <1>1, WFMin
<1>3. \A k \in T : k < m => <<k, m>> \in R
  BY Zenon DEF R, OpToRel
<1>4. ASSUME NEW k \in T PROVE m <= k
  <2>1. m \in Nat /\ k \in Nat
    OBVIOUS
  <2>2. ~(k < m)
    BY <1>2, <1>3, Zenon
  <2> QED
    BY <2>1, <2>2
<1> QED
  BY <1>4

\* What is used of the remainder.
LEMMA Remainder ==
  ASSUME NEW a \in Nat, NEW K \in Nat \ {0}
  PROVE  /\ a % K \in 0..K - 1
         /\ a < K => a % K = a
         /\ (a + K) % K = a % K
<1> DEFINE q == a \div K
           r == a % K
           s == (a + K) \div K
           t == (a + K) % K
<1>1. /\ r \in 0..K - 1 /\ q \in Nat /\ a = q * K + r
      /\ t \in 0..K - 1 /\ s \in Nat /\ a + K = s * K + t
  BY Z3
<1>2. /\ a < K => r = a
      /\ t = r
  <2> HIDE DEF q, r, s, t
  <2>1. \A x, y \in Nat : x < y => (x + 1) * K <= y * K
    BY Z3
  <2>2. (q + 1) * K = q * K + K /\ q * K >= 0 /\ (q # 0 => q * K >= K)
    BY <1>1, Z3
  <2>3. ~(s < q + 1) /\ ~(q + 1 < s)
    BY <1>1, <2>1, <2>2
  <2> QED
    BY <1>1, <2>2, <2>3
<1> QED
  BY <1>1, <1>2

-----------------------------------------------------------------------------
(* Encryption and its inverse                                              *)

\* One link of the chain over the one before.
Link(p, key, i, before) == Exor(Exor(p[i], Cyclic(key, i)), before)

\* f is the chain of the first n bytes.
IsChain(f, p, key, n) ==
  f = [i \in 0..n |-> IF i = 0 THEN 0 ELSE Link(p, key, i, f[i - 1])]

\* The recursion of Encrypted defines a function: of a shortest start of the
\* plaintext without one the last link could be added.
LEMMA ChainExists ==
  ASSUME NEW p, NEW key
  PROVE  \A n \in Nat : \E f : IsChain(f, p, key, n)
<1> DEFINE T == {n \in Nat : ~ \E f : IsChain(f, p, key, n)}
<1>1. SUFFICES ASSUME T # {} PROVE FALSE
  OBVIOUS
<1>2. PICK n \in T : \A k \in T : n <= k
  BY <1>1, LeastElement
<1>3. CASE n = 0
  <2>1. IsChain([i \in 0..0 |-> 0], p, key, 0)
    BY DEF IsChain
  <2> QED
    BY <2>1, <1>3
<1>4. CASE n # 0
  <2>1. n - 1 \in Nat /\ n - 1 \notin T
    BY <1>2, <1>4
  <2>2. PICK f : IsChain(f, p, key, n - 1)
    BY <2>1
  <2> DEFINE g == [i \in 0..n |-> IF i = n THEN Link(p, key, n, f[n - 1]) ELSE f[i]]
  <2>3. \A i \in 0..n - 1 : f[i] = IF i = 0 THEN 0 ELSE Link(p, key, i, f[i - 1])
    BY <2>1, <2>2 DEF IsChain
  <2>4. \A i \in 0..n : g[i] = IF i = 0 THEN 0 ELSE Link(p, key, i, g[i - 1])
    BY <2>1, <2>3, <1>4
  <2>5. IsChain(g, p, key, n)
    BY <2>4 DEF IsChain
  <2> QED
    BY <2>5
<1> QED
  BY <1>3, <1>4

\* What the vendor writes is such a chain.
LEMMA EncryptedLinks ==
  ASSUME NEW p \in Seq(Byte), NEW key \in Seq(Byte) \ {<< >>}
  PROVE  \E f : /\ IsChain(f, p, key, Len(p))
                /\ Encrypted(p, key) = [i \in DOMAIN p |-> f[i]]
<1> DEFINE c == CHOOSE f : IsChain(f, p, key, Len(p))
<1>1. \E f : IsChain(f, p, key, Len(p))
  BY ChainExists, Len(p) \in Nat
<1>2. IsChain(c, p, key, Len(p))
  BY <1>1, Zenon
<1>3. Encrypted(p, key) = [i \in DOMAIN p |-> c[i]]
  BY DEF Encrypted, IsChain, Link
<1> QED
  BY <1>2, <1>3

\* The bytes of a running key are bytes.
LEMMA CyclicByte ==
  ASSUME NEW key \in Seq(Byte) \ {<< >>}, NEW i \in Nat \ {0}
  PROVE  Cyclic(key, i) \in Byte
<1>1. Len(key) \in Nat \ {0}
  OBVIOUS
<1>2. (i - 1) % Len(key) \in 0..Len(key) - 1
  BY <1>1, Remainder, i - 1 \in Nat
<1> DEFINE r == (i - 1) % Len(key)
<1> HIDE DEF r
<1>3. r + 1 \in 1..Len(key)
  BY <1>1, <1>2 DEF r
<1> QED
  BY <1>3 DEF Cyclic, r

\* The chain is made of bytes.
LEMMA ChainOfBytes ==
  ASSUME NEW p \in Seq(Byte), NEW key \in Seq(Byte) \ {<< >>}, NEW f, IsChain(f, p, key, Len(p))
  PROVE  \A i \in 0..Len(p) : f[i] \in Byte
<1> DEFINE T == {i \in 0..Len(p) : f[i] \notin Byte}
<1>1. SUFFICES ASSUME T # {} PROVE FALSE
  OBVIOUS
<1>2. PICK i \in T : \A k \in T : i <= k
  BY <1>1, LeastElement, T \subseteq Nat
<1>3. f[i] = IF i = 0 THEN 0 ELSE Link(p, key, i, f[i - 1])
  BY DEF IsChain
<1>4. CASE i = 0
  BY <1>3, <1>4, ExorAssumption
<1>5. CASE i # 0
  <2>1. i - 1 \in 0..Len(p) /\ i - 1 \notin T
    BY <1>2, <1>5
  <2>2. p[i] \in Byte /\ f[i - 1] \in Byte /\ Cyclic(key, i) \in Byte
    BY <2>1, <1>5, CyclicByte
  <2>3. Link(p, key, i, f[i - 1]) \in Byte
    BY <2>2, ExorAssumption DEF Link
  <2> QED
    BY <2>3, <1>3, <1>5
<1> QED
  BY <1>4, <1>5

\* Undoing the chain leaves the plaintext XORed with the running key.
LEMMA Unchained ==
  ASSUME NEW p \in Seq(Byte), NEW key \in Seq(Byte) \ {<< >>}
  PROVE  LET c == Encrypted(p, key) IN
         /\ c \in Seq(Byte) /\ Len(c) = Len(p)
         /\ \A i \in DOMAIN p : unchain(c)[i] = Exor(p[i], Cyclic(key, i))
<1> DEFINE c == Encrypted(p, key)
<1>1. PICK f : IsChain(f, p, key, Len(p)) /\ c = [i \in DOMAIN p |-> f[i]]
  BY EncryptedLinks
<1> HIDE DEF c
<1>2. DOMAIN p = 1..Len(p) /\ Len(p) \in Nat
  OBVIOUS
<1>3. \A i \in 0..Len(p) : f[i] \in Byte
  BY <1>1, ChainOfBytes
<1>4. c \in [1..Len(p) -> Byte]
  BY <1>1, <1>2, <1>3
<1>5. c \in Seq(Byte) /\ Len(c) = Len(p)
  BY <1>2, <1>4
<1>6. ASSUME NEW i \in DOMAIN p
      PROVE  unchain(c)[i] = Exor(p[i], Cyclic(key, i))
  <2> DEFINE before == IF i = 1 THEN 0 ELSE c[i - 1]
             mixed  == Exor(p[i], Cyclic(key, i))
  <2>1. i \in 1..Len(p)
    BY <1>2
  <2>2. before = f[i - 1]
    BY <2>1, <1>1, <1>2 DEF IsChain
  <2>3. f[i] = Exor(mixed, f[i - 1])
    BY <2>1, <1>1 DEF IsChain, Link
  <2>4. unchain(c)[i] = Exor(c[i], before)
    BY <2>1, <1>4 DEF unchain
  <2>5. p[i] \in Byte /\ Cyclic(key, i) \in Byte
    BY <2>1, CyclicByte
  <2>6. mixed \in Byte /\ f[i - 1] \in Byte
    BY <2>1, <2>5, <1>3, ExorAssumption
  <2>7. Exor(Exor(mixed, f[i - 1]), f[i - 1]) = mixed
    BY <2>6, ExorAssumption
  <2>8. c[i] = f[i]
    BY <1>1
  <2> QED
    BY <2>2, <2>3, <2>4, <2>7, <2>8
<1> QED
  BY <1>5, <1>6 DEF c

\* Along the header the key shows.
LEMMA RawShowsKey ==
  ASSUME NEW p \in Seq(Byte), NEW key \in Seq(Byte) \ {<< >>},
         Len(p) >= Len(MZ), SubSeq(p, 1, Len(MZ)) = MZ
  PROVE  Raw(Encrypted(p, key)) = [i \in 1..Len(MZ) |-> Cyclic(key, i)]
<1> DEFINE u == unchain(Encrypted(p, key))
<1>1. \A i \in DOMAIN p : u[i] = Exor(p[i], Cyclic(key, i))
  BY Unchained
<1> HIDE DEF u
<1>2. Len(p) \in Nat /\ DOMAIN p = 1..Len(p) /\ Len(MZ) \in Nat /\ DOMAIN MZ = 1..Len(MZ)
  BY HeaderAssumption
<1>3. ASSUME NEW i \in 1..Len(MZ) PROVE Exor(u[i], MZ[i]) = Cyclic(key, i)
  <2>1. i \in DOMAIN p /\ MZ[i] = p[i]
    BY <1>2
  <2>2. MZ[i] \in Byte /\ Cyclic(key, i) \in Byte
    BY <1>2, HeaderAssumption, CyclicByte
  <2>3. u[i] = Exor(Cyclic(key, i), MZ[i])
    BY <1>1, <2>1, <2>2, ExorAssumption
  <2> QED
    BY <2>2, <2>3, ExorAssumption
<1> QED
  BY <1>2, <1>3 DEF Raw, u

\* A key that runs like the vendor's gives the plaintext back.
LEMMA DecryptsBack ==
  ASSUME NEW p \in Seq(Byte), NEW key \in Seq(Byte) \ {<< >>}, NEW found,
         \A i \in Nat \ {0} : Cyclic(found, i) = Cyclic(key, i)
  PROVE  decrypt(Encrypted(p, key), found) = p
<1> DEFINE c == Encrypted(p, key)
<1>1. /\ c \in Seq(Byte) /\ Len(c) = Len(p)
      /\ \A i \in DOMAIN p : unchain(c)[i] = Exor(p[i], Cyclic(key, i))
  BY Unchained
<1> HIDE DEF c
<1>2. DOMAIN c = 1..Len(p) /\ DOMAIN p = 1..Len(p) /\ p = [i \in DOMAIN p |-> p[i]]
  BY <1>1
<1>3. ASSUME NEW i \in 1..Len(p) PROVE Exor(unchain(c)[i], Cyclic(found, i)) = p[i]
  <2>1. p[i] \in Byte /\ Cyclic(key, i) \in Byte
    BY CyclicByte
  <2> QED
    BY <1>1, <1>2, <2>1, ExorAssumption
<1>4. decrypt(c, found) = [i \in DOMAIN p |-> p[i]]
  BY <1>2, <1>3 DEF decrypt
<1> QED
  BY <1>2, <1>4 DEF c

-----------------------------------------------------------------------------
(* Periods                                                                 *)

\* A running key repeats after its length.
LEMMA KeyRuns ==
  ASSUME NEW key \in Seq(Byte) \ {<< >>}, NEW i \in Nat \ {0}
  PROVE  Cyclic(key, i + Len(key)) = Cyclic(key, i)
<1>1. Len(key) \in Nat \ {0} /\ i - 1 \in Nat
  OBVIOUS
<1>2. ((i - 1) + Len(key)) % Len(key) = (i - 1) % Len(key)
  BY <1>1, Remainder
<1>3. (i + Len(key)) - 1 = (i - 1) + Len(key)
  BY <1>1
<1> QED
  BY <1>2, <1>3 DEF Cyclic

\* What the script compares: the start of the key runs like its first L bytes.
LEMMA CyclicPrefix ==
  ASSUME NEW key \in Seq(Byte) \ {<< >>}, NEW m \in Nat, NEW L \in 1..m, NEW i \in Nat \ {0}
  PROVE  LET raw == [j \in 1..m |-> Cyclic(key, j)] IN
         /\ Cyclic(SubSeq(raw, 1, L), i) = Cyclic(key, ((i - 1) % L) + 1)
         /\ i > L => Cyclic(SubSeq(raw, 1, L), i) = Cyclic(SubSeq(raw, 1, L), i - L)
<1> DEFINE raw == [j \in 1..m |-> Cyclic(key, j)]
           r   == (i - 1) % L
<1>1. raw \in Seq(Byte) /\ Len(raw) = m
  BY CyclicByte
<1>2. /\ Len(SubSeq(raw, 1, L)) = L
      /\ \A j \in 1..L : SubSeq(raw, 1, L)[j] = Cyclic(key, j)
  BY <1>1
<1>3. i - 1 \in Nat /\ L \in Nat \ {0}
  OBVIOUS
<1>4. r \in 0..L - 1
  BY <1>3, Remainder
<1>5. i > L => ((i - L) - 1) % L = r
  <2>1. SUFFICES ASSUME i > L PROVE ((i - L) - 1) % L = r
    OBVIOUS
  <2>2. (i - L) - 1 \in Nat /\ ((i - L) - 1) + L = i - 1
    BY <2>1
  <2> QED
    BY <2>2, <1>3, Remainder
<1> HIDE DEF r
<1>6. r + 1 \in 1..L
  BY <1>4, <1>3
<1>7. Cyclic(SubSeq(raw, 1, L), i) = Cyclic(key, r + 1)
  BY <1>2, <1>6 DEF Cyclic, r
<1>8. i > L => Cyclic(SubSeq(raw, 1, L), i - L) = Cyclic(key, r + 1)
  BY <1>2, <1>5, <1>6 DEF Cyclic
<1> QED
  BY <1>7, <1>8 DEF r

\* A period that shows along the header is one of the running key.  The header
\* shows all but one of the places at which key and shifted key must agree; the
\* shift is a permutation of the places, so the last one agrees as well.
LEMMA KeyPeriod ==
  ASSUME NEW key \in Seq(Byte) \ {<< >>}, NEW m \in Nat, NEW L \in 1..Len(key),
         2 * Len(key) <= m + 2, L <= m,
         Repeats([j \in 1..m |-> Cyclic(key, j)], L)
  PROVE  \A i \in Nat \ {0} : Cyclic(key, i + L) = Cyclic(key, i)
<1> DEFINE K    == Len(key)
           k(i) == Cyclic(key, i)
           raw  == [j \in 1..m |-> k(j)]
<1>1. K \in Nat \ {0} /\ L \in Nat \ {0}
  OBVIOUS
<1>2. \A i \in Nat \ {0} : k(i + K) = k(i)
  BY KeyRuns
<1>3. \A i \in 1..m : i > L => k(i) = k(i - L)
  <2>1. Len(raw) = m
    OBVIOUS
  <2>2. \A i \in 1..m : k(i) = Cyclic(SubSeq(raw, 1, L), i)
    BY <2>1 DEF Repeats
  <2>3. ASSUME NEW i \in 1..m, i > L PROVE k(i) = k(i - L)
    <3>1. i \in Nat \ {0} /\ i - L \in 1..m
      BY <2>3
    <3>2. Cyclic(SubSeq(raw, 1, L), i) = Cyclic(SubSeq(raw, 1, L), i - L)
      BY <3>1, <2>3, CyclicPrefix
    <3> QED
      BY <2>2, <3>1, <3>2
  <2> QED
    BY <2>3
<1> HIDE DEF k, raw, K
<1>4. CASE L = K
  BY <1>2, <1>4 DEF k, K
<1>5. CASE L # K
  <2>1. L < K /\ 2 * K <= m + 2
    BY <1>1, <1>5 DEF K
  <2>2. \A i \in 1..K - 1 : k(i + L) = k(i)
    <3>1. ASSUME NEW i \in 1..K - 1 PROVE i + L \in 1..m /\ (i + L) - L = i /\ i + L > L
      BY <1>1, <2>1
    <3> QED
      BY <3>1, <1>3
  <2> DEFINE next == [i \in 1..K |-> IF i + L <= K THEN i + L ELSE (i + L) - K]
             S    == {i \in 1..K : k(i) = k(K + L)}
  <2>3. \A i \in 1..K : next[i] \in 1..K /\ k(next[i]) = k(i + L)
    <3>1. ASSUME NEW i \in 1..K PROVE next[i] \in 1..K /\ k(next[i]) = k(i + L)
      <4>1. CASE i + L <= K
        BY <1>1, <4>1
      <4>2. CASE ~(i + L <= K)
        <5>1. (i + L) - K \in 1..K /\ ((i + L) - K) + K = i + L
          BY <1>1, <2>1, <4>2
        <5> QED
          BY <5>1, <1>2, <4>2
      <4> QED
        BY <4>1, <4>2
    <3> QED
      BY <3>1
  <2>4. \A i, j \in 1..K : next[i] = next[j] => i = j
    BY <1>1, <2>1
  <2>5. K \in S
    <3>1. SUFFICES ASSUME K \notin S PROVE FALSE
      OBVIOUS
    <3> DEFINE U == S \cup {K}
    <3>2. IsFiniteSet(S) /\ Cardinality(S) \in Nat
      <4>1. IsFiniteSet(1..K)
        BY <1>1, FS_Interval
      <4>2. IsFiniteSet(S)
        BY <4>1, FS_Subset, S \in SUBSET (1..K)
      <4> QED
        BY <4>2, FS_CardinalityType
    <3>3. IsFiniteSet(U) /\ Cardinality(S) < Cardinality(U)
      <4> HIDE DEF S
      <4>1. IsFiniteSet(U) /\ Cardinality(U) = Cardinality(S) + 1
        BY <3>1, <3>2, FS_AddElement
      <4> QED
        BY <4>1, <3>2
    <3>4. \A i \in U : next[i] \in S
      <4>1. ASSUME NEW i \in U PROVE k(i + L) = k(K + L)
        <5>1. CASE i = K
          BY <5>1
        <5>2. CASE i # K
          BY <5>2, <2>2, <1>1
        <5> QED
          BY <5>1, <5>2
      <4>2. U \subseteq 1..K
        BY <1>1
      <4>3. ASSUME NEW i \in U PROVE next[i] \in S
        <5>1. next[i] \in 1..K /\ k(next[i]) = k(K + L)
          BY <4>1, <4>2, <2>3
        <5> HIDE DEF next
        <5> QED
          BY <5>1
      <4> QED
        BY <4>3
    <3> DEFINE f == [i \in U |-> next[i]]
    <3>5. f \in [U -> S]
      BY <3>4
    <3>6. PICK i, j \in U : i # j /\ f[i] = f[j]
      <4> HIDE DEF S, U, f
      <4> QED
        BY <3>2, <3>3, <3>5, FS_PigeonHole
    <3> QED
      BY <3>6, <2>4, <1>1
  <2>6. \A i \in 1..K : k(i + L) = k(i)
    <3>1. k(K + L) = k(K)
      BY <2>5
    <3>2. \A i \in 1..K : i = K \/ i \in 1..K - 1
      BY <1>1
    <3> QED
      BY <2>2, <3>1, <3>2
  <2> DEFINE T == {i \in Nat \ {0} : k(i + L) # k(i)}
  <2>7. T = {}
    <3>1. SUFFICES ASSUME T # {} PROVE FALSE
      OBVIOUS
    <3>2. PICK i \in T : \A j \in T : i <= j
      BY <3>1, LeastElement, T \subseteq Nat
    <3>3. i > K
      BY <2>6, <1>1
    <3>4. i - K \in Nat \ {0} /\ i - K \notin T
      BY <3>2, <3>3, <1>1
    <3>5. k((i - K) + L) = k(i - K)
      BY <3>4
    <3>6. (i - K) + K = i /\ ((i - K) + L) + K = i + L /\ (i - K) + L \in Nat \ {0}
      BY <3>3, <1>1
    <3>7. k(i) = k(i - K) /\ k(i + L) = k((i - K) + L)
      BY <3>4, <3>6, <1>2
    <3> QED
      BY <3>5, <3>7
  <2> QED
    BY <2>7 DEF k
<1> QED
  BY <1>4, <1>5

\* The bytes the script takes for the key run like the vendor's.
LEMMA FoundKeyRuns ==
  ASSUME NEW key \in Seq(Byte) \ {<< >>}, NEW m \in Nat, NEW L \in 1..Len(key),
         2 * Len(key) <= m + 2, L <= m,
         Repeats([j \in 1..m |-> Cyclic(key, j)], L)
  PROVE  \A i \in Nat \ {0} :
           Cyclic(SubSeq([j \in 1..m |-> Cyclic(key, j)], 1, L), i) = Cyclic(key, i)
<1> DEFINE k(i)     == Cyclic(key, i)
           found(i) == Cyclic(SubSeq([j \in 1..m |-> Cyclic(key, j)], 1, L), i)
           T        == {i \in Nat \ {0} : found(i) # k(i)}
<1>1. \A i \in Nat \ {0} : k(i + L) = k(i)
  BY KeyPeriod
<1>2. \A i \in Nat \ {0} : i > L => found(i) = found(i - L)
  BY CyclicPrefix
<1>3. ASSUME NEW i \in 1..L PROVE found(i) = k(i)
  <2>1. i - 1 \in Nat /\ L \in Nat \ {0} /\ i - 1 < L
    OBVIOUS
  <2>2. (i - 1) % L = i - 1
    BY <2>1, Remainder
  <2>3. (i - 1) + 1 = i /\ i \in Nat \ {0} /\ L \in 1..m
    BY <2>1
  <2>4. found(i) = k(((i - 1) % L) + 1)
    BY <2>3, CyclicPrefix
  <2> QED
    BY <2>2, <2>3, <2>4
<1> HIDE DEF found, k
<1>4. SUFFICES ASSUME T # {} PROVE FALSE
  BY DEF found, k
<1>5. PICK i \in T : \A j \in T : i <= j
  BY <1>4, LeastElement, T \subseteq Nat
<1>6. i > L
  BY <1>3
<1>7. i - L \in Nat \ {0} /\ i - L \notin T /\ (i - L) + L = i
  BY <1>5, <1>6
<1>8. k(i) = k(i - L) /\ found(i) = found(i - L)
  BY <1>1, <1>2, <1>6, <1>7
<1> QED
  BY <1>7, <1>8

\* The key's own length is a period, and so is that of all that is compared.
LEMMA OwnPeriod ==
  ASSUME NEW key \in Seq(Byte) \ {<< >>}, NEW m \in Nat, Len(key) <= m
  PROVE  Repeats([j \in 1..m |-> Cyclic(key, j)], Len(key))
<1> DEFINE K   == Len(key)
           raw == [j \in 1..m |-> Cyclic(key, j)]
<1>1. K \in Nat \ {0} /\ K \in 1..m /\ Len(raw) = m
  OBVIOUS
<1>2. ASSUME NEW i \in 1..m PROVE raw[i] = Cyclic(SubSeq(raw, 1, K), i)
  <2> DEFINE r == (i - 1) % K
  <2>1. r \in 0..K - 1
    BY <1>1, Remainder, i - 1 \in Nat
  <2>2. r \in Nat /\ r < K
    BY <1>1, <2>1
  <2>3. r % K = r
    BY <1>1, <2>2, Remainder
  <2>4. Cyclic(SubSeq(raw, 1, K), i) = Cyclic(key, r + 1)
    BY <1>1, CyclicPrefix, i \in Nat \ {0}
  <2> HIDE DEF r
  <2>5. (r + 1) - 1 = r
    BY <2>2
  <2>6. Cyclic(key, r + 1) = Cyclic(key, i)
    BY <2>3, <2>5 DEF Cyclic, r
  <2> QED
    BY <2>4, <2>6
<1> QED
  BY <1>1, <1>2 DEF Repeats

\* All that is compared is a period of itself, so the search ends at the header's
\* length.
LEMMA WholePeriod ==
  ASSUME NEW raw \in Seq(Byte) \ {<< >>}
  PROVE  Repeats(raw, Len(raw))
<1>1. Len(raw) \in Nat \ {0} /\ SubSeq(raw, 1, Len(raw)) = raw
  OBVIOUS
<1>2. ASSUME NEW i \in 1..Len(raw) PROVE Cyclic(raw, i) = raw[i]
  <2>1. i - 1 \in Nat /\ i - 1 < Len(raw) /\ (i - 1) + 1 = i
    BY <1>1
  <2>2. (i - 1) % Len(raw) = i - 1
    BY <1>1, <2>1, Remainder
  <2> QED
    BY <2>1, <2>2 DEF Cyclic
<1> QED
  BY <1>1, <1>2 DEF Repeats

\* The shortest period of what the header shows runs like the key.
THEOREM ShortestPeriod ==
  ASSUME NEW key \in Seq(Byte) \ {<< >>}, NEW m \in Nat \ {0}, NEW L \in 1..m,
         2 * Len(key) <= m + 2,
         Repeats([j \in 1..m |-> Cyclic(key, j)], L),
         \A n \in 1..L - 1 : ~Repeats([j \in 1..m |-> Cyclic(key, j)], n)
  PROVE  \A i \in Nat \ {0} :
           Cyclic(SubSeq([j \in 1..m |-> Cyclic(key, j)], 1, L), i) = Cyclic(key, i)
<1>1. Len(key) \in Nat \ {0}
  OBVIOUS
<1>2. Len(key) <= m
  BY <1>1
<1>3. Repeats([j \in 1..m |-> Cyclic(key, j)], Len(key))
  BY <1>2, OwnPeriod
<1>4. L \in 1..Len(key)
  BY <1>1, <1>3
<1> QED
  BY <1>4, FoundKeyRuns

-----------------------------------------------------------------------------
(* Types                                                                   *)

\* What is left of a blob after the chain is undone, the bytes along the header,
\* and the file that is written, which is as long as the blob, are bytes.
LEMMA BytesOut ==
  ASSUME NEW c \in Seq(Byte), Len(c) >= Len(MZ)
  PROVE  /\ Raw(c) \in Seq(Byte) /\ Len(Raw(c)) = Len(MZ)
         /\ \A key \in Seq(Byte) \ {<< >>} :
              decrypt(c, key) \in Seq(Byte) /\ Len(decrypt(c, key)) = Len(c)
<1>1. /\ Len(c) \in Nat /\ DOMAIN c = 1..Len(c)
      /\ Len(MZ) \in Nat /\ DOMAIN MZ = 1..Len(MZ)
      /\ MZ \in [1..Len(MZ) -> Byte]
  BY HeaderAssumption
<1>2. ASSUME NEW i \in 1..Len(c) PROVE unchain(c)[i] \in Byte
  <2> DEFINE before == IF i = 1 THEN 0 ELSE c[i - 1]
  <2>1. c[i] \in Byte /\ before \in Byte
    BY <1>1, ExorAssumption
  <2>2. unchain(c)[i] = Exor(c[i], before)
    BY <1>1 DEF unchain
  <2> QED
    BY <2>1, <2>2, ExorAssumption
<1>3. \A i \in 1..Len(MZ) : Exor(unchain(c)[i], MZ[i]) \in Byte
  <2>1. ASSUME NEW i \in 1..Len(MZ) PROVE Exor(unchain(c)[i], MZ[i]) \in Byte
    <3>1. i \in 1..Len(c) /\ MZ[i] \in Byte
      BY <1>1
    <3> QED
      BY <3>1, <1>2, ExorAssumption
  <2> QED
    BY <2>1
<1>4. Raw(c) \in [1..Len(MZ) -> Byte]
  BY <1>1, <1>3 DEF Raw
<1>5. Raw(c) \in Seq(Byte) /\ Len(Raw(c)) = Len(MZ)
  BY <1>1, <1>4
<1>6. ASSUME NEW key \in Seq(Byte) \ {<< >>}
      PROVE  decrypt(c, key) \in Seq(Byte) /\ Len(decrypt(c, key)) = Len(c)
  <2>1. ASSUME NEW i \in 1..Len(c) PROVE Exor(unchain(c)[i], Cyclic(key, i)) \in Byte
    <3>1. Cyclic(key, i) \in Byte
      BY CyclicByte, <1>1
    <3> QED
      BY <3>1, <1>2, ExorAssumption
  <2>2. decrypt(c, key) \in [1..Len(c) -> Byte]
    BY <1>1, <2>1 DEF decrypt
  <2> QED
    BY <1>1, <2>2
<1> QED
  BY <1>5, <1>6
=============================================================================
