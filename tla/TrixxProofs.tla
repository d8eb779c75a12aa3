---------------------------- MODULE TrixxProofs ----------------------------
(***************************************************************************)
(* The properties of the analysis, proved from TrixxInv.                   *)
(***************************************************************************)
EXTENDS TrixxInvariant, KeyRecovery

-----------------------------------------------------------------------------
(* decrypt_res.py                                                          *)

\* The blob in work, and the header.
LEMMA InWork ==
  ASSUME source \in SourceSet, index \in 1..Len(Names)
  PROVE  LET s == source[Names[index]] IN
         /\ s.plain \in Seq(Byte) /\ s.key \in Seq(Byte) \ {<< >>}
         /\ Blob(Names[index]) = Encrypted(s.plain, s.key)
         /\ Blob(Names[index]) \in Seq(Byte)
         /\ Len(Blob(Names[index])) = Len(s.plain)
         /\ Len(MZ) \in Nat \ {0}
<1>1. index \in DOMAIN Names
  BY NamesAssumption
<1>2. source[Names[index]] \in [plain : Seq(Byte), key : Seq(Byte) \ {<< >>}]
  BY <1>1 DEF SourceSet
<1> DEFINE s == source[Names[index]]
<1>3. s.plain \in Seq(Byte) /\ s.key \in Seq(Byte) \ {<< >>}
  BY <1>2
<1>4. Blob(Names[index]) = Encrypted(s.plain, s.key)
  BY DEF Blob
<1> HIDE DEF s
<1>5. Encrypted(s.plain, s.key) \in Seq(Byte) /\ Len(Encrypted(s.plain, s.key)) = Len(s.plain)
  BY <1>3, Unchained
<1>6. Len(MZ) \in Nat \ {0}
  BY HeaderAssumption
<1> QED
  BY <1>3, <1>4, <1>5, <1>6 DEF s

\* A key that repeats in the header of a plaintext that begins with it.
Recoverable(s) == SubSeq(s.plain, 1, Len(MZ)) = MZ /\ 2 * Len(s.key) <= Len(MZ) + 2

\* The turn of the search that finds a period writes the plaintext.
LEMMA WritesPlaintext ==
  ASSUME KeySearch, halted = "no",
         NEW c, c = Blob(Names[index]),
         NEW s, s = source[Names[index]],
         Len(c) >= Len(MZ), Repeats(Raw(c), length), Recoverable(s)
  PROVE  decrypt(c, SubSeq(Raw(c), 1, length)) = s.plain
<1>1. index \in 1..Len(Names)
  BY NamesAssumption DEF KeySearch
<1>2. /\ s.plain \in Seq(Byte) /\ s.key \in Seq(Byte) \ {<< >>}
      /\ c = Encrypted(s.plain, s.key) /\ Len(c) = Len(s.plain) /\ Len(MZ) \in Nat \ {0}
  BY <1>1, InWork DEF KeySearch
<1> DEFINE raw == [j \in 1..Len(MZ) |-> Cyclic(s.key, j)]
<1>3. Raw(c) = raw
  BY <1>2, RawShowsKey DEF Recoverable
<1>4. length \in 1..Len(MZ) /\ \A L \in 1..length - 1 : ~Repeats(raw, L)
  BY <1>3 DEF KeySearch
<1>5. Repeats(raw, length) /\ 2 * Len(s.key) <= Len(MZ) + 2
  BY <1>3 DEF Recoverable
<1>6. \A i \in Nat \ {0} : Cyclic(SubSeq(raw, 1, length), i) = Cyclic(s.key, i)
  BY <1>2, <1>4, <1>5, ShortestPeriod
<1> HIDE DEF raw
<1>7. decrypt(Encrypted(s.plain, s.key), SubSeq(raw, 1, length)) = s.plain
  BY <1>2, <1>6, DecryptsBack
<1> QED
  BY <1>2, <1>3, <1>7

\* The search begins with the first blob and the shortest length.
LEMMA InitKeySearch == AnalysisInit => KeySearch
<1> SUFFICES ASSUME AnalysisInit PROVE KeySearch
  OBVIOUS
<1>1. source \in SourceSet /\ index = 1 /\ length = 1 /\ written = << >> /\ halted = "no"
  BY ScenarioAssumption DEF AnalysisInit, DecryptInit
<1>2. Len(Names) \in Nat \ {0} /\ Len(MZ) \in Nat \ {0}
  BY NamesAssumption, HeaderAssumption
<1> QED
  BY <1>1, <1>2 DEF KeySearch, PlaintextComesBack, EveryBlobAnswered

\* A turn of the search, a blob that is too short or missing, and the trace preserve it.
LEMMA NextKeySearch == KeySearch /\ [Decrypt \/ Trace]_analysis => KeySearch'
<1> SUFFICES ASSUME KeySearch, [Decrypt \/ Trace]_analysis PROVE KeySearch'
  OBVIOUS
<1>1. CASE UNCHANGED decrypting
  BY <1>1 DEF KeySearch, decrypting, Blob, PlaintextComesBack, EveryBlobAnswered
<1>2. CASE TooShort \/ Missing
  <2>1. /\ UNCHANGED <<source, index, length, written>> /\ halted = "no"
        /\ \/ halted' = "IndexError" /\ Len(Blob(Names[index])) < Len(MZ)
           \/ halted' = "FileNotFoundError"
    BY <1>2 DEF TooShort, Missing
  <2>2. index \in 1..Len(Names) /\ Len(written) = index - 1
    BY <2>1, NamesAssumption DEF KeySearch
  <2>3. Len(written) + 1 = index /\ Len(written) < Len(Names)
    BY <2>2, NamesAssumption
  <2>4. \A n : Blob(n)' = Blob(n)
    BY <2>1 DEF Blob
  <2>5. EveryBlobAnswered'
    BY <2>1, <2>3, <2>4 DEF EveryBlobAnswered, KeySearch
  <2>6. PlaintextComesBack'
    BY <2>1 DEF KeySearch, PlaintextComesBack
  <2> QED
    BY <2>1, <2>2, <2>5, <2>6 DEF KeySearch
<1>3. CASE TryLength
  <2> DEFINE c == Blob(Names[index])
             s == source[Names[index]]
             key == SubSeq(Raw(c), 1, length)
  <2>1. halted = "no" /\ Len(c) >= Len(MZ) /\ source' = source
    BY <1>3 DEF TryLength
  <2>2. index \in 1..Len(Names) /\ Len(Names) \in Nat
    BY <2>1, NamesAssumption DEF KeySearch
  <2>3. /\ c \in Seq(Byte) /\ Len(MZ) \in Nat \ {0} /\ length \in 1..Len(MZ)
    BY <2>2, InWork DEF KeySearch
  <2>4. Raw(c) \in Seq(Byte) /\ Len(Raw(c)) = Len(MZ)
    BY <2>1, <2>3, BytesOut
  <2>5. CASE /\ Repeats(Raw(c), length)
             /\ written' = Append(written, decrypt(c, key))
             /\ NextBlob
    <3>1. key \in Seq(Byte) \ {<< >>}
      BY <2>3, <2>4
    <3>2. decrypt(c, key) \in Seq(Byte)
      BY <2>1, <2>3, <3>1, BytesOut
    <3>3. Recoverable(s) => decrypt(c, key) = s.plain
      BY <2>1, <2>5, WritesPlaintext
    <3>7. Len(decrypt(c, key)) = Len(c)
      BY <2>1, <2>3, <3>1, BytesOut
    <3>8. \A n : Blob(n)' = Blob(n)
      BY <2>1 DEF Blob
    <3>9. c = Blob(Names[index])
      OBVIOUS
    <3> HIDE DEF c, key
    <3>4. written' \in Seq(Seq(Byte)) /\ Len(written') = index
      BY <2>5, <3>2 DEF KeySearch
    <3>5. index' = index + 1 /\ length' = 1 /\ halted' = IF index = Len(Names) THEN "done" ELSE "no"
      BY <2>5 DEF NextBlob
    <3>6. PlaintextComesBack'
      <4>1. SUFFICES ASSUME NEW n \in DOMAIN written', Recoverable(source[Names[n]])
                     PROVE  written'[n] = source[Names[n]].plain
        BY <2>1 DEF PlaintextComesBack, Recoverable
      <4>2. n \in 1..index /\ written \in Seq(Seq(Byte)) /\ Len(written) = index - 1
        BY <3>4 DEF KeySearch
      <4>3. CASE n = index
        BY <4>1, <4>2, <4>3, <2>5, <3>3
      <4>4. CASE n # index
        <5>1. n \in DOMAIN written /\ written'[n] = written[n]
          BY <2>2, <2>5, <3>2, <4>2, <4>4
        <5> QED
          BY <4>1, <5>1 DEF KeySearch, PlaintextComesBack, Recoverable
      <4> QED
        BY <4>3, <4>4
    <3>10. EveryBlobAnswered'
      <4>1. written \in Seq(Seq(Byte)) /\ Len(written) = index - 1
        BY DEF KeySearch
      <4>2. ASSUME NEW n \in DOMAIN written'
            PROVE  Len(written'[n]) = Len(Blob(Names[n])) /\ Len(written'[n]) >= Len(MZ)
        <5>1. n \in 1..index
          BY <3>4
        <5>2. CASE n = index
          BY <5>1, <5>2, <4>1, <2>1, <2>2, <2>5, <3>2, <3>7, <3>9
        <5>3. CASE n # index
          <6>1. n \in DOMAIN written /\ written'[n] = written[n]
            BY <5>1, <5>3, <4>1, <2>2, <2>5, <3>2
          <6> QED
            BY <6>1 DEF KeySearch, EveryBlobAnswered
        <5> QED
          BY <5>2, <5>3
      <4>3. halted' = "done" => Len(written') = Len(Names)
        BY <3>4, <3>5
      <4>4. halted' # "IndexError"
        BY <3>5
      <4> QED
        BY <4>2, <4>3, <4>4, <3>8 DEF EveryBlobAnswered
    <3> QED
      BY <2>1, <2>2, <2>3, <3>4, <3>5, <3>6, <3>10 DEF KeySearch
  <2>6. CASE /\ ~Repeats(Raw(c), length)
             /\ length' = length + 1
             /\ UNCHANGED <<index, written, halted>>
    <3>1. length # Len(MZ)
      BY <2>3, <2>4, <2>6, WholePeriod
    <3>2. length' \in 1..Len(MZ)
      BY <2>3, <2>6, <3>1
    <3>3. c' = c
      BY <2>1, <2>6 DEF Blob
    <3>4. \A L \in 1..length' - 1 : ~Repeats(Raw(c), L)
      BY <2>1, <2>3, <2>6 DEF KeySearch
    <3>5. PlaintextComesBack'
      BY <2>1, <2>6 DEF KeySearch, PlaintextComesBack
    <3>6. EveryBlobAnswered'
      BY <2>1, <2>6 DEF KeySearch, EveryBlobAnswered, Blob
    <3> QED
      BY <2>1, <2>6, <3>2, <3>3, <3>4, <3>5, <3>6 DEF KeySearch
  <2> QED
    BY <1>3, <2>5, <2>6 DEF TryLength
<1> QED
  BY <1>1, <1>2, <1>3 DEF analysis, Decrypt, DecryptNext, Trace

-----------------------------------------------------------------------------
(* What the patterns find                                                  *)

\* The first place found is one, and comes before the others.
LEMMA MinIs ==
  ASSUME NEW S \in SUBSET Nat, S # {}
  PROVE  Min(S) \in S /\ \A y \in S : Min(S) <= y
<1>1. \E x \in S : \A y \in S : x <= y
  BY LeastElement
<1> QED
  BY <1>1, Zenon DEF Min

\* The last place found is one, and comes after the others.
LEMMA MaxIs ==
  ASSUME NEW n \in Nat, NEW S \in SUBSET (1..n), S # {}
  PROVE  Max(S) \in S /\ \A y \in S : Max(S) >= y
<1> DEFINE T == {k \in Nat : n - k \in S}
<1>1. \A x \in S : n - x \in T /\ n - (n - x) = x
  <2>1. \A x \in S : x \in Nat /\ n - x \in Nat /\ n - (n - x) = x
    OBVIOUS
  <2> QED
    BY <2>1
<1>2. PICK m \in T : \A k \in T : m <= k
  BY <1>1, LeastElement, T \subseteq Nat
<1>3. \E x \in S : \A y \in S : x >= y
  <2>1. n - m \in S /\ m \in Nat
    OBVIOUS
  <2>2. ASSUME NEW y \in S PROVE n - m >= y
    <3>1. y \in Nat
      OBVIOUS
    <3>2. n - y \in T
      BY <1>1
    <3> HIDE DEF T
    <3>3. m <= n - y
      BY <1>2, <3>2
    <3> QED
      BY <2>1, <3>1, <3>3
  <2> QED
    BY <2>1, <2>2
<1> QED
  BY <1>3, Zenon DEF Max

\* Two places leave one when one is taken away.
LEMMA TwoOf ==
  ASSUME NEW S, NEW x, Cardinality(S) >= 2
  PROVE  S # {} /\ S \ {x} # {}
<1>1. Cardinality({}) = 0 /\ Cardinality({x}) = 1
  BY FS_EmptySet, FS_Singleton
<1>2. S \ {x} = {} => S = {} \/ S = {x}
  OBVIOUS
<1> QED
  BY <1>1, <1>2

\* A branch is one of the places found.
LEMMA BranchIsFound ==
  ASSUME NEW S \in SUBSET Nat, Cardinality(S) >= 2
  PROVE  Min(S) \in S /\ Min(S \ {Min(S)}) \in S
<1>1. S # {} /\ S \ {Min(S)} # {}
  BY TwoOf
<1> DEFINE R == S \ {Min(S)}
<1>2. R \in SUBSET Nat /\ R # {}
  BY <1>1
<1> HIDE DEF R
<1>3. Min(R) \in R
  BY <1>2, MinIs
<1> QED
  BY <1>1, <1>3, MinIs DEF R

-----------------------------------------------------------------------------
(* Types of the trace                                                      *)

\* num4, the case and the value of an expression stay in their widths.
LEMMA NumberTypes ==
  ASSUME NEW n \in Num
  PROVE  /\ Num4(n) \in Num /\ CaseOf(n) \in 0..MOD - 1
         /\ \A e \in Expression : Value(e, n) \in Num
<1>1. Num4(n) \in Num
  BY TraceAssumption, ExorAssumption DEF Num4
<1>2. CaseOf(n) \in 0..MOD - 1
  <2>1. Num4(n) \in Nat
    BY <1>1, WideAssumption DEF Num
  <2> QED
    BY <2>1, TraceAssumption, Remainder DEF CaseOf
<1>3. ASSUME NEW e \in Expression PROVE Value(e, n) \in Num
  <2>1. e.mul \in 0..Wide - 1 /\ e.xor \in Num /\ Num4(n) \in 0..Wide - 1
    BY <1>1 DEF Expression, Num
  <2>2. e.mul * Num4(n) \in 0..Wide * Wide
    <3> DEFINE a == e.mul
               b == Num4(n)
    <3>1. a \in 0..Wide - 1 /\ b \in 0..Wide - 1 /\ Wide \in Nat \ {0}
      BY <2>1, WideAssumption
    <3> HIDE DEF a, b
    <3>2. a * b \in Nat /\ a * b <= Wide * Wide /\ Wide * Wide \in Nat
      BY <3>1, Z3
    <3> QED
      BY <3>2 DEF a, b
  <2>3. Exor(e.mul * Num4(n), e.xor) \in Nat
    BY <2>1, <2>2, ExorAssumption
  <2> QED
    BY <2>3, WideAssumption, Remainder DEF Value, Num
<1> QED
  BY <1>1, <1>2, <1>3

\* What stands at a place where a pattern matches.
LEMMA PlaceTypes ==
  ASSUME NEW text \in Seq(Statement), NEW i \in DOMAIN text
  PROVE  /\ text[i].kind \in {"assign", "xor"} => text[i].e \in Expression
         /\ text[i].kind = "pick" => text[i].c \in Num
<1>1. text[i] \in Statement
  OBVIOUS
<1> QED
  BY <1>1 DEF Statement

\* eval_expr returns a number or nothing.
LEMMA EvalTypes ==
  ASSUME NEW n \in Num, NEW e \in Expression
  PROVE  Eval(e, n) \subseteq Num
BY NumberTypes DEF Eval

\* The patterns find places of the text.
LEMMA FoundPlaces ==
  ASSUME NEW text \in Seq(Statement), NEW kinds
  PROVE  /\ Found(text, kinds) \in SUBSET Nat /\ Found(text, kinds) \in SUBSET (1..Len(text))
         /\ \A i \in Found(text, kinds) : i \in DOMAIN text /\ text[i].kind \in kinds
BY DEF Found

\* The next number is a number.
LEMMA NewNum3Types ==
  ASSUME NEW text \in Seq(Statement), NEW n \in Num
  PROVE  NewNum3(text, n) \subseteq Num
<1> DEFINE ifs     == Found(text, {"if"})
           assigns == Found(text, {"assign", "xor"})
           picks   == Found(text, {"pick"})
           final   == Found(text, {"xor"})
           at(S)   == IF Holds(text[Min(ifs)]) THEN Min(S) ELSE Min(S \ {Min(S)})
<1>1. /\ \A S \in {assigns, picks, final} : S \in SUBSET Nat
      /\ assigns \in SUBSET (1..Len(text)) /\ Len(text) \in Nat
      /\ \A i \in assigns : i \in DOMAIN text /\ text[i].kind \in {"assign", "xor"}
      /\ \A i \in picks : i \in DOMAIN text /\ text[i].kind = "pick"
      /\ \A i \in final : i \in DOMAIN text /\ text[i].kind = "xor"
  BY FoundPlaces
<1> HIDE DEF ifs, assigns, picks, final
<1>2. \A S \in {assigns, picks} : Cardinality(S) >= 2 => at(S) \in S
  BY <1>1, BranchIsFound
<1>3. \A i \in assigns \cup final : text[i].e \in Expression /\ Eval(text[i].e, n) \subseteq Num
  BY <1>1, PlaceTypes, EvalTypes
<1>4. \A i \in picks : text[i].c \in Num
  BY <1>1, PlaceTypes
<1>5. final # {} => Min(final) \in final
  BY <1>1, MinIs
<1>6. assigns # {} => Max(assigns) \in assigns
  BY <1>1, MaxIs
<1> HIDE DEF at
<1>7. Taken(text, n) \subseteq Num
  <2>1. Taken(text, n) \in
          {{}, Eval(text[at(assigns)].e, n), {Exor(text[at(picks)].c, v) : v \in Eval(text[Min(final)].e, n)}}
    BY DEF Taken, ifs, assigns, picks, final, at
  <2>2. CASE Taken(text, n) = {}
    BY <2>2
  <2>3. CASE /\ Cardinality(assigns) >= 2
             /\ Taken(text, n) = Eval(text[at(assigns)].e, n)
    BY <2>3, <1>2, <1>3
  <2>4. CASE /\ Cardinality(picks) >= 2 /\ final # {}
             /\ Taken(text, n) = {Exor(text[at(picks)].c, v) : v \in Eval(text[Min(final)].e, n)}
    <3>1. text[at(picks)].c \in Num /\ Eval(text[Min(final)].e, n) \subseteq Num
      BY <2>4, <1>2, <1>3, <1>4, <1>5
    <3> QED
      BY <2>4, <3>1, ExorAssumption
  <2>5. \/ Taken(text, n) = {}
        \/ /\ Cardinality(assigns) >= 2
           /\ Taken(text, n) = Eval(text[at(assigns)].e, n)
        \/ /\ Cardinality(picks) >= 2 /\ final # {}
           /\ Taken(text, n) = {Exor(text[at(picks)].c, v) : v \in Eval(text[Min(final)].e, n)}
    BY DEF Taken, ifs, assigns, picks, final, at
  <2> QED
    BY <2>2, <2>3, <2>4, <2>5
<1>8. \/ NewNum3(text, n) = Taken(text, n)
      \/ NewNum3(text, n) = {}
      \/ assigns # {} /\ NewNum3(text, n) = Eval(text[Max(assigns)].e, n)
  BY DEF NewNum3, assigns
<1> QED
  BY <1>3, <1>6, <1>7, <1>8

\* The text of a case, and what is looked up in it.
LEMMA TextTypes ==
  ASSUME table \in ProgramSet, NEW c \in 0..MOD - 1, table.cases[c] # Absent
  PROVE  table.cases[c] \in Seq(Statement) /\ Text(c) \in Seq(Statement)
<1>1. table.cases[c] \in Seq(Statement) /\ table.rest \in Seq(Statement)
  BY DEF ProgramSet
<1> QED
  BY <1>1 DEF Text

\* The trace begins at the initial num3, if there is one.
LEMMA InitTracked == AnalysisInit => Tracked
<1> SUFFICES ASSUME AnalysisInit PROVE Tracked
  OBVIOUS
<1>1. table \in ProgramSet
  BY ScenarioAssumption DEF AnalysisInit
<1>2. table.init \in Num \cup {Absent}
  BY <1>1 DEF ProgramSet
<1>3. num3 = table.init /\ seen = {} /\ step = 0
  BY DEF AnalysisInit, TraceInit
<1> QED
  BY <1>1, <1>2, <1>3, TraceAssumption DEF Tracked

\* Every turn keeps the types.
LEMMA NextTracked == Tracked /\ [Decrypt \/ Trace]_analysis => Tracked'
<1> SUFFICES ASSUME Tracked, [Decrypt \/ Trace]_analysis PROVE Tracked'
  OBVIOUS
<1>1. CASE UNCHANGED tracing
  BY <1>1 DEF Tracked, tracing
<1>2. CASE NoInitial \/ StepLimit \/ LoopFound \/ NoCase
  BY <1>2 DEF NoInitial, StepLimit, LoopFound, NoCase, Stop, Tracked
<1>3. CASE LookUp
  <2> DEFINE c == CaseOf(num3)
             text == Text(c)
  <2>1. /\ num3 \in Num /\ step \in 0..Limit /\ step < Limit
        /\ table.cases[c] # Absent /\ table \in ProgramSet
    BY <1>3 DEF LookUp, Turn, Tracked
  <2>2. c \in 0..MOD - 1
    BY <2>1, NumberTypes
  <2>3. NewNum3(text, num3) \subseteq Num
    BY <2>1, <2>2, TextTypes, NewNum3Types
  <2>4. /\ table' = table /\ seen' = seen \cup {<<num3, c>>}
        /\ \/ num3' = num3 /\ step' = step
           \/ num3' \in NewNum3(text, num3) /\ step' = step + 1
    BY <1>3 DEF LookUp
  <2> HIDE DEF c, text
  <2>5. seen' \subseteq Num \X (0..MOD - 1)
    BY <2>1, <2>2, <2>4 DEF Tracked
  <2>6. num3' \in Num /\ step' \in 0..Limit
    BY <2>1, <2>3, <2>4, TraceAssumption
  <2> QED
    BY <2>1, <2>4, <2>5, <2>6 DEF Tracked
<1> QED
  BY <1>1, <1>2, <1>3 DEF analysis, Decrypt, Trace, TraceNext, tracing

-----------------------------------------------------------------------------
(* The script follows the method                                           *)

\* Firsts, lasts and numbers of the few places of a case that goes on.
LEMMA FewPlaces ==
  /\ Min({1}) = 1 /\ Max({1}) = 1
  /\ Min({4}) = 4 /\ Max({4}) = 4 /\ Cardinality({4}) = 1
  /\ Min({2, 3}) = 2 /\ Min({2, 3} \ {2}) = 3 /\ Max({2, 3}) = 3 /\ Cardinality({2, 3}) = 2
<1>1. ASSUME NEW i \in Nat PROVE Min({i}) = i /\ Max({i}) = i /\ Cardinality({i}) = 1
  <2>1. Min({i}) = i
    BY MinIs
  <2>2. Max({i}) = i
    <3>1. CASE i = 0
      BY <3>1 DEF Max
    <3>2. CASE i # 0
      BY <3>2, MaxIs, {i} \in SUBSET (1..i)
    <3> QED
      BY <3>1, <3>2
  <2>3. Cardinality({i}) = 1
    BY FS_Singleton
  <2> QED
    BY <2>1, <2>2, <2>3
<1>2. Min({2, 3}) = 2
  BY MinIs, {2, 3} \in SUBSET Nat
<1>3. Max({2, 3}) = 3
  BY MaxIs, {2, 3} \in SUBSET (1..3)
<1>4. {2, 3} \ {2} = {3} /\ {2} \cup {3} = {2, 3}
  OBVIOUS
<1>5. Cardinality({2, 3}) = 2
  <2>1. IsFiniteSet({2}) /\ Cardinality({2}) = 1
    BY FS_Singleton
  <2>2. Cardinality({2} \cup {3}) = 2
    BY <2>1, FS_AddElement
  <2> QED
    BY <1>4, <2>2
<1> QED
  BY <1>1, <1>2, <1>3, <1>4, <1>5

\* What the script reads out of a case that goes on is what the case does.
LEMMA ReadsWhatItDoes ==
  ASSUME NEW text \in Seq(Statement), GoesOnForm(text), NEW n \in Num
  PROVE  NewNum3(text, n) \subseteq {After(text, n)}
<1> DEFINE found(kinds) == Found(text, kinds)
<1>1. DOMAIN text = 1..Len(text)
  OBVIOUS
<1>2. CASE Len(text) = 1 /\ text[1].kind = "assign"
  <2>1. found({"if"}) = {} /\ found({"assign", "xor"}) = {1}
    BY <1>1, <1>2 DEF Found
  <2>2. Taken(text, n) = {}
    BY <2>1 DEF Taken
  <2>3. NewNum3(text, n) = Eval(text[1].e, n)
    BY <2>1, <2>2, <1>2, FewPlaces DEF NewNum3
  <2>4. After(text, n) = Value(text[1].e, n)
    BY <1>2 DEF After
  <2> QED
    BY <2>3, <2>4 DEF Eval
<1>3. CASE /\ Len(text) = 3 /\ text[1].kind = "if"
           /\ text[2].kind = "assign" /\ text[3].kind = "assign"
           /\ text[3].e.known => text[2].e.known
  <2> DEFINE branch == IF Holds(text[1]) THEN 2 ELSE 3
  <2>1. found({"if"}) = {1} /\ found({"assign", "xor"}) = {2, 3}
    BY <1>1, <1>3 DEF Found
  <2> DEFINE ifs == found({"if"})
             assigns == found({"assign", "xor"})
  <2>2. Taken(text, n) = Eval(text[branch].e, n)
    <3> HIDE DEF found
    <3>1. ifs # {} /\ Min(ifs) = 1
      BY <2>1, FewPlaces
    <3>2. Min(assigns) = 2 /\ Min(assigns \ {Min(assigns)}) = 3 /\ Cardinality(assigns) = 2
      <4> HIDE DEF assigns
      <4>1. assigns = {2, 3}
        BY <2>1 DEF assigns
      <4> QED
        BY <4>1, FewPlaces, Zenon
    <3>3. Cardinality(assigns) >= 2
      BY <3>2
    <3>4. text[branch].kind = "assign"
      BY <1>3
    <3> USE DEF found
    <3> QED
      BY <3>1, <3>2, <3>3, <3>4 DEF Taken
  <2>3. After(text, n) = Value(text[branch].e, n)
    BY <1>3 DEF After
  <2>4. NewNum3(text, n) = IF Taken(text, n) # {} THEN Taken(text, n) ELSE Eval(text[3].e, n)
    BY <2>1, <1>3, FewPlaces DEF NewNum3
  <2>5. Taken(text, n) = {} => Eval(text[3].e, n) = {}
    BY <2>2, <1>3 DEF Eval
  <2> QED
    BY <2>2, <2>3, <2>4, <2>5 DEF Eval
<1>4. CASE /\ Len(text) = 4 /\ text[1].kind = "if"
           /\ text[2].kind = "pick" /\ text[3].kind = "pick" /\ text[4].kind = "xor"
  <2> DEFINE branch == IF Holds(text[1]) THEN 2 ELSE 3
  <2>1. /\ found({"if"}) = {1} /\ found({"assign", "xor"}) = {4}
        /\ found({"pick"}) = {2, 3} /\ found({"xor"}) = {4}
    BY <1>1, <1>4 DEF Found
  <2> DEFINE ifs == found({"if"})
             assigns == found({"assign", "xor"})
             picks == found({"pick"})
             final == found({"xor"})
  <2>2. Taken(text, n) = {Exor(text[branch].c, v) : v \in Eval(text[4].e, n)}
    <3> HIDE DEF found
    <3>1. ifs # {} /\ Min(ifs) = 1
      BY <2>1, FewPlaces
    <3>2. Min(picks) = 2 /\ Min(picks \ {Min(picks)}) = 3 /\ Cardinality(picks) = 2
      <4> HIDE DEF picks
      <4>1. picks = {2, 3}
        BY <2>1 DEF picks
      <4> QED
        BY <4>1, FewPlaces, Zenon
    <3>3. final # {} /\ Min(final) = 4
      BY <2>1, FewPlaces
    <3>4. Cardinality(assigns) = 1
      BY <2>1, FewPlaces
    <3>5. ~(Cardinality(assigns) >= 2) /\ Cardinality(picks) >= 2
      BY <3>2, <3>4
    <3> USE DEF found
    <3> QED
      BY <3>1, <3>2, <3>3, <3>5 DEF Taken
  <2>3. After(text, n) = Exor(text[branch].c, Value(text[4].e, n))
    BY <1>4 DEF After
  <2>4. NewNum3(text, n) = Taken(text, n)
    BY <2>1, <1>4, FewPlaces DEF NewNum3
  <2> QED
    BY <2>2, <2>3, <2>4 DEF Eval
<1> QED
  BY <1>2, <1>3, <1>4 DEF GoesOnForm

\* In a legible case a return is reached if one occurs, and of the kind that occurs.
LEMMA ReturnsWhereItEnds ==
  ASSUME NEW text \in Seq(Statement), ReturnForm(text) \/ GoesOnForm(text)
  PROVE  /\ Returns(text) <=> Ends(text) # {}
         /\ Returns(text) =>
              text[Min(Ends(text))].kind = IF Occurs(text, "descriptor") THEN "descriptor" ELSE "return"
<1>1. /\ DOMAIN text = 1..Len(text) /\ Len(text) \in Nat
      /\ Returns(text) <=> \E i \in DOMAIN text : text[i].kind \in {"descriptor", "return"}
      /\ \A i \in Ends(text) : i \in DOMAIN text /\ text[i].kind \in {"descriptor", "return"}
  BY DEF Returns, Occurs, Found, Ends
<1>2. CASE ReturnForm(text)
  <2>1. PICK i \in Found(text, {"descriptor", "return"}) :
          \A j \in Found(text, {"if"}) : i # j + 1 /\ i # j + 2
    BY <1>2 DEF ReturnForm
  <2>2. i \in Ends(text)
    BY <2>1 DEF Ends, Executed, Found
  <2>3. Min(Ends(text)) \in Ends(text)
    <3>1. Ends(text) \in SUBSET Nat
      BY <1>1
    <3> QED
      BY <2>2, <3>1, MinIs
  <2>4. ~(Occurs(text, "descriptor") /\ Occurs(text, "return"))
    BY <1>2 DEF ReturnForm
  <2>5. \A k \in Ends(text) : Occurs(text, text[k].kind)
    BY <1>1 DEF Occurs, Found
  <2>6. text[Min(Ends(text))].kind \in {"descriptor", "return"}
    BY <1>1, <2>3
  <2>7. Returns(text)
    BY <1>1, <2>2
  <2> QED
    BY <2>2, <2>3, <2>4, <2>5, <2>6, <2>7
<1>3. CASE GoesOnForm(text)
  <2>1. \A i \in DOMAIN text : text[i].kind \in {"assign", "if", "pick", "xor"}
    BY <1>1, <1>3 DEF GoesOnForm
  <2> QED
    BY <1>1, <2>1
<1> QED
  BY <1>2, <1>3

\* The number after one turn of the method.
Turned(n) ==
  LET text == table.cases[CaseOf(n)] IN
  IF text = Absent \/ Ends(text) # {} THEN n ELSE After(text, n)

IsCourse(f, m) == f = [k \in 0..m |-> IF k = 0 THEN table.init ELSE Turned(f[k - 1])]

\* The method's course is what its turns make it.
LEMMA CourseLaw ==
  /\ Course[0] = table.init
  /\ \A k \in 1..Wide : Course[k] = Turned(Course[k - 1])
<1> DEFINE T == {m \in Nat : ~ \E f : IsCourse(f, m)}
<1>1. T = {}
  <2>1. SUFFICES ASSUME T # {} PROVE FALSE
    OBVIOUS
  <2>2. PICK m \in T : \A k \in T : m <= k
    BY <2>1, LeastElement, T \subseteq Nat
  <2>3. CASE m = 0
    <3>1. IsCourse([k \in 0..0 |-> table.init], 0)
      BY DEF IsCourse
    <3> QED
      BY <3>1, <2>3
  <2>4. CASE m # 0
    <3>1. m - 1 \in Nat /\ m - 1 \notin T
      BY <2>2, <2>4
    <3>2. PICK f : IsCourse(f, m - 1)
      BY <3>1
    <3> DEFINE g == [k \in 0..m |-> IF k = m THEN Turned(f[m - 1]) ELSE f[k]]
    <3>3. \A k \in 0..m - 1 : f[k] = IF k = 0 THEN table.init ELSE Turned(f[k - 1])
      BY <3>1, <3>2 DEF IsCourse
    <3>4. \A k \in 0..m : g[k] = IF k = 0 THEN table.init ELSE Turned(g[k - 1])
      BY <3>1, <3>3, <2>4
    <3>5. IsCourse(g, m)
      BY <3>4 DEF IsCourse
    <3> QED
      BY <3>5
  <2> QED
    BY <2>3, <2>4
<1>2. \E f : IsCourse(f, Wide)
  BY <1>1, WideAssumption
<1> DEFINE c == CHOOSE f : IsCourse(f, Wide)
<1>3. IsCourse(c, Wide)
  BY <1>2, Zenon
<1>4. Course = c
  BY DEF Course, IsCourse, Turned
<1> HIDE DEF c
<1>5. \A k \in 0..Wide : c[k] = IF k = 0 THEN table.init ELSE Turned(c[k - 1])
  BY <1>3 DEF IsCourse
<1> QED
  BY <1>4, <1>5, WideAssumption

\* A case the method does not leave is where it ends.
LEMMA CourseRests ==
  ASSUME NEW s \in 0..Wide, Turned(Course[s]) = Course[s]
  PROVE  Course[Wide] = Course[s]
<1> DEFINE T == {k \in s..Wide : Course[k] # Course[s]}
<1>1. SUFFICES ASSUME T # {} PROVE FALSE
  BY WideAssumption
<1>2. PICK k \in T : \A j \in T : k <= j
  BY <1>1, LeastElement, T \subseteq Nat
<1>3. k # s /\ k \in s..Wide
  OBVIOUS
<1>4. k - 1 \in s..Wide /\ k - 1 \notin T /\ k \in 1..Wide
  BY <1>2, <1>3, WideAssumption
<1>5. Course[k - 1] = Course[s]
  BY <1>4
<1>6. Course[k] = Turned(Course[k - 1])
  BY <1>4, CourseLaw
<1> QED
  BY <1>5, <1>6

\* A number met again is met for ever.
LEMMA CourseLoops ==
  ASSUME NEW s \in 0..Wide, NEW j \in 0..s - 1, Course[s] = Course[j],
         \A k \in 0..s - 1 : GoesOn(Course[k])
  PROVE  GoesOn(Course[Wide])
<1> DEFINE T == {k \in s..Wide : \A i \in 0..s - 1 : Course[k] # Course[i]}
<1>1. T = {}
  <2>1. SUFFICES ASSUME T # {} PROVE FALSE
    OBVIOUS
  <2>2. PICK k \in T : \A i \in T : k <= i
    BY <2>1, LeastElement, T \subseteq Nat
  <2>3. k # s /\ k \in s..Wide
    OBVIOUS
  <2>4. k - 1 \in s..Wide /\ k - 1 \notin T /\ k \in 1..Wide
    BY <2>2, <2>3, WideAssumption
  <2>5. PICK i \in 0..s - 1 : Course[k - 1] = Course[i]
    BY <2>4
  <2>6. i + 1 \in 1..Wide /\ (i + 1) - 1 = i
    BY WideAssumption
  <2>7. Course[k] = Turned(Course[k - 1]) /\ Course[i + 1] = Turned(Course[i])
    BY <2>4, <2>6, CourseLaw
  <2>8. Course[k] = Course[i + 1]
    BY <2>5, <2>7
  <2>9. i + 1 \in 0..s - 1 \/ i + 1 = s
    OBVIOUS
  <2> QED
    BY <2>8, <2>9
<1>2. Wide \in s..Wide
  BY WideAssumption
<1>3. PICK i \in 0..s - 1 : Course[Wide] = Course[i]
  BY <1>1, <1>2
<1> QED
  BY <1>3

\* What the method does is fixed with the program and the card.
LEMMA MethodIsFixed ==
  ASSUME UNCHANGED <<table, device>>
  PROVE  /\ Course' = Course /\ Method' = Method
         /\ \A n : GoesOn(n)' <=> GoesOn(n)
<1>1. Course' = Course
  BY DEF Course, After, Holds, Ends, Executed, Value, Num4, CaseOf, Found
<1>2. Method' = Method
  <2> HIDE DEF Course
  <2> QED
    BY <1>1 DEF Method, Ends, Executed, Holds, CaseOf, Num4, Found
<1>3. \A n : GoesOn(n)' <=> GoesOn(n)
  BY DEF GoesOn, CaseOf, Num4, Ends, Executed, Holds, Found
<1> QED
  BY <1>1, <1>2, <1>3

\* The verdict on a case the method does not leave.
LEMMA VerdictAtRest ==
  ASSUME NEW s \in 0..Wide, NEW text, text = table.cases[CaseOf(Course[s])],
         text = Absent \/ Ends(text) # {}
  PROVE  /\ Course[Wide] = Course[s]
         /\ Method = IF text = Absent THEN "no case" ELSE text[Min(Ends(text))].kind
<1>1. Turned(Course[s]) = Course[s]
  BY DEF Turned
<1>2. Course[Wide] = Course[s]
  BY <1>1, CourseRests
<1> QED
  BY <1>2 DEF Method

\* The trace begins where the method does.
LEMMA InitFollowed == AnalysisInit => Followed
<1> SUFFICES ASSUME AnalysisInit PROVE Followed
  OBVIOUS
<1>1. num3 = table.init /\ seen = {} /\ step = 0 /\ verdict = "none yet"
  BY DEF AnalysisInit, TraceInit
<1>2. VerdictIsTheMethods
  BY <1>1 DEF VerdictIsTheMethods
<1>3. num3 = Course[step]
  BY <1>1, CourseLaw
<1>4. 0..step - 1 = {}
  <2>1. step \in Nat /\ step = 0
    BY <1>1
  <2> QED
    BY <2>1
<1> QED
  BY <1>1, <1>2, <1>3, <1>4 DEF Followed

\* A turn of the trace is a turn of the method; a verdict is the method's.
LEMMA NextFollowed == Tracked /\ Followed /\ [Decrypt \/ Trace]_analysis => Followed'
<1> SUFFICES ASSUME Tracked, Followed, [Decrypt \/ Trace]_analysis, Legible(table)'
             PROVE  Followed'
  BY DEF Followed
<1>1. UNCHANGED <<table, device>>
  BY DEF analysis, Decrypt, Trace, TraceNext, tracing, NoInitial, StepLimit, LoopFound, NoCase,
         LookUp, Stop
<1>2. /\ num3 = Course[step]
      /\ \A k \in 0..step - 1 : GoesOn(Course[k])
      /\ verdict = "none yet" => \A pair \in seen : \E k \in 0..step - 1 : pair[1] = Course[k]
      /\ VerdictIsTheMethods
      /\ table.rest = << >>
      /\ \A c \in 0..MOD - 1 :
           LET text == table.cases[c] IN text = Absent \/ ReturnForm(text) \/ GoesOnForm(text)
  <2>1. Legible(table)
    BY <1>1
  <2> QED
    BY <2>1 DEF Followed, Legible
<1>3. Course' = Course /\ Method' = Method /\ \A n : GoesOn(n)' <=> GoesOn(n)
  BY <1>1, MethodIsFixed
<1>4. step \in 0..Wide /\ step \in Nat
  BY TraceAssumption, WideAssumption DEF Tracked
<1>5. SUFFICES /\ num3' = Course[step']
               /\ \A k \in 0..step' - 1 : GoesOn(Course[k])
               /\ verdict' = "none yet" => \A pair \in seen' : \E k \in 0..step' - 1 : pair[1] = Course[k]
               /\ verdict' \in {"descriptor", "return", "loop", "no case"} => verdict' = Method
               /\ verdict' \in {"descriptor", "return", "no case"} => num3' = Course[Wide]
  BY <1>3 DEF Followed, VerdictIsTheMethods
<1>6. CASE UNCHANGED tracing
  BY <1>2, <1>6 DEF tracing, VerdictIsTheMethods
<1>7. CASE NoInitial \/ StepLimit
  BY <1>2, <1>7 DEF NoInitial, StepLimit, Stop
<1>8. CASE LoopFound
  <2>1. verdict = "none yet" /\ <<num3, CaseOf(num3)>> \in seen /\ num3' = num3 /\ step' = step
        /\ seen' = seen /\ verdict' = "loop"
    BY <1>8 DEF LoopFound, Turn, Tracing, Met, Stop
  <2>2. PICK k \in 0..step - 1 : num3 = Course[k]
    BY <2>1, <1>2
  <2>3. GoesOn(Course[Wide])
    BY <2>2, <1>2, <1>4, CourseLoops
  <2>4. Method = "loop"
    BY <2>3 DEF Method, GoesOn
  <2> QED
    BY <2>1, <2>4, <1>2
<1>9. CASE NoCase
  <2>1. table.cases[CaseOf(num3)] = Absent /\ num3' = num3 /\ step' = step
        /\ seen' = seen /\ verdict' = "no case"
    BY <1>9 DEF NoCase, Stop
  <2>2. Course[Wide] = num3 /\ Method = "no case"
    BY <2>1, <1>2, <1>4, VerdictAtRest
  <2> QED
    BY <2>1, <2>2, <1>2
<1>10. CASE LookUp
  <2> DEFINE c    == CaseOf(num3)
             text == table.cases[c]
  <2>1. /\ verdict = "none yet" /\ num3 \in Num /\ step < Limit /\ text # Absent
        /\ table \in ProgramSet
    BY <1>10 DEF LookUp, Turn, Tracing, Tracked
  <2>2. c \in 0..MOD - 1
    BY <2>1, NumberTypes
  <2>3. text \in Seq(Statement) /\ Text(c) = text
    <3>1. text \in Seq(Statement)
      BY <2>1, <2>2, TextTypes
    <3>2. text \o << >> = text
      BY <3>1
    <3> QED
      BY <3>1, <3>2, <1>2 DEF Text
  <2>4. seen' = seen \cup {<<num3, c>>}
    BY <1>10 DEF LookUp
  <2>10. /\ Returns(text) <=> Ends(text) # {}
         /\ Returns(text) =>
              text[Min(Ends(text))].kind = IF Occurs(text, "descriptor") THEN "descriptor" ELSE "return"
    BY <2>1, <2>2, <2>3, <1>2, ReturnsWhereItEnds
  <2>5. CASE /\ Occurs(text, "descriptor") /\ verdict' = "descriptor"
             /\ UNCHANGED <<num3, step>>
    <3>1. Course[Wide] = num3 /\ Method = "descriptor"
      BY <2>1, <2>5, <2>10, <1>2, <1>4, VerdictAtRest DEF Returns
    <3> QED
      BY <3>1, <2>5, <1>2
  <2>6. CASE /\ ~Occurs(text, "descriptor") /\ Occurs(text, "return") /\ verdict' = "return"
             /\ UNCHANGED <<num3, step>>
    <3>1. Course[Wide] = num3 /\ Method = "return"
      BY <2>1, <2>6, <2>10, <1>2, <1>4, VerdictAtRest DEF Returns
    <3> QED
      BY <3>1, <2>6, <1>2
  <2>7. CASE verdict' = "stuck" /\ UNCHANGED <<num3, step>>
    BY <2>7, <1>2
  <2>8. CASE /\ ~Returns(text) /\ num3' \in NewNum3(text, num3)
             /\ step' = step + 1 /\ verdict' = verdict
    <3>1. GoesOnForm(text) /\ Ends(text) = {}
      BY <2>1, <2>2, <2>8, <2>10, <1>2 DEF ReturnForm, Returns, Occurs, Found
    <3>2. num3' = Turned(num3)
      BY <2>1, <2>3, <2>8, <3>1, ReadsWhatItDoes DEF Turned
    <3>3. step' \in 1..Wide /\ step' - 1 = step
      <4>1. step' = step + 1 /\ step < Limit /\ Limit \in Nat /\ Limit <= Wide /\ Wide \in Nat
        BY <2>1, <2>8, TraceAssumption, WideAssumption
      <4> QED
        BY <4>1, <1>4
    <3>4. num3' = Course[step']
      BY <3>2, <3>3, <1>2, CourseLaw
    <3>5. GoesOn(Course[step])
      BY <2>1, <3>1, <1>2 DEF GoesOn
    <3>6. \A k \in 0..step' - 1 : GoesOn(Course[k])
      <4>1. 0..step' - 1 = 0..step /\ step \in Nat
        BY <3>3, <1>4
      <4>2. \A k \in 0..step : k \in 0..step - 1 \/ k = step
        BY <4>1
      <4> QED
        BY <4>1, <4>2, <3>5, <1>2
    <3>7. \A pair \in seen' : \E k \in 0..step' - 1 : pair[1] = Course[k]
      <4>1. step \in 0..step' - 1 /\ \A k \in 0..step - 1 : k \in 0..step' - 1
        <5>1. 0..step' - 1 = 0..step /\ step \in Nat
          BY <3>3, <1>4
        <5>2. step \in 0..step /\ \A k \in 0..step - 1 : k \in 0..step
          BY <5>1
        <5> QED
          BY <5>1, <5>2
      <4>2. ASSUME NEW pair \in seen' PROVE \E k \in 0..step' - 1 : pair[1] = Course[k]
        <5>1. CASE pair \in seen
          BY <5>1, <4>1, <2>1, <1>2
        <5>2. CASE pair = <<num3, c>>
          BY <5>2, <4>1, <1>2
        <5> QED
          BY <5>1, <5>2, <2>4
      <4> QED
        BY <4>2
    <3> QED
      BY <2>1, <2>8, <3>4, <3>6, <3>7
  <2>9. \/ /\ Occurs(text, "descriptor") /\ verdict' = "descriptor"
           /\ UNCHANGED <<num3, step>>
        \/ /\ ~Occurs(text, "descriptor") /\ Occurs(text, "return") /\ verdict' = "return"
           /\ UNCHANGED <<num3, step>>
        \/ verdict' = "stuck" /\ UNCHANGED <<num3, step>>
        \/ /\ ~Returns(text) /\ num3' \in NewNum3(text, num3)
           /\ step' = step + 1 /\ verdict' = verdict
    BY <1>10, <2>3 DEF LookUp
  <2> QED
    BY <2>5, <2>6, <2>7, <2>8, <2>9
<1> QED
  BY <1>6, <1>7, <1>8, <1>9, <1>10 DEF analysis, Decrypt, Trace, TraceNext, tracing

-----------------------------------------------------------------------------
(* Theorems                                                                *)

\* TrixxInv holds of every run of the scripts, whatever was encrypted and whatever
\* program is traced.
THEOREM TrixxInvHolds == AnalysisSpec => []TrixxInv
<1>1. AnalysisInit => TrixxInv
  BY InitKeySearch, InitTracked, InitFollowed DEF TrixxInv
<1>2. TrixxInv /\ [Decrypt \/ Trace]_analysis => TrixxInv'
  BY NextKeySearch, NextTracked, NextFollowed DEF TrixxInv
<1> QED
  BY <1>1, <1>2, PTL DEF AnalysisSpec

\* Every variable stays in its type; in particular a key length is found before
\* MaxLen is exceeded, and num3 keeps the width of the method's integers.
THEOREM TrixxTypeCorrect == AnalysisSpec => []TypeOK
<1>1. TrixxInv => TypeOK
  <2> SUFFICES ASSUME TrixxInv PROVE TypeOK
    OBVIOUS
  <2>1. length \in 1..MaxLen
    BY HeaderAssumption DEF TrixxInv, KeySearch
  <2> QED
    BY <2>1 DEF TrixxInv, KeySearch, Tracked, TypeOK
<1> QED
  BY <1>1, TrixxInvHolds, PTL

\* decrypt_res.py: a file that is written is the vendor's plaintext, for every
\* plaintext with the header and every key of at most half the header and one byte.
THEOREM PlaintextRecovered == AnalysisSpec => []PlaintextComesBack
<1>1. TrixxInv => PlaintextComesBack
  BY DEF TrixxInv, KeySearch
<1> QED
  BY <1>1, TrixxInvHolds, PTL

\* decrypt_res.py: a normal end means that every blob has been written in full, and an
\* IndexError that those before a blob shorter than the header have been.
THEOREM BlobsAnswered == AnalysisSpec => []EveryBlobAnswered
<1>1. TrixxInv => EveryBlobAnswered
  BY DEF TrixxInv, KeySearch
<1> QED
  BY <1>1, TrixxInvHolds, PTL

\* trace_model_table.py: what it reports of a card is what the method does with
\* it, for every program it can read as it is meant.
THEOREM VerdictCorrect ==
  ASSUME \A s \in Scenario : Legible(s.table)
  PROVE  AnalysisSpec => []VerdictIsTheMethods
<1>1. AnalysisInit => Legible(table)
  BY DEF AnalysisInit
<1>2. Legible(table) /\ [Decrypt \/ Trace]_analysis => Legible(table)'
  BY DEF analysis, Decrypt, Trace, TraceNext, tracing, NoInitial, StepLimit, LoopFound, NoCase,
         LookUp, Stop
<1>3. TrixxInv /\ Legible(table) => VerdictIsTheMethods
  BY DEF TrixxInv, Followed
<1> QED
  BY <1>1, <1>2, <1>3, TrixxInvHolds, PTL DEF AnalysisSpec
=============================================================================
