--------------------------- MODULE CommandsProofs ---------------------------
(***************************************************************************)
(* Proofs about Commands, for any levels, modes and jobs: type             *)
(* correctness, what a command that stops anywhere has done to the         *)
(* device, and what exit status 0 says of it.                              *)
(***************************************************************************)
EXTENDS CommandsInvariant, SequenceTheorems, TLAPS

-----------------------------------------------------------------------------
(* The calls of a command                                                  *)

\* What may stand in the series of calls: a value may still be refused.
Operation ==
  [op : {"write"}, reg : Register, value : Value \cup {Bad}, dry : BOOLEAN]
  \cup [op : {"read", "probe"}, reg : Register, dry : BOOLEAN]

Triple == Level \X Level \X Level

\* A value that is given, refused or not, or not given.
Given(value) == value \in Value \cup {Bad, Absent}

\* A write is an operation on the register it names.
LEMMA WriteOpFields ==
  ASSUME NEW reg \in Register, NEW value \in Value \cup {Bad}, NEW dry \in BOOLEAN
  PROVE  /\ WriteOp(reg, value, dry) \in Operation
         /\ WriteOp(reg, value, dry).op = "write"
         /\ WriteOp(reg, value, dry).reg = reg
         /\ WriteOp(reg, value, dry).value = value
         /\ WriteOp(reg, value, dry).dry = dry
BY DEF WriteOp, Operation

\* So is a read, or the address check of a probe.
LEMMA ReadOpFields ==
  ASSUME NEW op \in {"read", "probe"}, NEW reg \in Register, NEW dry \in BOOLEAN
  PROVE  /\ ReadOp(op, reg, dry) \in Operation
         /\ ReadOp(op, reg, dry).op = op
         /\ ReadOp(op, reg, dry).reg = reg
         /\ ReadOp(op, reg, dry).dry = dry
BY DEF ReadOp, Operation

\* set_color makes no call or three.
LEMMA SetColorShape ==
  ASSUME NEW color \in Triple \cup {Absent}, NEW dry \in BOOLEAN
  PROVE  /\ SetColor(color, dry) \in Seq(Operation)
         /\ Len(SetColor(color, dry)) = IF color = Absent THEN 0 ELSE 3
         /\ color # Absent =>
              /\ SetColor(color, dry)[1] = WriteOp("RED", color[1], dry)
              /\ SetColor(color, dry)[2] = WriteOp("GREEN", color[2], dry)
              /\ SetColor(color, dry)[3] = WriteOp("BLUE", color[3], dry)
<1>1. CASE color = Absent
  BY <1>1 DEF SetColor
<1>2. CASE color # Absent
  <2>1. color[1] \in Value /\ color[2] \in Value /\ color[3] \in Value
    BY <1>2, DeviceAssumption DEF Triple
  <2>2. /\ WriteOp("RED", color[1], dry) \in Operation
        /\ WriteOp("GREEN", color[2], dry) \in Operation
        /\ WriteOp("BLUE", color[3], dry) \in Operation
    BY <2>1, WriteOpFields, DeviceAssumption DEF GlowRegister
  <2> QED
    BY <1>2, <2>2 DEF SetColor
<1> QED
  BY <1>1, <1>2

\* set_brightness and set_mode make no call or one.
LEMMA SetOneShape ==
  ASSUME NEW reg \in Register, NEW value, Given(value), NEW dry \in BOOLEAN
  PROVE  /\ SetOne(reg, value, dry) \in Seq(Operation)
         /\ Len(SetOne(reg, value, dry)) = IF value = Absent THEN 0 ELSE 1
         /\ value # Absent => SetOne(reg, value, dry)[1] = WriteOp(reg, value, dry)
<1>1. CASE value = Absent
  BY <1>1 DEF SetOne
<1>2. CASE value # Absent
  <2>1. WriteOp(reg, value, dry) \in Operation
    BY <1>2, WriteOpFields DEF Given
  <2> QED
    BY <1>2, <2>1 DEF SetOne
<1> QED
  BY <1>1, <1>2

\* The three parts of set and apply follow each other.
LEMMA SetAllShape ==
  ASSUME NEW j, j.color \in Triple \cup {Absent}, Given(j.brightness), Given(j.mode),
         j.dry \in BOOLEAN
  PROVE  LET ops == SetAll(j)
             c   == IF j.color = Absent THEN 0 ELSE 3
             b   == c + IF j.brightness = Absent THEN 0 ELSE 1
             m   == b + IF j.mode = Absent THEN 0 ELSE 1
         IN  /\ ops \in Seq(Operation)
             /\ Len(ops) = m
             /\ c = 3 => /\ ops[1] = WriteOp("RED", j.color[1], j.dry)
                         /\ ops[2] = WriteOp("GREEN", j.color[2], j.dry)
                         /\ ops[3] = WriteOp("BLUE", j.color[3], j.dry)
             /\ b = c + 1 => ops[b] = WriteOp("BRIGHTNESS", j.brightness, j.dry)
             /\ m = b + 1 => ops[m] = WriteOp("MODE", j.mode, j.dry)
<1> DEFINE s1 == SetColor(j.color, j.dry)
           s2 == SetOne("BRIGHTNESS", j.brightness, j.dry)
           s3 == SetOne("MODE", j.mode, j.dry)
           s12 == s1 \o s2
           c   == IF j.color = Absent THEN 0 ELSE 3
           b   == c + IF j.brightness = Absent THEN 0 ELSE 1
           m   == b + IF j.mode = Absent THEN 0 ELSE 1
<1>1. /\ s1 \in Seq(Operation) /\ Len(s1) = c
      /\ c = 3 => /\ s1[1] = WriteOp("RED", j.color[1], j.dry)
                  /\ s1[2] = WriteOp("GREEN", j.color[2], j.dry)
                  /\ s1[3] = WriteOp("BLUE", j.color[3], j.dry)
  <2>1. /\ s1 \in Seq(Operation) /\ Len(s1) = c
        /\ j.color # Absent => /\ s1[1] = WriteOp("RED", j.color[1], j.dry)
                               /\ s1[2] = WriteOp("GREEN", j.color[2], j.dry)
                               /\ s1[3] = WriteOp("BLUE", j.color[3], j.dry)
    BY SetColorShape
  <2>2. c = 3 => j.color # Absent
    OBVIOUS
  <2> HIDE DEF s1, c
  <2> QED
    BY <2>1, <2>2
<1>2. /\ s2 \in Seq(Operation) /\ Len(s2) = b - c
      /\ b = c + 1 => s2[1] = WriteOp("BRIGHTNESS", j.brightness, j.dry)
  <2>1. "BRIGHTNESS" \in Register
    BY DeviceAssumption DEF GlowRegister
  <2>2. /\ s2 \in Seq(Operation) /\ Len(s2) = IF j.brightness = Absent THEN 0 ELSE 1
        /\ j.brightness # Absent => s2[1] = WriteOp("BRIGHTNESS", j.brightness, j.dry)
    BY <2>1, SetOneShape
  <2>3. b - c = (IF j.brightness = Absent THEN 0 ELSE 1)
        /\ (b = c + 1 => j.brightness # Absent)
    OBVIOUS
  <2> HIDE DEF s2, b, c
  <2> QED
    BY <2>2, <2>3
<1>3. /\ s3 \in Seq(Operation) /\ Len(s3) = m - b
      /\ m = b + 1 => s3[1] = WriteOp("MODE", j.mode, j.dry)
  <2>1. "MODE" \in Register
    BY DeviceAssumption DEF GlowRegister
  <2>2. /\ s3 \in Seq(Operation) /\ Len(s3) = IF j.mode = Absent THEN 0 ELSE 1
        /\ j.mode # Absent => s3[1] = WriteOp("MODE", j.mode, j.dry)
    BY <2>1, SetOneShape
  <2>3. m - b = (IF j.mode = Absent THEN 0 ELSE 1)
        /\ (m = b + 1 => j.mode # Absent)
    OBVIOUS
  <2> HIDE DEF s3, m, b
  <2> QED
    BY <2>2, <2>3
<1>4. c \in {0, 3} /\ b \in {c, c + 1} /\ m \in {b, b + 1}
  OBVIOUS
<1>5. SetAll(j) = s12 \o s3
  BY DEF SetAll
<1> HIDE DEF s1, s2, s3, c, b, m
<1>6. /\ s12 \in Seq(Operation) /\ Len(s12) = b
      /\ \A i \in 1..b : s12[i] = IF i <= c THEN s1[i] ELSE s2[i - c]
  BY <1>1, <1>2, <1>4, ConcatProperties
<1> HIDE DEF s12
<1>7. /\ s12 \o s3 \in Seq(Operation) /\ Len(s12 \o s3) = m
      /\ \A i \in 1..m : (s12 \o s3)[i] = IF i <= b THEN s12[i] ELSE s3[i - b]
  BY <1>3, <1>4, <1>6, ConcatProperties
<1>8. c = 3 => /\ SetAll(j)[1] = WriteOp("RED", j.color[1], j.dry)
               /\ SetAll(j)[2] = WriteOp("GREEN", j.color[2], j.dry)
               /\ SetAll(j)[3] = WriteOp("BLUE", j.color[3], j.dry)
  <2> SUFFICES ASSUME c = 3
               PROVE  \A i \in 1..3 : SetAll(j)[i] = s1[i]
    BY <1>1
  <2> QED
    BY <1>4, <1>5, <1>6, <1>7
<1>9. b = c + 1 => SetAll(j)[b] = WriteOp("BRIGHTNESS", j.brightness, j.dry)
  BY <1>2, <1>4, <1>5, <1>6, <1>7
<1>10. m = b + 1 => SetAll(j)[m] = WriteOp("MODE", j.mode, j.dry)
  BY <1>3, <1>4, <1>5, <1>6, <1>7
<1> QED
  BY <1>5, <1>7, <1>8, <1>9, <1>10 DEF c, b, m

\* What argparse and load_config let through.
LEMMA JobFields ==
  ASSUME NEW j \in JobSet
  PROVE  /\ j.name \in {"set", "apply", "get", "off", "probe", "restore"}
         /\ j.dry \in BOOLEAN
         /\ j.name \in {"set", "apply"} /\ ~Unusable(j) =>
              j.color \in Triple \cup {Absent} /\ Given(j.brightness) /\ Given(j.mode)
<1>1. j.dry \in BOOLEAN /\ j.name \in {"set", "apply", "get", "off", "probe", "restore"}
  BY DEF JobSet
<1>2. CASE j.name = "set"
  BY <1>2, <1>1, DeviceAssumption DEF JobSet, Given, Triple
<1>3. CASE j.name = "apply"
  BY <1>3, <1>1, DeviceAssumption DEF JobSet, Given, Triple, Unusable
<1> QED
  BY <1>1, <1>2, <1>3

\* No two operations of a series are on one register.
Distinct(ops) ==
  \A i \in 1..Len(ops) : \A k \in 1..Len(ops) : ops[i].reg = ops[k].reg => i = k

\* A write of the value given, or of one of the three of a colour.
LEMMA SetAllOps ==
  ASSUME NEW j, j.color \in Triple \cup {Absent}, Given(j.brightness), Given(j.mode),
         j.dry \in BOOLEAN
  PROVE  /\ SetAll(j) \in Seq(Operation) /\ Len(SetAll(j)) \in 0..5
         /\ \A i \in 1..Len(SetAll(j)) : SetAll(j)[i].op = "write" /\ SetAll(j)[i].dry = j.dry
         /\ Distinct(SetAll(j))
         /\ \A k \in 1..Len(SetAll(j)) : SetAll(j)[k].reg = "MODE" =>
              /\ j.color # Absent =>
                   /\ k > 3
                   /\ SetAll(j)[1].reg = "RED"   /\ SetAll(j)[1].value = j.color[1]
                   /\ SetAll(j)[2].reg = "GREEN" /\ SetAll(j)[2].value = j.color[2]
                   /\ SetAll(j)[3].reg = "BLUE"  /\ SetAll(j)[3].value = j.color[3]
              /\ j.brightness # Absent =>
                   \E b \in 1..k - 1 : /\ SetAll(j)[b].reg = "BRIGHTNESS"
                                       /\ SetAll(j)[b].value = j.brightness
<1> DEFINE ops == SetAll(j)
           c   == IF j.color = Absent THEN 0 ELSE 3
           b   == c + IF j.brightness = Absent THEN 0 ELSE 1
           m   == b + IF j.mode = Absent THEN 0 ELSE 1
<1>1. /\ ops \in Seq(Operation)
      /\ Len(ops) = m
      /\ c = 3 => /\ ops[1] = WriteOp("RED", j.color[1], j.dry)
                  /\ ops[2] = WriteOp("GREEN", j.color[2], j.dry)
                  /\ ops[3] = WriteOp("BLUE", j.color[3], j.dry)
      /\ b = c + 1 => ops[b] = WriteOp("BRIGHTNESS", j.brightness, j.dry)
      /\ m = b + 1 => ops[m] = WriteOp("MODE", j.mode, j.dry)
  BY SetAllShape
<1>2. c \in {0, 3} /\ b \in {c, c + 1} /\ m \in {b, b + 1}
  OBVIOUS
<1>3. /\ j.color # Absent => c = 3
      /\ j.brightness # Absent => b = c + 1
      /\ b = c + 1 => j.brightness \in Value \cup {Bad}
      /\ m = b + 1 => j.mode \in Value \cup {Bad}
      /\ c = 3 => j.color[1] \in Value /\ j.color[2] \in Value /\ j.color[3] \in Value
  <2>1. c = 3 => j.color \in Triple
    OBVIOUS
  <2>2. c = 3 => j.color[1] \in Value /\ j.color[2] \in Value /\ j.color[3] \in Value
    BY <2>1, DeviceAssumption DEF Triple
  <2> QED
    BY <2>2 DEF Given
<1> HIDE DEF ops, c, b, m
<1> DEFINE Is(i, reg, value) == /\ ops[i].op = "write" /\ ops[i].reg = reg
                                /\ ops[i].value = value /\ ops[i].dry = j.dry
<1>4. /\ c = 3 => /\ Is(1, "RED", j.color[1])
                  /\ Is(2, "GREEN", j.color[2])
                  /\ Is(3, "BLUE", j.color[3])
      /\ b = c + 1 => Is(b, "BRIGHTNESS", j.brightness)
      /\ m = b + 1 => Is(m, "MODE", j.mode)
  <2>1. \A reg \in GlowRegister : \A value \in Value \cup {Bad} :
          LET w == WriteOp(reg, value, j.dry)
          IN  w.op = "write" /\ w.reg = reg /\ w.value = value /\ w.dry = j.dry
    BY WriteOpFields, DeviceAssumption
  <2>2. c = 3 => /\ Is(1, "RED", j.color[1])
                 /\ Is(2, "GREEN", j.color[2])
                 /\ Is(3, "BLUE", j.color[3])
    BY <1>1, <1>3, <2>1 DEF GlowRegister
  <2>3. b = c + 1 => Is(b, "BRIGHTNESS", j.brightness)
    BY <1>1, <1>3, <2>1 DEF GlowRegister
  <2>4. m = b + 1 => Is(m, "MODE", j.mode)
    BY <1>1, <1>3, <2>1 DEF GlowRegister
  <2> QED
    BY <2>2, <2>3, <2>4
<1>5. \A i \in 1..m : \/ c = 3 /\ i \in {1, 2, 3}
                      \/ b = c + 1 /\ i = b
                      \/ m = b + 1 /\ i = m
  BY <1>2
<1>6. Len(ops) \in 0..5 /\ \A i \in 1..m : ops[i].op = "write" /\ ops[i].dry = j.dry
  BY <1>1, <1>2, <1>4, <1>5
<1>7. \A i \in 1..m : ops[i].reg = IF c = 3 /\ i = 1 THEN "RED"
                                   ELSE IF c = 3 /\ i = 2 THEN "GREEN"
                                   ELSE IF c = 3 /\ i = 3 THEN "BLUE"
                                   ELSE IF b = c + 1 /\ i = b THEN "BRIGHTNESS" ELSE "MODE"
  BY <1>2, <1>4, <1>5
<1>8. Distinct(ops)
  BY <1>1, <1>2, <1>7 DEF Distinct
<1>9. ASSUME NEW k \in 1..m, ops[k].reg = "MODE"
      PROVE  m = b + 1 /\ k = m
  BY <1>2, <1>4, <1>5, <1>7, <1>9
<1>10. ASSUME NEW k \in 1..m, ops[k].reg = "MODE"
       PROVE  /\ j.color # Absent =>
                   /\ k > 3
                   /\ ops[1].reg = "RED"   /\ ops[1].value = j.color[1]
                   /\ ops[2].reg = "GREEN" /\ ops[2].value = j.color[2]
                   /\ ops[3].reg = "BLUE"  /\ ops[3].value = j.color[3]
              /\ j.brightness # Absent =>
                   \E i \in 1..k - 1 : ops[i].reg = "BRIGHTNESS" /\ ops[i].value = j.brightness
  <2>1. m = b + 1 /\ k = m
    BY <1>9, <1>10
  <2>2. j.brightness # Absent => b \in 1..k - 1
    BY <1>2, <1>3, <2>1
  <2> QED
    BY <1>2, <1>3, <1>4, <2>1, <2>2
<1> QED
  BY <1>1, <1>6, <1>8, <1>10 DEF ops

\* The calls of any command: five at most, each on a register of its own, all
\* dry or none, writes of set, apply and off and reads of get.
LEMMA OpsShape ==
  ASSUME NEW j \in JobSet
  PROVE  /\ Ops(j) \in Seq(Operation) /\ Len(Ops(j)) \in 0..5
         /\ \A i \in 1..Len(Ops(j)) :
              /\ Ops(j)[i].dry = j.dry
              /\ Writes(j) => Ops(j)[i].op = "write"
              /\ j.name = "get" => Ops(j)[i].op = "read"
              /\ j.name \in {"probe", "restore"} => Ops(j)[i].op = "probe"
         /\ Distinct(Ops(j))
<1>1. CASE j.name \in {"set", "apply"}
  <2>1. CASE Unusable(j)
    <3>1. Ops(j) = << >>
      BY <1>1, <2>1 DEF Ops
    <3> QED
      BY <3>1 DEF Distinct
  <2>2. CASE ~Unusable(j)
    <3>1. Ops(j) = SetAll(j)
      BY <1>1, <2>2 DEF Ops
    <3>2. j.color \in Triple \cup {Absent} /\ Given(j.brightness) /\ Given(j.mode)
          /\ j.dry \in BOOLEAN
      BY <1>1, <2>2, JobFields
    <3> QED
      BY <1>1, <3>1, <3>2, SetAllOps
  <2> QED
    BY <2>1, <2>2
<1>2. CASE j.name = "off"
  <2>1. Ops(j) = SetOne("MODE", OFF, j.dry) /\ j.dry \in BOOLEAN /\ "MODE" \in Register
    BY <1>2, JobFields, DeviceAssumption DEF Ops, GlowRegister
  <2>2. OFF \in Value /\ OFF # Absent /\ Given(OFF)
    BY DeviceAssumption, ValueAssumption DEF Given
  <2>3. /\ Ops(j) \in Seq(Operation) /\ Len(Ops(j)) = 1
        /\ Ops(j)[1] = WriteOp("MODE", OFF, j.dry)
    BY <2>1, <2>2, SetOneShape
  <2>4. Ops(j)[1].op = "write" /\ Ops(j)[1].dry = j.dry
    BY <2>1, <2>2, <2>3, WriteOpFields
  <2> QED
    BY <1>2, <2>3, <2>4 DEF Distinct
<1>3. CASE j.name = "get"
  <2>1. Ops(j) = GetAll(j) /\ j.dry \in BOOLEAN
    BY <1>3, JobFields DEF Ops
  <2>2. \A reg \in GlowRegister :
          LET r == ReadOp("read", reg, j.dry)
          IN  r \in Operation /\ r.op = "read" /\ r.reg = reg /\ r.dry = j.dry
    BY <2>1, ReadOpFields, DeviceAssumption
  <2>3. Ops(j) \in Seq(Operation) /\ Len(Ops(j)) = 5
    BY <2>1, <2>2 DEF GetAll, GlowRegister
  <2>4. \A i \in 1..5 : Ops(j)[i].op = "read" /\ Ops(j)[i].dry = j.dry
    BY <2>1, <2>2 DEF GetAll, GlowRegister
  <2>5. \A i \in 1..5 : Ops(j)[i].reg = CASE i = 1 -> "MODE" [] i = 2 -> "RED"
                                          [] i = 3 -> "GREEN" [] i = 4 -> "BLUE"
                                          [] i = 5 -> "BRIGHTNESS"
    BY <2>1, <2>2 DEF GetAll, GlowRegister
  <2>6. Distinct(Ops(j))
    BY <2>3, <2>5 DEF Distinct
  <2> QED
    BY <1>3, <2>3, <2>4, <2>6 DEF Writes
<1>4. CASE j.name = "probe"
  <2>1. CASE j.dry
    <3>1. Ops(j) = << >>
      BY <1>4, <2>1 DEF Ops
    <3> QED
      BY <3>1 DEF Distinct
  <2>2. CASE ~j.dry
    <3>1. Ops(j) = << ReadOp("probe", "MODE", FALSE) >> /\ j.dry = FALSE /\ "MODE" \in Register
      BY <1>4, <2>2, JobFields, DeviceAssumption DEF Ops, GlowRegister
    <3>2. /\ ReadOp("probe", "MODE", FALSE) \in Operation
          /\ ReadOp("probe", "MODE", FALSE).op = "probe"
          /\ ReadOp("probe", "MODE", FALSE).dry = FALSE
      BY <3>1, ReadOpFields
    <3> DEFINE r == ReadOp("probe", "MODE", FALSE)
    <3>3. Ops(j) \in Seq(Operation) /\ Len(Ops(j)) = 1 /\ Ops(j)[1] = r
      <4>1. r \in Operation /\ Ops(j) = << r >>
        BY <3>1, <3>2
      <4> HIDE DEF r
      <4> QED
        BY <4>1
    <3>4. Ops(j)[1].op = "probe" /\ Ops(j)[1].dry = j.dry
      BY <3>1, <3>2, <3>3
    <3>5. Distinct(Ops(j)) /\ ~Writes(j)
      BY <1>4, <3>3 DEF Distinct, Writes
    <3>6. \A i \in 1..Len(Ops(j)) : i = 1
      BY <3>3
    <3> HIDE DEF r
    <3> QED
      BY <1>4, <3>3, <3>4, <3>5, <3>6
  <2> QED
    BY <2>1, <2>2
<1>5. CASE j.name = "restore"
  <2>1. Ops(j) = << >>
    BY <1>5 DEF Ops
  <2> QED
    BY <2>1 DEF Distinct
<1> QED
  BY <1>1, <1>2, <1>3, <1>4, <1>5, JobFields

\* A register holds the value of its operation once that one has been applied.
LEMMA AfterAt ==
  ASSUME NEW r, NEW ops, NEW n \in Nat, n <= Len(ops), Distinct(ops), Len(ops) \in Nat,
         NEW k \in 1..n, ops[k].reg \in Register
  PROVE  AfterOps(r, ops, n)[ops[k].reg] = ops[k].value
<1>1. \A i \in 1..n : ops[i].reg = ops[k].reg => i = k
  BY DEF Distinct
<1>2. (CHOOSE i \in 1..n : ops[i].reg = ops[k].reg) = k
  BY <1>1
<1> QED
  BY <1>2 DEF AfterOps

\* One more operation changes its own register.
LEMMA AfterNext ==
  ASSUME NEW r, NEW ops, NEW n \in Nat, n < Len(ops), Distinct(ops), Len(ops) \in Nat,
         ops[n + 1].reg \in Register
  PROVE  AfterOps(r, ops, n + 1)
           = [AfterOps(r, ops, n) EXCEPT ![ops[n + 1].reg] = ops[n + 1].value]
<1> DEFINE x == ops[n + 1].reg
           v == ops[n + 1].value
<1>1. AfterOps(r, ops, n + 1)[x] = v
  BY AfterAt
<1>2. ASSUME NEW reg \in Register, reg # x
      PROVE  AfterOps(r, ops, n + 1)[reg] = AfterOps(r, ops, n)[reg]
  <2>1. CASE \E i \in 1..n : ops[i].reg = reg
    <3>1. PICK i \in 1..n : ops[i].reg = reg
      BY <2>1
    <3>2. AfterOps(r, ops, n)[reg] = ops[i].value
      BY <3>1, AfterAt
    <3>3. i \in 1..n + 1 /\ AfterOps(r, ops, n + 1)[reg] = ops[i].value
      BY <3>1, AfterAt
    <3> QED
      BY <3>2, <3>3
  <2>2. CASE ~ \E i \in 1..n : ops[i].reg = reg
    <3>1. ~ \E i \in 1..n + 1 : ops[i].reg = reg
      BY <1>2, <2>2
    <3> QED
      BY <2>2, <3>1 DEF AfterOps
  <2> QED
    BY <2>1, <2>2
<1>3. AfterOps(r, ops, n + 1) = [reg \in Register |-> AfterOps(r, ops, n + 1)[reg]]
  BY DEF AfterOps
<1>4. [AfterOps(r, ops, n) EXCEPT ![x] = v]
        = [reg \in Register |-> IF reg = x THEN v ELSE AfterOps(r, ops, n)[reg]]
  BY DEF AfterOps
<1> QED
  BY <1>1, <1>2, <1>3, <1>4

\* No operation, no change.
LEMMA AfterNone ==
  ASSUME NEW r \in [Register -> Value], NEW ops
  PROVE  AfterOps(r, ops, 0) = r
BY DEF AfterOps

-----------------------------------------------------------------------------
(* The inductive invariant                                                 *)

\* The call under way, as an operation of the command.
LEMMA NextCall ==
  ASSUME CInv, call # NoCall
  PROVE  /\ job # NoJob /\ job \in JobSet /\ done \in Nat /\ done < Len(Ops(job))
         /\ Ops(job) \in Seq(Operation) /\ Len(Ops(job)) \in 0..5 /\ Distinct(Ops(job))
         /\ call = Ops(job)[done + 1] /\ call \in DeviceCall /\ call.reg \in Register
         /\ call.dry = job.dry
         /\ Writes(job) => call.op = "write"
         /\ job.name = "get" => call.op = "read"
         /\ job.name \in {"probe", "restore"} => call.op = "probe"
<1>1. job # NoJob /\ job \in JobSet /\ done \in Nat /\ HasNext /\ call = NextOp
  BY JobAssumption DEF CInv, Course, TypeOK
<1>2. Ops(job) \in Seq(Operation) /\ Len(Ops(job)) \in 0..5 /\ Distinct(Ops(job))
  BY <1>1, OpsShape
<1>3. done < Len(Ops(job)) /\ done + 1 \in 1..Len(Ops(job))
  BY <1>1, <1>2 DEF HasNext
<1>4. call \in DeviceCall /\ call.reg \in Register
  BY DEF CInv, TypeOK, DeviceCall
<1>5. call = Ops(job)[done + 1]
  BY <1>1 DEF NextOp
<1> QED
  BY <1>1, <1>2, <1>3, <1>4, <1>5, OpsShape

\* Before the first command.
LEMMA CommandInitInv ==
  ASSUME CommandInit
  PROVE  CInv
<1>1. TypeOK
  BY DEF CommandInit, Init, TypeOK, Outcome
<1>2. Course /\ Reads
  BY DEF CommandInit, Init, Course, Reads
<1>3. Applied
  BY DEF CommandInit, Applied, Live
<1> QED
  BY <1>1, <1>2, <1>3 DEF CInv

\* A command begins.
LEMMA StartStep ==
  ASSUME CInv, NEW j \in Job, Start(j)
  PROVE  CInv'
<1>1. job = NoJob /\ job' = j /\ status' = "running" /\ j \in JobSet /\ j # NoJob
      /\ UNCHANGED <<regs, present, call, result, got, done, read, before>>
  BY JobAssumption DEF Start, device
<1>2. done = 0 /\ read = << >> /\ call = NoCall /\ result = "none" /\ regs = before
      /\ regs \in [Register -> Value]
  BY <1>1 DEF CInv, Course, Applied, Live, TypeOK
<1>3. Len(Ops(j)) \in 0..5
  BY <1>1, OpsShape
<1>4. TypeOK'
  BY <1>1, <1>2 DEF CInv, TypeOK
<1>5. Course' /\ Reads'
  BY <1>1, <1>2, <1>3 DEF Course, Reads
<1>6. Applied'
  BY <1>1, <1>2, AfterNone DEF Applied
<1> QED
  BY <1>4, <1>5, <1>6 DEF CInv

\* The process is gone: with it goes everything but the registers.
LEMMA OverStep ==
  ASSUME CInv, NEW code \in ExitStatus, Over(code)
  PROVE  CInv'
<1>1. /\ call' = NoCall /\ result' = "none" /\ got' = NoValue
      /\ UNCHANGED <<regs, present>>
      /\ job' = NoJob /\ done' = 0 /\ read' = << >> /\ status' = code /\ before' = regs
  BY DEF Over, EndSession
<1>2. TypeOK'
  BY <1>1 DEF CInv, TypeOK
<1>3. Course' /\ Reads' /\ Applied'
  BY <1>1 DEF Course, Reads, Applied, Live
<1> QED
  BY <1>2, <1>3 DEF CInv

\* Every end of a command is an Over.
LEMMA EndsAreOver ==
  ASSUME EntryFails \/ ValueRefused \/ CallFailed \/ Finish \/ Signal
  PROVE  \E code \in ExitStatus :
           /\ Over(code) /\ job # NoJob
           /\ code = EXIT_OK => Finish /\ ~Unusable(job)
<1> USE DEF ExitStatus, EXIT_OK, FAILURE, EXIT_ACCESS, EXIT_IDENTITY, EXIT_LINES_LOW,
        EXIT_NACK, SIGNALLED
<1>1. CASE EntryFails
  BY <1>1 DEF EntryFails, Ends
<1>2. CASE ValueRefused
  BY <1>2 DEF ValueRefused, Ends
<1>3. CASE CallFailed
  BY <1>3 DEF CallFailed, Ends
<1>4. CASE Finish
  <2>1. CASE Unusable(job)
    BY <1>4, <2>1 DEF Finish, Ends
  <2>2. CASE ~Unusable(job)
    BY <1>4, <2>2 DEF Finish, Ends
  <2> QED
    BY <2>1, <2>2
<1>5. CASE Signal
  BY <1>5 DEF Signal, Ends
<1> QED
  BY <1>1, <1>2, <1>3, <1>4, <1>5

\* A call is made: everything before it has been applied, and nothing of it.
LEMMA IssueStep ==
  ASSUME CInv, Issue
  PROVE  CInv'
<1>1. /\ job # NoJob /\ result \in {"none", "ok"} /\ HasNext /\ call = NoCall
      /\ call' = NextOp /\ call' \in DeviceCall /\ result' = "none" /\ got' = NoValue
      /\ UNCHANGED <<regs, present, job, done, read, status, before>>
  BY DEF Issue, Begin
<1>2. call' # NoCall
  BY <1>1, CallAssumption
<1>3. TypeOK'
  BY <1>1 DEF CInv, TypeOK, DeviceCall
<1>4. Course'
  BY <1>1, <1>2 DEF CInv, Course, HasNext, NextOp
<1>5. Reads'
  BY <1>1 DEF CInv, Reads, Live
<1>6. Applied'
  BY <1>1 DEF CInv, Applied, Live, HasNext
<1> QED
  BY <1>3, <1>4, <1>5, <1>6 DEF CInv

\* The device stores the value of the write under way, once or again.
LEMMA StoredStep ==
  ASSUME CInv, Stored
  PROVE  CInv'
<1>1. /\ call # NoCall /\ call.op = "write" /\ ~call.dry
      /\ regs' = [regs EXCEPT ![call.reg] = call.value]
      /\ UNCHANGED <<present, call, result, got, job, done, read, status, before>>
  BY DEF Stored, Store
<1>2. /\ job # NoJob /\ done \in Nat /\ done < Len(Ops(job)) /\ Len(Ops(job)) \in Nat
      /\ Distinct(Ops(job)) /\ call = Ops(job)[done + 1] /\ call.reg \in Register
  BY <1>1, NextCall
<1>3. Live /\ Writes(job)
  <2>1. ~(job.name \in {"get", "probe", "restore"}) /\ ~job.dry
    BY <1>1, NextCall
  <2>2. job.name \in {"set", "apply", "get", "off", "probe", "restore"}
    BY <1>1, NextCall, JobFields
  <2> QED
    BY <1>2, <2>1, <2>2 DEF Live, Writes
<1>4. call.value \in Value /\ regs \in [Register -> Value]
  BY <1>1 DEF CInv, TypeOK, DeviceCall
<1>5. TypeOK'
  BY <1>1, <1>2, <1>4 DEF CInv, TypeOK
<1>6. Course'
  BY <1>1 DEF CInv, Course, HasNext, NextOp
<1>7. Reads'
  <2>1. job.name # "get"
    BY <1>3 DEF Writes
  <2> QED
    BY <1>1, <2>1 DEF CInv, Reads
<1>8. regs' = AfterOps(before, Ops(job), done + 1)
  <2> DEFINE after == AfterOps(before, Ops(job), done)
  <2>1. AfterOps(before, Ops(job), done + 1) = [after EXCEPT ![call.reg] = call.value]
    BY <1>2, AfterNext
  <2>2. CASE regs = after
    BY <1>1, <2>1, <2>2
  <2>3. CASE regs = AfterOps(before, Ops(job), done + 1)
    <3>1. regs[call.reg] = call.value
      BY <1>2, <2>3, AfterAt
    <3> QED
      BY <1>1, <1>4, <2>3, <3>1
  <2> QED
    BY <1>3, <2>2, <2>3 DEF CInv, Applied
<1>9. Applied'
  <2>1. Live' /\ Writes(job') /\ HasNext' /\ call' # NoCall
    BY <1>1, <1>2, <1>3 DEF Live, HasNext
  <2>2. regs' = AfterOps(before', Ops(job'), done' + 1)
    BY <1>1, <1>8
  <2> QED
    BY <2>1, <2>2 DEF Applied
<1> QED
  BY <1>5, <1>6, <1>7, <1>9 DEF CInv

\* The call under way returns: an "ok" says that it has been applied.
LEMMA AnswerStep ==
  ASSUME CInv, NEW r \in Outcome, Answer(r)
  PROVE  CInv'
<1>1. /\ call # NoCall /\ call' = NoCall /\ result' = r
      /\ got' \in IF r = "ok" /\ call.op # "write" THEN Value ELSE {NoValue}
      /\ r = "ok" /\ ~call.dry =>
           present /\ regs[call.reg] = IF call.op = "write" THEN call.value ELSE got'
      /\ done' = IF r = "ok" THEN done + 1 ELSE done
      /\ read' = IF r = "ok" /\ call.op # "write" THEN Append(read, got') ELSE read
      /\ UNCHANGED <<regs, present, job, status, before>>
  BY DEF Answer, Return
<1>2. /\ job # NoJob /\ job \in JobSet /\ done \in Nat /\ done < Len(Ops(job))
      /\ Len(Ops(job)) \in 0..5
      /\ Distinct(Ops(job)) /\ call = Ops(job)[done + 1] /\ call.reg \in Register
      /\ call.dry = job.dry
      /\ Writes(job) => call.op = "write"
      /\ job.name = "get" => call.op = "read"
  BY <1>1, NextCall
<1>3. status = "running" /\ done <= Len(Ops(job)) /\ job \in Job /\ read \in Seq(Value)
  BY <1>2 DEF CInv, Course, TypeOK
<1>4. call.op # "write" <=> job.name \in {"get", "probe"}
  <2>1. /\ job.name \in {"probe", "restore"} => call.op = "probe"
        /\ job.name = "restore" => Len(Ops(job)) = 0
    BY <1>1, NextCall DEF Ops
  <2> QED
    BY <1>2, <2>1, JobFields DEF Writes
<1>5. Len(read) = IF job.name \in {"get", "probe"} THEN done ELSE 0
  BY <1>2 DEF CInv, Reads
<1>6. done' \in 0..5 /\ done' <= Len(Ops(job))
  BY <1>1, <1>2
<1>7. read' \in Seq(Value) /\ Len(read') = IF job.name \in {"get", "probe"} THEN done' ELSE 0
  <2>1. CASE r = "ok" /\ call.op # "write"
    BY <1>1, <1>3, <1>4, <1>5, <2>1, <1>2
  <2>2. CASE r # "ok"
    BY <1>1, <1>3, <1>5, <2>2
  <2>3. CASE r = "ok" /\ call.op = "write"
    BY <1>1, <1>3, <1>4, <1>5, <2>3
  <2> QED
    BY <2>1, <2>2, <2>3
<1>8. TypeOK'
  <2>1. got' \in Value \cup {NoValue} /\ result' \in Outcome \cup {"none"}
    BY <1>1
  <2>2. Len(read') \in {0, done'}
    BY <1>7
  <2> QED
    BY <1>1, <1>2, <1>3, <1>6, <1>7, <2>1, <2>2 DEF CInv, TypeOK
<1>9. Course'
  BY <1>1, <1>2, <1>3, <1>6 DEF Course
<1>10. Reads'
  <2>1. ASSUME Live, job.name = "get", NEW i \in 1..done'
        PROVE  read'[i] = regs[Ops(job)[i].reg]
    <3>1. call.op # "write" /\ ~call.dry /\ Len(read) = done
      BY <1>2, <1>5, <2>1 DEF Live
    <3>2. \A k \in 1..done : read[k] = regs[Ops(job)[k].reg]
      BY <1>2, <2>1 DEF CInv, Reads
    <3>3. CASE r = "ok"
      <4>1. read' = Append(read, got') /\ got' = regs[call.reg] /\ done' = done + 1
        BY <1>1, <3>1, <3>3
      <4>2. got' \in Value
        BY <1>1, <3>1, <3>3
      <4>3. CASE i = done + 1
        BY <1>2, <1>3, <3>1, <4>1, <4>2, <4>3
      <4>4. CASE i \in 1..done
        BY <1>2, <1>3, <3>1, <3>2, <4>1, <4>2, <4>4
      <4>5. i = done + 1 \/ i \in 1..done
        BY <1>2, <4>1
      <4> QED
        BY <4>3, <4>4, <4>5
    <3>4. CASE r # "ok"
      BY <1>1, <3>2, <3>4
    <3> QED
      BY <3>3, <3>4
  <2> QED
    BY <1>1, <1>7, <2>1 DEF Reads, Live
<1>11. Applied'
  <2>1. CASE Live /\ Writes(job)
    <3>1. call.op = "write" /\ ~call.dry
      BY <1>2, <2>1 DEF Live
    <3>2. \/ regs = AfterOps(before, Ops(job), done)
          \/ regs = AfterOps(before, Ops(job), done + 1)
      BY <2>1 DEF CInv, Applied
    <3>3. CASE r = "ok"
      <4>1. regs[call.reg] = call.value
        BY <1>1, <3>1, <3>3
      <4>2. AfterOps(before, Ops(job), done + 1)
              = [AfterOps(before, Ops(job), done) EXCEPT ![call.reg] = call.value]
        BY <1>2, AfterNext
      <4>3. regs \in [Register -> Value]
        BY DEF CInv, TypeOK
      <4>4. regs = AfterOps(before, Ops(job), done + 1)
        BY <3>2, <4>1, <4>2, <4>3
      <4> QED
        BY <1>1, <3>3, <4>4, <2>1 DEF Applied, Live
    <3>4. CASE r # "ok"
      <4>1. HasNext' /\ result' \notin {"none", "ok"}
        BY <1>1, <1>2, <3>4 DEF HasNext, Outcome
      <4> QED
        BY <1>1, <3>2, <3>4, <4>1, <2>1 DEF Applied, Live
    <3> QED
      BY <3>3, <3>4
  <2>2. CASE ~(Live /\ Writes(job))
    BY <1>1, <2>2 DEF CInv, Applied, Live
  <2> QED
    BY <2>1, <2>2
<1> QED
  BY <1>8, <1>9, <1>10, <1>11 DEF CInv

\* Every step preserves the invariant.
LEMMA CommandNextStep ==
  ASSUME CInv, [CommandNext]_vars
  PROVE  CInv'
<1>1. CASE \E j \in Job : Start(j)
  BY <1>1, StartStep
<1>2. CASE EntryFails \/ ValueRefused \/ CallFailed \/ Finish \/ Signal
  BY <1>2, EndsAreOver, OverStep
<1>3. CASE Issue
  BY <1>3, IssueStep
<1>4. CASE Stored
  BY <1>4, StoredStep
<1>5. CASE \E r \in Outcome : Answer(r)
  BY <1>5, AnswerStep
<1>6. CASE UNCHANGED vars
  BY <1>6 DEF vars, device, CInv, TypeOK, Course, Reads, Applied, Live, HasNext, NextOp
<1> QED
  BY <1>1, <1>2, <1>3, <1>4, <1>5, <1>6 DEF CommandNext

\* The call under way, the values read and the registers stay in step with the
\* command, whatever fails and whenever it is interrupted.
THEOREM CommandInvHolds == CommandSpec => []CInv
<1>1. CommandInit => CInv
  BY CommandInitInv
<1>2. CInv /\ [CommandNext]_vars => CInv'
  BY CommandNextStep
<1> QED
  BY <1>1, <1>2, PTL DEF CommandSpec

\* No variable leaves its type, and between commands nothing is pending.
THEOREM CommandTypeCorrect == CommandSpec => []TypeOK
BY CommandInvHolds, PTL DEF CInv

-----------------------------------------------------------------------------
(* What a command leaves behind                                            *)

\* The prefix that Applied speaks of.
LEMMA AppliedIsPrefix ==
  ASSUME CInv
  PROVE  PrefixApplied
<1>1. CASE job # NoJob /\ Live /\ Writes(job)
  <2>1. done \in Nat /\ done <= Len(Ops(job)) /\ Len(Ops(job)) \in 0..5
    BY <1>1, OpsShape, JobAssumption DEF CInv, TypeOK, Course
  <2>2. CASE regs = AfterOps(before, Ops(job), done)
    BY <1>1, <2>1, <2>2 DEF PrefixApplied, Writes
  <2>3. CASE HasNext /\ regs = AfterOps(before, Ops(job), done + 1)
    <3>1. done + 1 <= Len(Ops(job))
      BY <2>1, <2>3 DEF HasNext
    <3> QED
      BY <1>1, <2>3, <3>1 DEF PrefixApplied, Writes
  <2> QED
    BY <1>1, <2>2, <2>3 DEF CInv, Applied
<1>2. CASE ~(Live /\ Writes(job))
  <2>1. regs = before
    BY <1>2 DEF CInv, Applied
  <2>2. job = NoJob \/ ~Live \/ job.name \in {"get", "probe", "restore"}
    BY <1>2, JobFields, JobAssumption DEF CInv, TypeOK, Live, Writes
  <2> QED
    BY <2>1, <2>2 DEF PrefixApplied
<1> QED
  BY <1>1, <1>2 DEF Live

\* set, apply and off, stopped anywhere and by anything, have applied their
\* first operations in order and no other; nothing else changes a register.
THEOREM PrefixAlwaysApplied == CommandSpec => []PrefixApplied
<1>1. CInv => PrefixApplied
  BY AppliedIsPrefix
<1> QED
  BY <1>1, CommandInvHolds, PTL

\* Only the end of the whole series is given status 0.
LEMMA SuccessIsFinish ==
  ASSUME CInv, CommandNext, Live, status' = EXIT_OK
  PROVE  /\ Finish /\ ~Unusable(job) /\ regs' = regs
         /\ call = NoCall /\ result \in {"none", "ok"}
         /\ done = Len(Ops(job))
<1>1. status = "running" /\ done \in Nat /\ done <= Len(Ops(job)) /\ Len(Ops(job)) \in 0..5
  BY OpsShape, JobAssumption DEF CInv, TypeOK, Course, Live
<1>2. "running" # EXIT_OK
  BY DEF EXIT_OK
<1>3. EntryFails \/ ValueRefused \/ CallFailed \/ Finish \/ Signal
  BY <1>1, <1>2 DEF CommandNext, Start, Issue, Stored, Answer, EXIT_OK
<1>4. Finish /\ ~Unusable(job) /\ regs' = regs
  BY <1>3, EndsAreOver DEF Over, EndSession
<1> QED
  BY <1>1, <1>4 DEF Finish, HasNext

\* The registers have the whole series applied.
LEMMA AppliedStep ==
  ASSUME CInv, CommandNext, Live, status' = EXIT_OK, job.name \in {"set", "apply", "off"}
  PROVE  regs' = AfterOps(before, Ops(job), Len(Ops(job)))
BY SuccessIsFinish DEF CInv, Applied, HasNext, Writes

\* A set, apply or off that exits with 0 has changed the device exactly as it
\* was asked to, although nothing is read back.
THEOREM SuccessMeansApplied == CommandSpec => AppliedOnSuccess
<1>1. CInv /\ [CommandNext]_vars
        => [Live /\ status' = EXIT_OK /\ job.name \in {"set", "apply", "off"}
              => regs' = AfterOps(before, Ops(job), Len(Ops(job)))]_vars
  BY AppliedStep
<1> QED
  BY <1>1, CommandInvHolds, PTL DEF CommandSpec, AppliedOnSuccess

\* The five values read are those of the five registers.
LEMMA SnapshotStep ==
  ASSUME CInv, CommandNext, Live, status' = EXIT_OK, job.name = "get"
  PROVE  read = << regs["MODE"], regs["RED"], regs["GREEN"], regs["BLUE"],
                   regs["BRIGHTNESS"] >>
<1>1. done = Len(Ops(job)) /\ job \in JobSet
  BY SuccessIsFinish, JobAssumption DEF CInv, TypeOK, Live
<1>2. Ops(job) = GetAll(job)
  BY DEF Ops
<1>3. Len(GetAll(job)) = 5 /\ \A i \in 1..5 :
        GetAll(job)[i].reg = << "MODE", "RED", "GREEN", "BLUE", "BRIGHTNESS" >>[i]
  BY DEF GetAll, ReadOp
<1>4. /\ read \in Seq(Value) /\ Len(read) = 5
      /\ \A i \in 1..5 : read[i] = regs[Ops(job)[i].reg]
  BY <1>1, <1>2, <1>3 DEF CInv, TypeOK, Reads, Live
<1>5. /\ read[1] = regs["MODE"] /\ read[2] = regs["RED"] /\ read[3] = regs["GREEN"]
      /\ read[4] = regs["BLUE"] /\ read[5] = regs["BRIGHTNESS"]
  BY <1>2, <1>3, <1>4
<1> QED
  BY <1>4, <1>5

\* What a get that exits with 0 prints is one state of the device, not a mix of
\* several, and each value is printed under its own name.
THEOREM SuccessMeansSnapshot == CommandSpec => SnapshotOnSuccess
<1>1. CInv /\ [CommandNext]_vars
        => [Live /\ status' = EXIT_OK /\ job.name = "get"
              => read = << regs["MODE"], regs["RED"], regs["GREEN"], regs["BLUE"],
                           regs["BRIGHTNESS"] >>]_vars
  BY SnapshotStep
<1> QED
  BY <1>1, CommandInvHolds, PTL DEF CommandSpec, SnapshotOnSuccess

\* The mode is written when all that was asked for before it is in the registers.
LEMMA ModeStep ==
  ASSUME CInv, CommandNext, regs'["MODE"] # regs["MODE"], job.name \in {"set", "apply"}
  PROVE  /\ job.color # Absent => << regs["RED"], regs["GREEN"], regs["BLUE"] >> = job.color
         /\ job.brightness # Absent => regs["BRIGHTNESS"] = job.brightness
<1>1. Stored
  BY EndsAreOver DEF CommandNext, Start, device, Issue, Begin, Answer, Return, Over, EndSession
<1>2. /\ call # NoCall /\ call.op = "write" /\ ~call.dry
      /\ regs' = [regs EXCEPT ![call.reg] = call.value]
  BY <1>1 DEF Stored, Store
<1>3. /\ job # NoJob /\ job \in JobSet /\ done \in Nat /\ done < Len(Ops(job))
      /\ Len(Ops(job)) \in 0..5 /\ Distinct(Ops(job))
      /\ call = Ops(job)[done + 1] /\ call.dry = job.dry
      /\ Ops(job) \in Seq(Operation)
  BY <1>2, NextCall
<1>4. call.reg = "MODE" /\ done + 1 \in 1..Len(Ops(job))
  BY <1>2, <1>3 DEF CInv, TypeOK
<1>5. ~Unusable(job)
  <2>1. Unusable(job) => Ops(job) = << >>
    BY DEF Ops
  <2> QED
    BY <1>3, <2>1
<1>6. Ops(job) = SetAll(job)
  BY <1>5 DEF Ops
<1>7. job.color \in Triple \cup {Absent} /\ Given(job.brightness) /\ Given(job.mode)
      /\ job.dry \in BOOLEAN
  BY <1>3, <1>5, JobFields
<1>8. /\ job.color # Absent =>
           /\ done >= 3
           /\ Ops(job)[1].reg = "RED"   /\ Ops(job)[1].value = job.color[1]
           /\ Ops(job)[2].reg = "GREEN" /\ Ops(job)[2].value = job.color[2]
           /\ Ops(job)[3].reg = "BLUE"  /\ Ops(job)[3].value = job.color[3]
      /\ job.brightness # Absent =>
           \E b \in 1..done : /\ Ops(job)[b].reg = "BRIGHTNESS"
                              /\ Ops(job)[b].value = job.brightness
  <2>1. done + 1 \in 1..Len(SetAll(job)) /\ SetAll(job)[done + 1].reg = "MODE"
    BY <1>3, <1>4, <1>6
  <2>2. done + 1 > 3 => done >= 3
    BY <1>3
  <2>3. (done + 1) - 1 = done
    BY <1>3
  <2> DEFINE ops == SetAll(job)
  <2>4. \A k \in 1..Len(ops) : ops[k].reg = "MODE" =>
          /\ job.color # Absent =>
               /\ k > 3
               /\ ops[1].reg = "RED"   /\ ops[1].value = job.color[1]
               /\ ops[2].reg = "GREEN" /\ ops[2].value = job.color[2]
               /\ ops[3].reg = "BLUE"  /\ ops[3].value = job.color[3]
          /\ job.brightness # Absent =>
               \E b \in 1..k - 1 : /\ ops[b].reg = "BRIGHTNESS"
                                   /\ ops[b].value = job.brightness
    BY <1>7, SetAllOps
  <2> HIDE DEF ops
  <2> QED
    BY <1>6, <2>1, <2>2, <2>3, <2>4 DEF ops
<1>9. \E n \in {done, done + 1} : n <= Len(Ops(job)) /\ regs = AfterOps(before, Ops(job), n)
  BY <1>2, <1>3, AppliedIsPrefix DEF PrefixApplied, Live
<1>10. ASSUME NEW k \in 1..done
       PROVE  regs[Ops(job)[k].reg] = Ops(job)[k].value
  <2>1. PICK n \in {done, done + 1} :
          n <= Len(Ops(job)) /\ regs = AfterOps(before, Ops(job), n)
    BY <1>9
  <2>2. k \in 1..n /\ n \in Nat /\ k \in 1..Len(Ops(job))
    BY <1>3, <2>1
  <2>3. Ops(job)[k].reg \in Register
    BY <1>3, <2>2 DEF Operation
  <2> QED
    BY <1>3, <2>1, <2>2, <2>3, AfterAt
<1>11. job.color # Absent => << regs["RED"], regs["GREEN"], regs["BLUE"] >> = job.color
  <2> SUFFICES ASSUME job.color # Absent
               PROVE  << regs["RED"], regs["GREEN"], regs["BLUE"] >> = job.color
    OBVIOUS
  <2>1. 1 \in 1..done /\ 2 \in 1..done /\ 3 \in 1..done
    BY <1>3, <1>8
  <2>2. /\ regs["RED"] = job.color[1] /\ regs["GREEN"] = job.color[2]
        /\ regs["BLUE"] = job.color[3]
    BY <1>8, <1>10, <2>1
  <2>3. job.color = << job.color[1], job.color[2], job.color[3] >>
    BY <1>7 DEF Triple
  <2> QED
    BY <2>2, <2>3
<1>12. job.brightness # Absent => regs["BRIGHTNESS"] = job.brightness
  BY <1>8, <1>10
<1> QED
  BY <1>11, <1>12

\* Whoever watches the card sees the new mode only over the colour and the
\* brightness asked for with it.
THEOREM ModeAlwaysLast == CommandSpec => ModeComesLast
<1>1. CInv /\ [CommandNext]_vars
        => [regs'["MODE"] # regs["MODE"] /\ job.name \in {"set", "apply"}
              => /\ job.color # Absent
                      => << regs["RED"], regs["GREEN"], regs["BLUE"] >> = job.color
                 /\ job.brightness # Absent => regs["BRIGHTNESS"] = job.brightness]_vars
  BY ModeStep
<1> QED
  BY <1>1, CommandInvHolds, PTL DEF CommandSpec, ModeComesLast

=============================================================================
