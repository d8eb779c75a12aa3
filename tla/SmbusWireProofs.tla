-------------------------- MODULE SmbusWireProofs --------------------------
(***************************************************************************)
(* Machine-checked proofs about SmbusWire, for bytes of any width, every   *)
(* address, every set of calls and every number of polls.                  *)
(***************************************************************************)
EXTENDS SmbusWireInvariant, TLAPS

-----------------------------------------------------------------------------
(* The slave                                                               *)

\* The slave can take one more bit, and has what its phase needs.
Ready(m) ==
  /\ m \in SlaveState
  /\ m.phase \in {"addr", "reg", "data_w"} => m.nbits < Bits

\* What the four events leave alone: the address, and but for a whole byte of
\* data the registers.
Keeps(m, n) == n.addr = m.addr /\ n.regs = m.regs

\* The empty byte is a byte.
LEMMA ZeroIsByte == Zero \in Byte
BY DEF Zero, Byte

\* The phases and the first counts are in range.
LEMMA Literals ==
  /\ 0 \in 0..Bits /\ 1 \in 0..Bits
  /\ \A p \in {"idle", "addr", "ack_addr", "reg", "ack_reg", "data_w", "ack_data",
                "data_r", "ack_master"} : p \in Phase
BY BitsAssumption DEF Phase

\* The slave stays a slave whatever fields an event changes, if each keeps its
\* type.
LEMMA UpdateStart ==
  ASSUME NEW m \in SlaveState, NEW p \in Phase, NEW z \in Byte, NEW k \in 0..Bits,
         NEW b \in BOOLEAN
  PROVE  [m EXCEPT !.phase = p, !.shift = z, !.nbits = k, !.low = b] \in SlaveState
BY BitsAssumption DEF SlaveState

\* OnStart and the reset of a byte keep the slave's type.
LEMMA UpdateReset ==
  ASSUME NEW m \in SlaveState, NEW p \in Phase, NEW z \in Byte, NEW k \in 0..Bits,
         NEW r \in BOOLEAN, NEW c \in Byte \cup {NoByte}, NEW o \in Byte \cup {NoByte},
         NEW i \in 0..Bits
  PROVE  [m EXCEPT !.phase = p, !.shift = z, !.nbits = k, !.reading = r, !.cur = c,
                   !.out = o, !.idx = i] \in SlaveState
BY BitsAssumption DEF SlaveState

\* So does putting the next bit of the byte that is read on SDA,
LEMMA UpdateBit ==
  ASSUME NEW m \in SlaveState, NEW i \in 0..Bits, NEW b \in BOOLEAN
  PROVE  [m EXCEPT !.low = b, !.idx = i] \in SlaveState
BY BitsAssumption DEF SlaveState

\* going to another phase and taking or releasing SDA,
LEMMA UpdateTo ==
  ASSUME NEW m \in SlaveState, NEW p \in Phase, NEW b \in BOOLEAN
  PROVE  [m EXCEPT !.phase = p, !.low = b] \in SlaveState
BY DEF SlaveState

\* shifting a bit in,
LEMMA UpdateNext ==
  ASSUME NEW m \in SlaveState, NEW z \in Byte, NEW k \in 0..Bits
  PROVE  [m EXCEPT !.shift = z, !.nbits = k] \in SlaveState
BY DEF SlaveState

\* and loading a byte to be read.
LEMMA UpdateOut ==
  ASSUME NEW m \in SlaveState, NEW o \in Byte \cup {NoByte}, NEW i \in 0..Bits
  PROVE  [m EXCEPT !.out = o, !.idx = i] \in SlaveState
BY DEF SlaveState

\* A rising edge adds a bit to the byte and moves nothing else.
LEMMA RiseEffect ==
  ASSUME NEW m, Ready(m), NEW sda \in BOOLEAN
  PROVE  LET n == OnRise(m, sda)
         IN  /\ n \in SlaveState
             /\ Keeps(m, n)
             /\ n.phase = m.phase /\ n.low = m.low /\ n.cur = m.cur /\ n.out = m.out
             /\ n.idx = m.idx /\ n.reading = m.reading
             /\ m.phase \in {"addr", "reg", "data_w"} =>
                  /\ n.nbits = m.nbits + 1
                  /\ n.shift = [m.shift EXCEPT ![m.nbits + 1] = sda]
             /\ m.phase \notin {"addr", "reg", "data_w"} => n = m
<1> DEFINE n == OnRise(m, sda)
           s == [m.shift EXCEPT ![m.nbits + 1] = sda]
<1>1. CASE m.phase \in {"addr", "reg", "data_w"}
  <2>1. m.nbits + 1 \in 1..Bits
    BY <1>1, BitsAssumption DEF Ready, SlaveState
  <2>2. s \in Byte /\ m.nbits + 1 \in 0..Bits
    BY <2>1 DEF Ready, SlaveState, Byte
  <2>3. n = [m EXCEPT !.shift = s, !.nbits = m.nbits + 1]
    BY <1>1 DEF OnRise, Ready, SlaveState
  <2> HIDE DEF s, n
  <2>4. n \in SlaveState
    BY <2>2, <2>3 DEF Ready, SlaveState
  <2>5. n.shift = s /\ n.nbits = m.nbits + 1
    BY <2>3 DEF Ready, SlaveState
  <2> QED
    BY <1>1, <2>3, <2>4, <2>5 DEF Ready, SlaveState, Keeps, s, n
<1>2. CASE m.phase \notin {"addr", "reg", "data_w"}
  BY <1>2 DEF Ready, Keeps, OnRise
<1> QED
  BY <1>1, <1>2

\* A START begins an address byte, whatever went before.
LEMMA StartEffect ==
  ASSUME NEW m \in SlaveState
  PROVE  LET n == OnStart(m)
         IN  /\ n \in SlaveState
             /\ Keeps(m, n)
             /\ n.phase = "addr" /\ n.nbits = 0 /\ ~n.low /\ n.cur = m.cur
<1> DEFINE n == OnStart(m)
<1>1. n \in SlaveState
  BY ZeroIsByte, Literals, UpdateStart DEF OnStart
<1>2. n.addr = m.addr /\ n.regs = m.regs /\ n.cur = m.cur
  BY DEF OnStart, SlaveState
<1>3. n.phase = "addr" /\ n.nbits = 0
  BY DEF OnStart, SlaveState
<1>4. ~n.low
  BY DEF OnStart, SlaveState
<1> QED
  BY <1>1, <1>2, <1>3, <1>4 DEF Keeps

\* A STOP takes the slave off the bus.
LEMMA StopEffect ==
  ASSUME NEW m \in SlaveState
  PROVE  LET n == OnStop(m)
         IN  /\ n \in SlaveState
             /\ Keeps(m, n)
             /\ n.phase = "idle" /\ n.low = m.low
<1> DEFINE n == OnStop(m)
<1>1. n \in SlaveState
  BY ZeroIsByte, Literals, UpdateReset DEF OnStop, Reset
<1>2. n.addr = m.addr /\ n.regs = m.regs
  BY DEF OnStop, Reset, SlaveState
<1>3. n.phase = "idle"
  BY DEF OnStop, Reset, SlaveState
<1>4. n.low = m.low
  BY DEF OnStop, Reset, SlaveState
<1> QED
  BY <1>1, <1>2, <1>3, <1>4 DEF Keeps

\* Driving the next bit of a read, or leaving the bus to the master's ACK.
LEMMA DriveEffect ==
  ASSUME NEW m \in SlaveState, m.out \in Byte
  PROVE  LET n == DriveReadBit(m)
         IN  /\ n \in SlaveState
             /\ Keeps(m, n)
             /\ n.cur = m.cur /\ n.out = m.out
             /\ m.idx < Bits => n.phase = m.phase /\ n.idx = m.idx + 1 /\ n.low = ~m.out[m.idx + 1]
             /\ m.idx = Bits => n.phase = "ack_master" /\ ~n.low
<1>1. CASE m.idx < Bits
  <2>1. m.idx + 1 \in 1..Bits /\ m.idx + 1 \in 0..Bits
    BY <1>1, BitsAssumption DEF SlaveState
  <2>2. m.out[m.idx + 1] \in BOOLEAN
    BY <2>1 DEF Byte
  <2> DEFINE b == ~m.out[m.idx + 1]
             k == m.idx + 1
  <2>3. DriveReadBit(m) = [m EXCEPT !.low = b, !.idx = k]
    BY <1>1 DEF DriveReadBit, SlaveState
  <2>4. b \in BOOLEAN /\ k \in 0..Bits
    BY <2>1, <2>2
  <2> HIDE DEF b, k
  <2>5. DriveReadBit(m) \in SlaveState
    BY <2>3, <2>4, UpdateBit
  <2>6. DriveReadBit(m).low = b /\ DriveReadBit(m).idx = k
    BY <2>3 DEF SlaveState
  <2>7. DriveReadBit(m).phase = m.phase /\ DriveReadBit(m).cur = m.cur
        /\ DriveReadBit(m).out = m.out /\ Keeps(m, DriveReadBit(m))
    BY <2>3 DEF SlaveState, Keeps
  <2>8. DriveReadBit(m).low = ~m.out[m.idx + 1] /\ DriveReadBit(m).idx = m.idx + 1
    BY <2>6 DEF b, k
  <2>9. m.idx # Bits
    BY <1>1, BitsAssumption
  <2> QED
    BY <1>1, <2>5, <2>7, <2>8, <2>9
<1>2. CASE m.idx = Bits
  <2>1. DriveReadBit(m) = [m EXCEPT !.phase = "ack_master", !.low = FALSE]
    BY <1>2, BitsAssumption DEF DriveReadBit, To
  <2>0. "ack_master" \in Phase /\ FALSE \in BOOLEAN
    BY DEF Phase
  <2>2. DriveReadBit(m) \in SlaveState
    BY <2>0, <2>1, UpdateTo
  <2>3. /\ DriveReadBit(m).phase = "ack_master" /\ ~DriveReadBit(m).low
        /\ DriveReadBit(m).cur = m.cur /\ DriveReadBit(m).out = m.out
    BY <2>1 DEF SlaveState
  <2>4. Keeps(m, DriveReadBit(m))
    BY <2>1 DEF SlaveState, Keeps
  <2> QED
    BY <1>2, <2>2, <2>3, <2>4, BitsAssumption
<1> QED
  BY <1>1, <1>2, BitsAssumption DEF SlaveState

\* A whole byte: an address is compared, a register number selects, data is
\* stored in the selected register.
LEMMA TakeEffect ==
  ASSUME NEW m \in SlaveState, m.phase \in {"addr", "reg", "data_w"},
         m.phase = "data_w" => m.cur \in Byte
  PROVE  LET n == TakeByte(m)
         IN  /\ n \in SlaveState
             /\ n.addr = m.addr
             /\ n.regs = IF m.phase = "data_w" THEN [m.regs EXCEPT ![m.cur] = m.shift] ELSE m.regs
             /\ m.phase = "addr" /\ AddressOf(m.shift) = m.addr =>
                  n.phase = "ack_addr" /\ n.low /\ n.reading = m.shift[Bits] /\ n.cur = m.cur
             /\ m.phase = "addr" /\ AddressOf(m.shift) # m.addr =>
                  n.phase = "idle" /\ n.low = m.low
             /\ m.phase = "reg" => n.phase = "ack_reg" /\ n.low /\ n.cur = m.shift
             /\ m.phase = "data_w" => n.phase = "ack_data" /\ n.low /\ n.cur = m.cur
<1>1. CASE m.phase = "addr"
  <2>1. m.shift[Bits] \in BOOLEAN
    BY BitsAssumption DEF SlaveState, Byte
  <2>2. CASE AddressOf(m.shift) = m.addr
    BY <1>1, <2>1, <2>2 DEF TakeByte, To, SlaveState, Phase
  <2>3. CASE AddressOf(m.shift) # m.addr
    BY <1>1, <2>3, StopEffect DEF TakeByte, OnStop, Keeps
  <2> QED
    BY <2>2, <2>3
<1>2. CASE m.phase = "reg"
  BY <1>2 DEF TakeByte, To, SlaveState, Phase
<1>3. CASE m.phase = "data_w"
  BY <1>3 DEF TakeByte, To, SlaveState, Phase
<1> QED
  BY <1>1, <1>2, <1>3

\* Moving on to the next byte.
LEMMA ToNextByte ==
  ASSUME NEW m \in SlaveState, NEW p \in Phase, NEW b \in BOOLEAN
  PROVE  LET n == To(NextByte(m), p, b)
         IN  /\ n \in SlaveState
             /\ Keeps(m, n)
             /\ n.phase = p /\ n.low = b /\ n.nbits = 0 /\ n.cur = m.cur
<1>1. NextByte(m) \in SlaveState
  BY ZeroIsByte, Literals, UpdateNext DEF NextByte
<1>2. To(NextByte(m), p, b) \in SlaveState
  BY <1>1, UpdateTo DEF To
<1> QED
  BY <1>1, <1>2 DEF To, NextByte, SlaveState, Keeps

\* What every falling edge leaves behind.
LEMMA FallEffect ==
  ASSUME NEW m \in SlaveState,
         m.phase \in {"ack_reg", "data_w", "ack_data"} => m.cur \in Byte,
         m.phase = "data_r" => m.out \in Byte
  PROVE  LET n == OnFall(m)
         IN  /\ n \in SlaveState
             /\ n.addr = m.addr
             /\ n.regs = IF m.phase = "data_w" /\ m.nbits = Bits
                           THEN [m.regs EXCEPT ![m.cur] = m.shift] ELSE m.regs
             /\ n.phase \in {"ack_reg", "data_w", "ack_data"} => n.cur \in Byte
             /\ n.phase = "data_r" => n.out \in Byte
             /\ n.phase \in {"addr", "reg", "data_w"} => n.nbits # Bits
             /\ m.phase \in {"addr", "reg", "data_w"} /\ m.nbits # Bits
                  => ~n.low /\ n = [m EXCEPT !.low = FALSE]
             /\ m.phase = "ack_addr" /\ ~m.reading
                  => n.phase = "reg" /\ n.nbits = 0 /\ ~n.low
             /\ m.phase = "ack_addr" /\ m.reading
                  => /\ n.phase = "data_r" /\ n.idx = 1 /\ n.out = Selected(m)
                     /\ n.low = ~n.out[1]
             /\ m.phase \in {"ack_reg", "ack_data"}
                  => n.phase = "data_w" /\ n.nbits = 0 /\ ~n.low /\ n.cur = m.cur
             /\ m.phase \in {"idle", "ack_master"} => n = [m EXCEPT !.low = FALSE]
<1> DEFINE n == OnFall(m)
<1>1. CASE m.phase \in {"addr", "reg", "data_w"} /\ m.nbits = Bits
  <2>1. n = TakeByte(m)
    BY <1>1 DEF OnFall
  <2>2. /\ n \in SlaveState /\ n.addr = m.addr
        /\ n.regs = IF m.phase = "data_w" THEN [m.regs EXCEPT ![m.cur] = m.shift] ELSE m.regs
    BY <1>1, <2>1, TakeEffect
  <2>3. /\ n.phase \in {"ack_addr", "idle", "ack_reg", "ack_data"}
        /\ n.phase \in {"ack_reg", "ack_data"} => n.cur \in Byte
    BY <1>1, <2>1, TakeEffect DEF SlaveState
  <2> QED
    BY <1>1, <2>2, <2>3
<1>2. CASE m.phase \in {"addr", "reg", "data_w"} /\ m.nbits # Bits
  <2>1. n = [m EXCEPT !.low = FALSE]
    BY <1>2 DEF OnFall
  <2> QED
    BY <1>2, <2>1 DEF SlaveState
<1>3. CASE m.phase = "ack_addr" /\ ~m.reading
  <2>1. n = To(NextByte(m), "reg", FALSE)
    BY <1>3 DEF OnFall
  <2> DEFINE t == To(NextByte(m), "reg", FALSE)
  <2>0. "reg" \in Phase /\ FALSE \in BOOLEAN
    BY DEF Phase
  <2>2. /\ t \in SlaveState /\ Keeps(m, t)
        /\ t.phase = "reg" /\ t.low = FALSE /\ t.nbits = 0 /\ t.cur = m.cur
    BY ToNextByte, <2>0
  <2>3. n = t
    BY <2>1
  <2> HIDE DEF t
  <2>4. /\ n \in SlaveState /\ n.addr = m.addr /\ n.regs = m.regs
        /\ n.phase = "reg" /\ n.low = FALSE /\ n.nbits = 0 /\ n.cur = m.cur
    BY <2>2, <2>3 DEF Keeps
  <2>5. n.nbits # Bits
    BY <2>4, BitsAssumption
  <2> QED
    BY <1>3, <2>4, <2>5
<1>4. CASE m.phase = "ack_addr" /\ m.reading
  <2> DEFINE k == [To(NextByte(m), "data_r", FALSE) EXCEPT !.out = Selected(m), !.idx = 0]
  <2>1. n = DriveReadBit(k)
    BY <1>4 DEF OnFall
  <2>2. Selected(m) \in Byte
    BY ZeroIsByte DEF Selected, SlaveState
  <2> DEFINE t == To(NextByte(m), "data_r", FALSE)
  <2>3. t \in SlaveState /\ t.phase = "data_r" /\ Keeps(m, t) /\ t.cur = m.cur
    BY ToNextByte, Literals
  <2>4. k = [t EXCEPT !.out = Selected(m), !.idx = 0]
    OBVIOUS
  <2> HIDE DEF t, k
  <2>5. k \in SlaveState
    BY <2>2, <2>3, <2>4, UpdateOut, Literals
  <2>6. k.phase = "data_r" /\ k.idx = 0 /\ k.out = Selected(m) /\ Keeps(m, k)
    BY <2>3, <2>4 DEF SlaveState, Keeps
  <2>7. 0 < Bits
    BY BitsAssumption
  <2>8. /\ n \in SlaveState /\ n.addr = m.addr /\ n.regs = m.regs
        /\ n.phase = "data_r" /\ n.idx = 1 /\ n.out = Selected(m) /\ n.low = ~n.out[1]
    BY <2>1, <2>2, <2>5, <2>6, <2>7, DriveEffect DEF Keeps
  <2> QED
    BY <1>4, <2>2, <2>8
<1>5. CASE m.phase \in {"ack_reg", "ack_data"}
  <2>1. n = To(NextByte(m), "data_w", FALSE)
    BY <1>5 DEF OnFall
  <2> DEFINE t == To(NextByte(m), "data_w", FALSE)
  <2>0. "data_w" \in Phase /\ FALSE \in BOOLEAN
    BY DEF Phase
  <2>2. /\ t \in SlaveState /\ Keeps(m, t)
        /\ t.phase = "data_w" /\ t.low = FALSE /\ t.nbits = 0 /\ t.cur = m.cur
    BY ToNextByte, <2>0
  <2>3. n = t
    BY <2>1
  <2> HIDE DEF t
  <2>4. /\ n \in SlaveState /\ n.addr = m.addr /\ n.regs = m.regs
        /\ n.phase = "data_w" /\ n.low = FALSE /\ n.nbits = 0 /\ n.cur = m.cur
    BY <2>2, <2>3 DEF Keeps
  <2>5. n.nbits # Bits
    BY <2>4, BitsAssumption
  <2>6. m.phase \notin {"idle", "addr", "ack_addr", "reg", "data_w", "data_r", "ack_master"}
    BY <1>5
  <2>7. n.regs = IF m.phase = "data_w" /\ m.nbits = Bits
                   THEN [m.regs EXCEPT ![m.cur] = m.shift] ELSE m.regs
    BY <2>4, <2>6
  <2>8. n.cur \in Byte
    BY <1>5, <2>4
  <2> QED
    BY <1>5, <2>4, <2>5, <2>6, <2>7, <2>8
<1>6. CASE m.phase = "data_r"
  <2>1. n = DriveReadBit(m)
    BY <1>6 DEF OnFall
  <2>2. m.out \in Byte /\ m.idx \in 0..Bits
    BY <1>6 DEF SlaveState
  <2>3. m.idx < Bits \/ m.idx = Bits
    BY <2>2, BitsAssumption
  <2>4. /\ n \in SlaveState /\ n.addr = m.addr /\ n.regs = m.regs /\ n.out = m.out
        /\ n.phase \in {"data_r", "ack_master"}
    BY <1>6, <2>1, <2>2, <2>3, DriveEffect DEF Keeps
  <2> QED
    BY <1>6, <2>2, <2>4
<1>7. CASE m.phase \in {"idle", "ack_master"}
  <2>1. n = [m EXCEPT !.low = FALSE]
    BY <1>7 DEF OnFall
  <2> QED
    BY <1>7, <2>1 DEF SlaveState
<1> QED
  BY <1>1, <1>2, <1>3, <1>4, <1>5, <1>6, <1>7 DEF SlaveState, Phase

-----------------------------------------------------------------------------
(* The two lines                                                           *)

\* A call in progress has its fields.
LEMMA CallFields ==
  ASSUME TypeOK, stage # "idle"
  PROVE  /\ call # NoCall /\ call \in Call /\ call \in CallSet
         /\ call.reg \in Byte /\ call.dry \in BOOLEAN
         /\ call.op \in {"write", "read", "probe"}
         /\ call.op = "write" => call.value \in Byte
BY CallAssumption DEF TypeOK, CallSet

\* The bus is in its type and the slave consistent, exceptions or not.
BusOK == en \subseteq Line /\ mcu \in SlaveState /\ Sane

\* The registers and the address outlast every step but a stored byte.
BusKept == mcu'.addr = mcu.addr /\ mcu'.regs = mcu.regs

\* The slave is ready for the bit a rising clock brings it.
LEMMA LowIsReady ==
  ASSUME BusOK, ~Scl
  PROVE  Ready(mcu)
BY BitsAssumption DEF BusOK, Sane, Ready, SlaveState

\* Moving SDA makes a START, a STOP or nothing, and never changes the clock.
LEMMA SetSdaEffect ==
  ASSUME BusOK, NEW high \in BOOLEAN, SetSda(high), UNCHANGED <<stretch, pullups>>
  PROVE  /\ BusOK' /\ BusKept
         /\ Scl' = Scl
         /\ ~call.dry => en' = LineSet(en, DATA_BIT, high)
         /\ ~Scl \/ SdaLevel(en', mcu) = Sda \/ call.dry => mcu' = mcu
<1>1. Scl' = Scl /\ en' \subseteq Line
  <2>1. en' = en \/ en' = LineSet(en, DATA_BIT, high)
    BY DEF SetSda, bus
  <2>2. en' \subseteq Line /\ (CLK_BIT \in en' <=> CLK_BIT \in en)
    BY <2>1 DEF LineSet, BusOK, CLK_BIT, DATA_BIT, Line
  <2> QED
    BY <2>2 DEF Scl, SclLevel
<1>2. mcu' \in {mcu, OnStart(mcu), OnStop(mcu)}
  BY DEF SetSda, DataEdge, bus
<1>3. mcu' \in SlaveState /\ BusKept
  BY <1>2, StartEffect, StopEffect DEF BusOK, BusKept, Keeps
<1>4. Sane'
  BY <1>1, <1>2, StartEffect, StopEffect, BitsAssumption DEF BusOK, Sane, SlaveState
<1>5. ~call.dry => en' = LineSet(en, DATA_BIT, high)
  BY DEF SetSda
<1>6. ~Scl \/ SdaLevel(en', mcu) = Sda \/ call.dry => mcu' = mcu
  BY DEF SetSda, DataEdge, bus, Scl, Sda, SclLevel, SdaLevel
<1> QED
  BY <1>1, <1>3, <1>4, <1>5, <1>6 DEF BusOK

\* Releasing SCL lets the clock rise unless the slave holds it.
LEMMA RaiseEffect ==
  ASSUME BusOK, TypeOK, SetScl(TRUE), UNCHANGED <<stretch, pullups>>
  PROVE  /\ BusOK' /\ BusKept
         /\ Scl => Scl'
         /\ ~call.dry => en' = en \ {CLK_BIT}
         /\ mcu' = IF Scl' /\ ~Scl THEN OnRise(mcu, Sda) ELSE mcu
<1>1. en' = en \/ en' = LineSet(en, CLK_BIT, TRUE)
  BY DEF SetScl, bus
<1>2. en' \subseteq Line /\ (Scl => Scl')
  BY <1>1 DEF LineSet, BusOK, Scl, SclLevel
<1>3. ~call.dry => en' = en \ {CLK_BIT}
  BY DEF SetScl, LineSet
<1>4. mcu' = IF Scl' /\ ~Scl THEN OnRise(mcu, Sda) ELSE mcu
  <2>1. CASE call.dry
    BY <2>1 DEF SetScl, bus, Scl, SclLevel
  <2>2. CASE ~call.dry
    <3>1. Scl' = SclLevel(en', stretch)
      BY DEF Scl, SclLevel
    <3> QED
      BY <2>2, <3>1, <1>2 DEF SetScl, ClockEdge
  <2> QED
    BY <2>1, <2>2
<1>5. Sda \in BOOLEAN
  BY DEF Sda, SdaLevel
<1>6. CASE Scl' /\ ~Scl
  <2>1. mcu' \in SlaveState /\ BusKept
    BY <1>4, <1>5, <1>6, LowIsReady, RiseEffect DEF BusKept, Keeps
  <2>2. Sane'
    BY <1>4, <1>5, <1>6, LowIsReady, RiseEffect DEF Sane, BusOK
  <2> QED
    BY <1>2, <1>3, <1>4, <2>1, <2>2 DEF BusOK
<1>7. CASE ~(Scl' /\ ~Scl)
  BY <1>2, <1>3, <1>4, <1>7 DEF BusOK, BusKept, Sane
<1> QED
  BY <1>6, <1>7

\* The same when it is the slave that lets go of the clock.
LEMMA ReleaseClockEffect ==
  ASSUME BusOK, TypeOK, ReleaseClock
  PROVE  /\ BusOK' /\ BusKept
         /\ ~Scl
         /\ mcu' = IF Scl' THEN OnRise(mcu, Sda) ELSE mcu
<1>1. ~Scl /\ Sda \in BOOLEAN
  BY DEF ReleaseClock, Scl, SclLevel, Sda, SdaLevel
<1>2. mcu' = IF Scl' THEN OnRise(mcu, Sda) ELSE mcu
  <2>1. Scl' = SclLevel(en, FALSE)
    BY DEF ReleaseClock, Scl, SclLevel
  <2> QED
    BY <1>1, <2>1 DEF ReleaseClock, ClockEdge
<1>3. en' = en
  BY DEF ReleaseClock
<1>4. CASE Scl'
  <2>1. mcu' \in SlaveState /\ BusKept
    BY <1>1, <1>2, <1>4, LowIsReady, RiseEffect DEF BusKept, Keeps
  <2>2. Sane'
    BY <1>1, <1>2, <1>4, LowIsReady, RiseEffect DEF Sane, BusOK
  <2> QED
    BY <1>1, <1>2, <1>3, <2>1, <2>2 DEF BusOK
<1>5. CASE ~Scl'
  BY <1>1, <1>2, <1>3, <1>5 DEF BusOK, BusKept, Sane
<1> QED
  BY <1>4, <1>5

\* Pulling SCL low is the falling edge the slave acts on.
LEMMA LowerEffect ==
  ASSUME BusOK, TypeOK, SetScl(FALSE), ~call.dry, UNCHANGED <<stretch, pullups>>
  PROVE  /\ BusOK' /\ mcu'.addr = mcu.addr
         /\ ~Scl'
         /\ en' = en \cup {CLK_BIT}
         /\ mcu' = IF Scl THEN OnFall(mcu) ELSE mcu
<1>1. en' = en \cup {CLK_BIT}
  BY DEF SetScl, LineSet
<1>2. ~Scl'
  BY <1>1 DEF Scl, SclLevel
<1>3. mcu' = IF Scl THEN OnFall(mcu) ELSE mcu
  <2>1. ~SclLevel(en', stretch)
    BY <1>1 DEF SclLevel
  <2> QED
    BY <2>1 DEF SetScl, ClockEdge
<1>4. en' \subseteq Line
  BY <1>1 DEF BusOK, Line
<1>5. CASE Scl
  <2>1. /\ mcu' \in SlaveState /\ mcu'.addr = mcu.addr
        /\ mcu'.phase \in {"ack_reg", "data_w", "ack_data"} => mcu'.cur \in Byte
        /\ mcu'.phase = "data_r" => mcu'.out \in Byte
        /\ mcu'.phase \in {"addr", "reg", "data_w"} => mcu'.nbits # Bits
    BY <1>3, <1>5, FallEffect DEF BusOK, Sane
  <2> QED
    BY <1>1, <1>2, <1>3, <1>4, <2>1 DEF BusOK, Sane
<1>6. CASE ~Scl
  BY <1>1, <1>2, <1>3, <1>4, <1>6 DEF BusOK, Sane
<1> QED
  BY <1>5, <1>6

\* release() at the end of a session lets both lines up, in either order.
LEMMA EndSessionEffect ==
  ASSUME BusOK, TypeOK, EndSession
  PROVE  BusOK' /\ BusKept
<1> DEFINE scl == SclLevel({}, stretch)
           sda == SdaLevel({}, mcu)
           risen(s) == ClockEdge(mcu, Scl, scl, s)
<1>1. en' = {} /\ Scl' = scl /\ (Scl => scl)
  BY DEF EndSession, Scl, SclLevel
<1>2. Sda \in BOOLEAN /\ sda \in BOOLEAN
  BY DEF Sda, SdaLevel
<1>3. \A s : risen(s) = IF scl /\ ~Scl THEN OnRise(mcu, s) ELSE mcu
  BY <1>1 DEF ClockEdge
<1>4. \/ \E s \in {Sda, sda} : mcu' \in {risen(s), OnStart(risen(s)), OnStop(risen(s))}
      \/ Scl /\ mcu' \in {OnStart(mcu), OnStop(mcu)}
  <2>1. CASE mcu' = DataEdge(risen(Sda), scl, Sda, sda)
    BY <1>2, <2>1 DEF DataEdge
  <2>2. CASE mcu' = ClockEdge(DataEdge(mcu, Scl, Sda, sda), Scl, scl, sda)
    <3>1. CASE Scl
      <4>1. mcu' = DataEdge(mcu, Scl, Sda, sda)
        BY <1>1, <2>2, <3>1 DEF ClockEdge
      <4>2. risen(sda) = mcu
        BY <1>3, <3>1
      <4> QED
        BY <1>2, <3>1, <4>1, <4>2 DEF DataEdge
    <3>2. CASE ~Scl
      <4>1. DataEdge(mcu, Scl, Sda, sda) = mcu
        BY <3>2 DEF DataEdge
      <4> QED
        BY <1>2, <2>2, <4>1
    <3> QED
      BY <3>1, <3>2
  <2>3. ReleaseLines
    BY DEF EndSession
  <2> QED
    BY <2>1, <2>2, <2>3 DEF ReleaseLines
<1> HIDE DEF risen, scl, sda
<1>5. ASSUME NEW s \in {Sda, sda}
      PROVE  /\ risen(s) \in SlaveState /\ Keeps(mcu, risen(s))
             /\ risen(s).phase \in {"ack_reg", "data_w", "ack_data"} => risen(s).cur \in Byte
             /\ risen(s).phase = "data_r" => risen(s).out \in Byte
             /\ risen(s).phase \in {"addr", "reg", "data_w"} /\ risen(s).nbits = Bits => scl
  <2>1. CASE scl /\ ~Scl
    <3>1. Ready(mcu) /\ s \in BOOLEAN /\ risen(s) = OnRise(mcu, s)
      BY <1>2, <1>3, <2>1, LowIsReady
    <3> DEFINE n == risen(s)
    <3> HIDE DEF n
    <3>2. n = OnRise(mcu, s)
      BY <3>1 DEF n
    <3>3. n \in SlaveState /\ Keeps(mcu, n)
          /\ n.phase = mcu.phase /\ n.cur = mcu.cur /\ n.out = mcu.out
      BY <3>1, <3>2, RiseEffect
    <3>4. /\ n.phase \in {"ack_reg", "data_w", "ack_data"} => n.cur \in Byte
          /\ n.phase = "data_r" => n.out \in Byte
      BY <3>3 DEF BusOK, Sane
    <3> QED
      BY <2>1, <3>3, <3>4 DEF n
  <2>2. CASE ~(scl /\ ~Scl)
    BY <1>1, <1>3, <2>2 DEF BusOK, Sane, Keeps
  <2> QED
    BY <2>1, <2>2
<1>6. mcu' \in SlaveState /\ BusKept
  BY <1>4, <1>5, StartEffect, StopEffect DEF BusOK, BusKept, Keeps
<1>7. Sane'
  BY <1>1, <1>4, <1>5, StartEffect, StopEffect, BitsAssumption DEF BusOK, Sane
<1> QED
  BY <1>1, <1>6, <1>7 DEF BusOK

-----------------------------------------------------------------------------
(* Steps that leave the transaction where it is, begin it or give it up    *)

\* The first bit and no polls are in range.
LEMMA Ranges == 1 \in 1..Bits + 1 /\ 0 \in 0..Retries - 1
BY BitsAssumption, RetriesAssumption

\* The invariant holds before the first call, whatever address the slave has.
LEMMA InitInv ==
  ASSUME Init
  PROVE  IInv
<1>1. mcu \in SlaveState /\ mcu.phase = "idle"
  <2>1. PICK address \in Address : mcu = Fresh(address)
    BY DEF Init
  <2>2. [r \in Byte |-> Zero] \in [Byte -> Byte]
    BY ZeroIsByte
  <2>3. "idle" \in Phase /\ 0 \in 0..Bits
    BY Literals
  <2> QED
    BY <2>1, <2>2, <2>3, ZeroIsByte DEF Fresh, SlaveState
<1>2. TypeOK
  BY <1>1, Ranges DEF Init, TypeOK, Stage, At, Result, Line
<1>3. Places
  BY DEF Init, Places, ByteStage
<1>4. Sane
  BY <1>1 DEF Sane
<1>5. Lines /\ Follows /\ Answers
  BY DEF Init, Lines, Follows, Answers, Sound
<1> QED
  BY <1>2, <1>3, <1>4, <1>5 DEF IInv

\* The invariant gives what the lemmas about the lines ask for.
LEMMA InvGivesBusOK ==
  ASSUME IInv
  PROVE  BusOK /\ TypeOK
BY DEF IInv, BusOK, TypeOK

\* An exception gives the call up, or sends it to its stop().
LEMMA RaiseIsError ==
  ASSUME Raise
  PROVE  /\ result' = "error" /\ bit' = 1 /\ at' = "sda"
         /\ \/ stage' = "idle" /\ call' = NoCall
            \/ stage' = "stop" /\ call' = call
BY DEF Raise, Return, Finally, Goto

\* An exception from any place of a call preserves the invariant: the layers about
\* the bits say nothing any more.
LEMMA ErrorStep ==
  ASSUME IInv, stage # "idle", Raise, ack' = FALSE, tries' \in 0..Retries - 1,
         UNCHANGED <<got, bus, stretch, pullups>>
  PROVE  IInv'
<1>1. TypeOK'
  BY RaiseIsError, Ranges, CallFields
     DEF IInv, TypeOK, bus, Stage, At, Result
<1>2. Places'
  BY RaiseIsError DEF IInv, Places, ByteStage
<1>3. Sane'
  BY DEF IInv, Sane, bus, Scl, SclLevel
<1>4. Lines' /\ Follows' /\ Answers'
  BY RaiseIsError DEF IInv, Lines, Follows, Answers, Sound, bus
<1> QED
  BY <1>1, <1>2, <1>3, <1>4 DEF IInv

\* A register fault may come at any time.
LEMMA RegFaultStep ==
  ASSUME IInv, RegFault
  PROVE  IInv'
BY ErrorStep, Ranges DEF RegFault

\* A call begins on lines that nobody has touched since the last one.
LEMMA BeginStep ==
  ASSUME IInv, NEW c \in Call, Begin(c)
  PROVE  IInv'
<1>1. TypeOK'
  BY BitsAssumption, CallAssumption
     DEF IInv, TypeOK, Begin, Goto, bus, Stage, At, Result
<1>2. Places'
  BY DEF IInv, Places, Begin, Goto, ByteStage
<1>3. Sane'
  BY DEF IInv, Sane, Begin, bus, Scl, SclLevel
<1>4. en' = {} /\ stage' \in {"bus_idle", "start"} /\ at' \in {"up", "sda"}
  BY DEF IInv, Lines, Begin, Goto, bus
<1>5. Lines' /\ Follows' /\ Answers'
  BY <1>4 DEF Lines, Follows, Answers, ByteStage, Transaction
<1> QED
  BY <1>1, <1>2, <1>3, <1>5 DEF IInv

\* The slave may hold a clock that the master holds anyway.
LEMMA HoldClockStep ==
  ASSUME IInv, HoldClock
  PROVE  IInv'
<1>1. ~Scl /\ ~Scl' /\ Sda' = Sda
  BY DEF HoldClock, Scl, SclLevel, Sda, SdaLevel, bus
<1>2. TypeOK' /\ Places'
  BY DEF IInv, TypeOK, Places, HoldClock, bus, place
<1>3. Sane'
  BY <1>1 DEF IInv, Sane, HoldClock, bus
<1>4. Lines'
  BY <1>1 DEF IInv, Lines, HoldClock, bus, place, Sound, Level, Sent
<1>5. Follows'
  BY <1>1 DEF IInv, Follows, HoldClock, bus, place, Sound, Receives, Acks, Clocked,
              Sent, Ours
<1>6. Answers'
  BY DEF IInv, Answers, HoldClock, bus, place, Sound, Ours
<1> QED
  BY <1>2, <1>3, <1>4, <1>5, <1>6 DEF IInv

\* A session leaves the lines released and the slave consistent.
LEMMA EndSessionStep ==
  ASSUME IInv, EndSession
  PROVE  IInv'
<1>1. BusOK'
  BY InvGivesBusOK, EndSessionEffect
<1>2. TypeOK'
  BY <1>1, Ranges
     DEF IInv, TypeOK, EndSession, Goto, BusOK, Stage, At, Result
<1>3. Places' /\ Lines' /\ Follows' /\ Answers'
  BY DEF Places, Lines, Follows, Answers, EndSession, Goto, Sound, ByteStage
<1> QED
  BY <1>1, <1>2, <1>3 DEF IInv, BusOK

-----------------------------------------------------------------------------
(* The clock rises                                                         *)

\* The byte that is sent is a byte.
LEMMA SentIsByte ==
  ASSUME TypeOK, Places, stage \in ByteStage
  PROVE  Sent \in Byte
<1>1. AddressByte(TRUE) \in Byte /\ AddressByte(FALSE) \in Byte
  <2>1. \A i \in 1..Bits : i # Bits => Addr[i] \in BOOLEAN
    <3>1. \A i \in 1..Bits : i # Bits => i \in 1..Bits - 1
      BY BitsAssumption
    <3> QED
      BY <3>1, AddrAssumption DEF Address
  <2> QED
    BY <2>1 DEF AddressByte, Byte
<1> QED
  BY <1>1, CallFields DEF Sent, ByteStage, Places

\* The level that a rising clock shows the slave while it takes a byte.
LEMMA SdaWhileReceiving ==
  ASSUME IInv, Sound, stage \in ByteStage, bit <= Bits, at \in {"up", "poll"},
         ~mcu.low, pullups
  PROVE  Sda = Sent[bit]
<1>1. Sent[bit] \in BOOLEAN
  BY SentIsByte, BitsAssumption DEF IInv, TypeOK, Byte
<1>2. Level <=> Sent[bit]
  <2>1. ~(bit > Bits)
    BY BitsAssumption DEF IInv, TypeOK
  <2>2. Level = (bit > Bits \/ Sent[bit])
    BY DEF Level, ByteStage
  <2> QED
    BY <1>1, <2>1, <2>2
<1>3. DATA_BIT \notin en <=> Level
  BY DEF IInv, Lines, Transaction, ByteStage
<1> QED
  BY <1>1, <1>2, <1>3 DEF Sda, SdaLevel

\* A bit is added to what the slave has received.
LEMMA RiseReceives ==
  ASSUME IInv, Sound, stage \in ByteStage, bit <= Bits, at \in {"up", "poll"},
         ~Scl, Scl', mcu' = OnRise(mcu, Sda), UNCHANGED <<call, stage, bit>>,
         pullups, NEW phase \in {"addr", "reg", "data_w"}, Receives(phase)
  PROVE  Receives(phase)'
<1>1. bit \in 1..Bits /\ mcu.nbits = bit - 1 /\ mcu.phase = phase /\ ~mcu.low
  BY BitsAssumption DEF Receives, Clocked, IInv, TypeOK
<1>2. Ready(mcu) /\ Sda \in BOOLEAN /\ Sda = Sent[bit]
  BY <1>1, SdaWhileReceiving, LowIsReady, InvGivesBusOK DEF Sda, SdaLevel
<1>3. /\ mcu'.phase = phase /\ ~mcu'.low /\ mcu'.nbits = bit
      /\ mcu'.shift = [mcu.shift EXCEPT ![bit] = Sent[bit]]
  BY <1>1, <1>2, RiseEffect, BitsAssumption
<1>4. Sent' = Sent
  BY DEF Sent
<1>5. Clocked' = bit /\ Clocked = bit - 1
  BY DEF Clocked
<1>6. mcu.shift \in Byte
  BY DEF IInv, TypeOK, SlaveState
<1>7. \A i \in 1..bit : mcu'.shift[i] = Sent[i]
  <2> SUFFICES ASSUME NEW i \in 1..bit
               PROVE  mcu'.shift[i] = Sent[i]
    OBVIOUS
  <2>1. i \in 1..Bits
    BY <1>1, BitsAssumption
  <2>2. CASE i = bit
    BY <1>3, <1>6, <2>1, <2>2 DEF Byte
  <2>3. CASE i # bit
    <3>1. i \in 1..Clocked
      BY <1>1, <1>5, <2>3
    <3>2. mcu.shift[i] = Sent[i]
      BY <3>1 DEF Receives
    <3> QED
      BY <1>3, <1>6, <2>1, <2>3, <3>2 DEF Byte
  <2> QED
    BY <2>2, <2>3
<1> QED
  BY <1>3, <1>4, <1>5, <1>7 DEF Receives

\* The slave follows a clock that rises: one bit more of a byte, and nothing
\* where it does not take any.
LEMMA RiseFollows ==
  ASSUME IInv, Sound, stage \in Transaction, at \in {"up", "poll"}, at' = "poll",
         ~Scl, Scl', pullups, mcu' = OnRise(mcu, Sda),
         UNCHANGED <<call, stage, bit, got, result>>
  PROVE  Follows' /\ Answers'
<1>1. Ready(mcu) /\ Sda \in BOOLEAN /\ bit \in 1..Bits + 1
  BY LowIsReady, InvGivesBusOK DEF Sda, SdaLevel, IInv, TypeOK
<1>2. /\ mcu'.phase = mcu.phase /\ mcu'.low = mcu.low /\ mcu'.cur = mcu.cur
      /\ mcu'.out = mcu.out /\ mcu'.idx = mcu.idx /\ mcu'.reading = mcu.reading
      /\ mcu'.regs = mcu.regs /\ mcu'.addr = mcu.addr
      /\ mcu.phase = "data_w" => mcu'.nbits = mcu.nbits + 1
  BY <1>1, RiseEffect DEF Keeps
<1>3. Sound' /\ Clocked = bit - 1 /\ Clocked' = bit
  BY DEF Sound, Clocked
<1>4. ASSUME NEW phase \in {"addr", "reg", "data_w"}, Receives(phase),
             stage \in ByteStage, bit <= Bits
      PROVE  Receives(phase)'
  BY <1>4, RiseReceives
<1>5. Follows'
  <2>1. CASE stage = "addr_w"
    BY <1>2, <1>3, <1>4, <2>1 DEF IInv, Follows, Acks, Ours, ByteStage
  <2>2. CASE stage = "reg"
    BY <1>2, <1>3, <1>4, <2>2 DEF IInv, Follows, Acks, Ours, ByteStage
  <2>3. CASE stage = "value"
    BY <1>2, <1>3, <1>4, <2>3 DEF IInv, Follows, Acks, Ours, ByteStage
  <2>4. CASE stage = "addr_r"
    BY <1>2, <1>3, <1>4, <2>4 DEF IInv, Follows, Acks, Ours, ByteStage
  <2>5. CASE stage = "restart"
    BY <1>1, <1>2, <1>3, <2>5 DEF IInv, Follows, Ours
  <2>6. CASE stage \in {"data", "stop"}
    BY <1>2, <1>3, <2>6 DEF IInv, Follows, Ours
  <2> QED
    BY <2>1, <2>2, <2>3, <2>4, <2>5, <2>6 DEF Transaction, ByteStage
<1>6. Answers'
  BY <1>2, <1>3 DEF IInv, Answers, Ours
<1> QED
  BY <1>5, <1>6

\* _scl_high() releases the clock.
LEMMA RaiseSclStep ==
  ASSUME IInv, RaiseScl
  PROVE  IInv'
<1>1. /\ stage \notin {"idle", "bus_idle"} /\ at = "up" /\ at' = "poll"
      /\ UNCHANGED <<call, stage, bit, ack, got, result, stretch, pullups>>
      /\ tries' = 0 /\ SetScl(TRUE)
  BY DEF RaiseScl, Then, Goto, IInv, Places
<1>2. /\ BusOK' /\ BusKept
      /\ Scl => Scl'
      /\ ~call.dry => en' = en \ {CLK_BIT}
      /\ mcu' = IF Scl' /\ ~Scl THEN OnRise(mcu, Sda) ELSE mcu
  BY <1>1, InvGivesBusOK, RaiseEffect
<1>3. TypeOK'
  BY <1>1, <1>2, Ranges DEF IInv, TypeOK, At, BusOK
<1>4. Places'
  BY <1>1 DEF IInv, Places, ByteStage
<1>5. call.dry => en' = en
  BY <1>1 DEF SetScl, bus
<1>6. Lines'
  BY <1>1, <1>2, <1>5 DEF IInv, Lines, Sound, Level, Sent, Transaction, CLK_BIT, DATA_BIT
<1>7. CASE ~Sound
  BY <1>1, <1>2, <1>3, <1>4, <1>6, <1>7 DEF IInv, Follows, Answers, Sound, BusOK
<1>8. CASE Sound /\ stage = "start"
  <2>1. Follows' /\ Answers'
    BY <1>1, <1>8 DEF Follows, Answers, ByteStage
  <2> QED
    BY <1>2, <1>3, <1>4, <1>6, <2>1 DEF IInv, BusOK
<1>9. CASE Sound /\ stage # "start"
  <2>1. stage \in Transaction
    BY <1>1, <1>9 DEF IInv, TypeOK, Stage, Transaction
  <2>2. ~Scl
    BY <1>1, <1>9, <2>1 DEF IInv, Lines, Scl, SclLevel
  <2>3. CASE Scl'
    <3>1. pullups
      BY <1>1, <2>3 DEF Scl, SclLevel
    <3>2. Follows' /\ Answers'
      BY <1>1, <1>2, <1>9, <2>1, <2>2, <2>3, <3>1, RiseFollows
    <3> QED
      BY <1>2, <1>3, <1>4, <1>6, <3>2 DEF IInv, BusOK
  <2>4. CASE ~Scl'
    <3>1. mcu' = mcu /\ Clocked' = Clocked /\ Sent' = Sent
      BY <1>1, <1>2, <2>2, <2>4 DEF Clocked, Sent
    <3>2. Follows' /\ Answers'
      BY <1>1, <3>1 DEF IInv, Follows, Answers, Sound, Receives, Acks, Ours
    <3> QED
      BY <1>2, <1>3, <1>4, <1>6, <3>2 DEF IInv, BusOK
  <2> QED
    BY <2>3, <2>4
<1> QED
  BY <1>7, <1>8, <1>9

\* The slave lets go of the clock.
LEMMA ReleaseClockStep ==
  ASSUME IInv, ReleaseClock
  PROVE  IInv'
<1>1. /\ UNCHANGED <<call, stage, bit, at, tries, ack, got, result, en, pullups>>
      /\ stretch' = FALSE
  BY DEF ReleaseClock, place
<1>2. /\ BusOK' /\ BusKept /\ ~Scl
      /\ mcu' = IF Scl' THEN OnRise(mcu, Sda) ELSE mcu
  BY InvGivesBusOK, ReleaseClockEffect
<1>3. TypeOK' /\ Places'
  <2>1. TypeOK'
    BY <1>1, <1>2 DEF IInv, TypeOK, BusOK
  <2>2. Places'
    BY <1>1, <1>2 DEF IInv, Places
  <2> QED
    BY <2>1, <2>2
<1>4. Sound => at \notin {"sample", "edge", "down"}
  BY <1>2 DEF IInv, Lines
<1>5. Lines'
  BY <1>1, <1>4 DEF IInv, Lines, Sound, Level, Sent
<1>6. Follows' /\ Answers'
  <2>1. CASE ~Sound
    BY <1>1, <2>1 DEF Follows, Answers, Sound
  <2>2. CASE Sound /\ stage \in Transaction
    <3>1. CASE Scl'
      <4>1. CLK_BIT \notin en /\ pullups
        BY <1>1, <3>1 DEF Scl, SclLevel
      <4>2. at = "poll"
        BY <1>4, <2>2, <4>1 DEF IInv, Lines, TypeOK, At
      <4> QED
        BY <1>1, <1>2, <2>2, <3>1, <4>1, <4>2, RiseFollows
    <3>2. CASE ~Scl'
      <4>1. mcu' = mcu /\ Clocked' = Clocked /\ Sent' = Sent
        BY <1>1, <1>2, <3>2 DEF Clocked, Sent
      <4> QED
        BY <1>1, <4>1 DEF IInv, Follows, Answers, Sound, Receives, Acks, Ours
    <3> QED
      BY <3>1, <3>2
  <2>3. CASE Sound /\ stage \notin Transaction
    BY <1>1, <1>4, <2>3 DEF Follows, Answers, Transaction, ByteStage, Sound
  <2> QED
    BY <2>1, <2>2, <2>3
<1> QED
  BY <1>2, <1>3, <1>5, <1>6 DEF IInv, BusOK

\* bus_idle() moves nothing: the lines are released already.
LEMMA BusIdleQuiet ==
  ASSUME IInv, BusIdle
  PROVE  UNCHANGED bus
<1>1. /\ stage = "bus_idle" /\ bit = 1 /\ result = "none" /\ got = NoByte /\ ~ack
      /\ UNCHANGED <<tries, ack, got, stretch, pullups>>
  BY DEF BusIdle, IInv, Places, ByteStage
<1>2. en = {} /\ (Sound \/ call.dry)
  BY <1>1 DEF IInv, Lines, Sound
<1>3. QED
  <2>1. CASE at = "up" /\ SetScl(TRUE)
    <3>1. BusOK /\ TypeOK
      BY InvGivesBusOK
    <3>2. CASE ~call.dry
      <4>1. en' = {}
        BY <1>2, <2>1, <3>2 DEF SetScl, LineSet
      <4>2. SclLevel(en', stretch) = Scl
        BY <1>2, <4>1 DEF Scl
      <4> QED
        BY <1>2, <2>1, <3>2, <4>1, <4>2 DEF SetScl, ClockEdge, bus
    <3> QED
      BY <2>1, <3>2 DEF SetScl
  <2>2. CASE at = "sda" /\ SetSda(TRUE)
    <3>1. CASE ~call.dry
      <4>1. en' = {}
        BY <1>2, <2>2, <3>1 DEF SetSda, LineSet
      <4>2. SdaLevel(en', mcu) = Sda
        BY <1>2, <4>1 DEF Sda
      <4> QED
        BY <1>2, <2>2, <3>1, <4>1, <4>2 DEF SetSda, DataEdge, bus
    <3> QED
      BY <2>2, <3>1 DEF SetSda
  <2> QED
    BY <2>1, <2>2 DEF BusIdle

\* bus_idle() looks at the lines.
LEMMA BusIdleStep ==
  ASSUME IInv, BusIdle
  PROVE  IInv'
<1>1. /\ stage = "bus_idle" /\ bit = 1 /\ result = "none" /\ got = NoByte /\ ~ack
      /\ UNCHANGED <<tries, ack, got, stretch, pullups>>
  BY DEF BusIdle, IInv, Places, ByteStage
<1>2. en = {} /\ (Sound \/ call.dry)
  BY <1>1 DEF IInv, Lines, Sound
<1>3. UNCHANGED bus
  BY BusIdleQuiet
<1>4. \/ stage' = "idle" /\ bit' = 1 /\ at' = "sda" /\ call' = NoCall /\ result' = "lines_low"
      \/ /\ UNCHANGED <<call, result>> /\ bit' = 1
         /\ \/ stage' = "bus_idle" /\ at' \in {"sda", "poll"}
            \/ stage' = "bus_idle" /\ at' = "sample" /\ Scl
            \/ stage' = "start" /\ at' = "sda"
  BY <1>1 DEF BusIdle, Then, Return, Enter, Goto
<1>5. TypeOK'
  BY <1>1, <1>3, <1>4, Ranges, CallAssumption
     DEF IInv, TypeOK, bus, Stage, At, Result, ByteStage
<1>6. Places'
  BY <1>1, <1>4 DEF IInv, Places, ByteStage
<1>7. Scl' = Scl
  BY <1>1, <1>3 DEF Scl, SclLevel, bus
<1>8. Sane'
  BY <1>3, <1>7 DEF IInv, Sane, bus
<1>9. Lines'
  BY <1>2, <1>3, <1>4, <1>7 DEF Lines, bus, Transaction, ByteStage
<1>10. Follows' /\ Answers'
  BY <1>4 DEF Follows, Answers, Sound, ByteStage
<1> QED
  BY <1>5, <1>6, <1>8, <1>9, <1>10 DEF IInv

-----------------------------------------------------------------------------
(* The master's other steps                                                *)

\* SDA is set for the next bit while the clock is low, or before the START,
\* where it is up already.
LEMMA PlaceSdaStep ==
  ASSUME IInv, PlaceSda
  PROVE  IInv'
<1>1. /\ stage \notin {"idle", "bus_idle"} /\ at = "sda" /\ at' = "up"
      /\ UNCHANGED <<call, stage, bit, tries, ack, got, result, stretch, pullups>>
      /\ SetSda(Level)
  BY DEF PlaceSda, Then, Goto
<1>2. Level \in BOOLEAN
  <2>1. CASE stage \in ByteStage
    BY <2>1 DEF Level, ByteStage
  <2>2. CASE stage \in {"start", "restart", "data", "stop"}
    BY <2>2 DEF Level, ByteStage
  <2> QED
    BY <1>1, <2>1, <2>2 DEF IInv, TypeOK, Stage
<1>3. /\ BusOK' /\ BusKept /\ Scl' = Scl
      /\ ~call.dry => en' = LineSet(en, DATA_BIT, Level)
      /\ ~Scl \/ SdaLevel(en', mcu) = Sda \/ call.dry => mcu' = mcu
  BY <1>1, <1>2, InvGivesBusOK, SetSdaEffect
<1>4. TypeOK'
  BY <1>1, <1>3 DEF IInv, TypeOK, At, BusOK
<1>5. Places'
  BY <1>1 DEF IInv, Places, ByteStage
<1>6. call.dry => en' = en
  BY <1>1 DEF SetSda, bus
<1>7. CASE ~Sound
  <2>1. Lines'
    BY <1>1, <1>6, <1>7 DEF IInv, Lines, Sound
  <2> QED
    BY <1>1, <1>3, <1>4, <1>5, <1>7, <2>1 DEF IInv, Follows, Answers, Sound, BusOK
<1>8. CASE Sound /\ stage = "start"
  <2>1. Level /\ en = {}
    BY <1>1, <1>8 DEF IInv, Lines, Level, ByteStage
  <2>2. en' = {}
    BY <1>3, <1>8, <2>1 DEF LineSet, Sound
  <2>3. Lines' /\ Follows' /\ Answers'
    BY <1>1, <1>8, <2>2 DEF Lines, Follows, Answers, ByteStage, Transaction
  <2> QED
    BY <1>3, <1>4, <1>5, <2>3 DEF IInv, BusOK
<1>9. CASE Sound /\ stage # "start"
  <2>1. stage \in Transaction
    BY <1>1, <1>9 DEF IInv, TypeOK, Stage, Transaction
  <2>2. CLK_BIT \in en /\ ~Scl
    BY <1>1, <1>9, <2>1 DEF IInv, Lines, Scl, SclLevel
  <2>3. mcu' = mcu /\ en' = LineSet(en, DATA_BIT, Level)
    BY <1>3, <1>9, <2>2 DEF Sound
  <2>4. Level' = Level /\ Sent' = Sent /\ Clocked' = Clocked
    BY <1>1, <1>3 DEF Level, Sent, Clocked
  <2>5. Lines'
    BY <1>1, <1>9, <2>1, <2>2, <2>3, <2>4
       DEF Lines, Sound, LineSet, CLK_BIT, DATA_BIT, Transaction, ByteStage
  <2>6. Follows' /\ Answers'
    BY <1>1, <2>3, <2>4 DEF IInv, Follows, Answers, Sound, Receives, Acks, Ours
  <2> QED
    BY <1>3, <1>4, <1>5, <2>5, <2>6 DEF IInv, BusOK
<1> QED
  BY <1>7, <1>8, <1>9

\* _scl_high() sees the clock up, or polls again, or gives up.
LEMMA PollSclStep ==
  ASSUME IInv, PollScl
  PROVE  IInv'
<1>1. /\ stage \notin {"idle", "bus_idle"} /\ at = "poll" /\ ~ack
      /\ UNCHANGED <<ack, got, bus, stretch, pullups>>
  BY DEF PollScl, IInv, Places
<1>2. \/ Raise /\ tries' = 0
      \/ Then("poll") /\ tries' = tries + 1 /\ tries + 1 < Retries
      \/ Then(AfterRise) /\ tries' = 0 /\ (Scl \/ call.dry)
  BY DEF PollScl, Reads
<1>3. CASE Raise /\ tries' = 0
  <2>1. ack' = FALSE
    BY <1>1 DEF IInv, TypeOK
  <2> QED
    BY <1>1, <1>3, <2>1, ErrorStep, Ranges
<1>4. CASE Then("poll") /\ tries' = tries + 1 /\ tries + 1 < Retries
  <2>1. UNCHANGED <<call, stage, bit, at, result>>
    BY <1>1, <1>4 DEF Then, Goto
  <2>2. Scl' = Scl /\ Sda' = Sda /\ Level' = Level /\ Sent' = Sent
    BY <1>1, <2>1 DEF Scl, SclLevel, Sda, SdaLevel, Level, Sent, bus
  <2>3. TypeOK' /\ Places'
    BY <1>1, <1>4, <2>1, RetriesAssumption DEF IInv, TypeOK, Places, bus
  <2>4. Sane' /\ Lines'
    BY <1>1, <2>1, <2>2 DEF IInv, Sane, Lines, Sound, bus
  <2>5. Follows' /\ Answers'
    BY <1>1, <2>1, <2>2 DEF IInv, Follows, Answers, Sound, Receives, Acks, Ours, Clocked, bus
  <2> QED
    BY <2>3, <2>4, <2>5 DEF IInv
<1>5. CASE Then(AfterRise) /\ tries' = 0 /\ (Scl \/ call.dry)
  <2>1. UNCHANGED <<call, stage, bit, result>> /\ at' = AfterRise
    BY <1>5 DEF Then, Goto
  <2>2. /\ stage = "start" => at' = "sample"
        /\ stage \in {"restart", "stop"} => at' = "edge"
        /\ stage \in ByteStage => at' = IF bit > Bits THEN "sample" ELSE "down"
        /\ stage = "data" => at' = IF bit > Bits THEN "down" ELSE "sample"
    BY <2>1 DEF AfterRise, ByteStage
  <2>3. Scl' = Scl /\ Sda' = Sda /\ Level' = Level /\ Sent' = Sent
    BY <1>1, <2>1 DEF Scl, SclLevel, Sda, SdaLevel, Level, Sent, bus
  <2>4. TypeOK'
    BY <1>1, <1>5, <2>1, <2>2, Ranges DEF IInv, TypeOK, bus, At, Stage
  <2>5. Places'
    BY <1>1, <2>1, <2>2, BitsAssumption DEF IInv, TypeOK, Places, Stage, ByteStage
  <2>6. Sane' /\ Lines'
    BY <1>1, <1>5, <2>1, <2>2, <2>3
       DEF IInv, TypeOK, Sane, Lines, Sound, bus, Transaction, ByteStage, Stage
  <2>7. Follows' /\ Answers'
    BY <1>1, <1>5, <2>1, <2>2, <2>3
       DEF IInv, Follows, Answers, Sound, Receives, Acks, Ours, Clocked, bus, ByteStage
  <2> QED
    BY <2>4, <2>5, <2>6, <2>7 DEF IInv
<1> QED
  BY <1>2, <1>3, <1>4, <1>5

\* SDA is read: the bus is free before a START, the slave has acknowledged, or
\* the next bit has been received.
LEMMA SampleSdaStep ==
  ASSUME IInv, SampleSda
  PROVE  IInv'
<1>1. /\ stage \in ByteStage \cup {"start", "data"} /\ at = "sample" /\ ~ack
      /\ UNCHANGED <<tries, bus, stretch, pullups>>
  BY DEF SampleSda, IInv, Places
<1>2. Sda \in BOOLEAN
  BY DEF Sda, SdaLevel
<1>3. PICK level \in Reads(Sda) :
        \/ /\ stage = "start"
           /\ IF level THEN Then("edge") ELSE Raise
           /\ UNCHANGED <<ack, got>>
        \/ /\ stage \in ByteStage
           /\ ack' = ~level
           /\ Then("down")
           /\ UNCHANGED got
        \/ /\ stage = "data"
           /\ got' = [got EXCEPT ![bit] = level]
           /\ Then("down")
           /\ UNCHANGED ack
  BY <1>1 DEF SampleSda
<1>4. level \in BOOLEAN /\ (Sound => level = Sda)
  BY <1>2 DEF Reads, Sound
<1>5. Scl' = Scl /\ Sda' = Sda
  BY <1>1 DEF Scl, SclLevel, Sda, SdaLevel, bus
<1>6. CASE stage = "start" /\ ~level
  <2>1. Raise /\ UNCHANGED <<ack, got>>
    BY <1>3, <1>6 DEF ByteStage
  <2>2. ack' = FALSE /\ tries' \in 0..Retries - 1
    BY <1>1, <2>1 DEF IInv, TypeOK
  <2> QED
    BY <1>1, <1>6, <2>1, <2>2, ErrorStep
<1>7. CASE stage = "start" /\ level
  <2>1. UNCHANGED <<call, stage, bit, got, ack, result>> /\ at' = "edge"
    BY <1>3, <1>7 DEF Then, Goto, ByteStage
  <2>2. TypeOK' /\ Places'
    BY <1>1, <1>7, <2>1 DEF IInv, TypeOK, Places, ByteStage, At, bus
  <2>3. Sane' /\ Lines'
    BY <1>1, <1>4, <1>5, <1>7, <2>1
       DEF IInv, Sane, Lines, Sound, bus, Transaction, ByteStage
  <2>4. Follows' /\ Answers'
    BY <1>7, <2>1 DEF Follows, Answers, ByteStage
  <2> QED
    BY <2>2, <2>3, <2>4 DEF IInv
<1>8. CASE stage \in ByteStage
  <2>1. /\ UNCHANGED <<call, stage, bit, got, result>> /\ at' = "down" /\ ack' = ~level
        /\ bit = Bits + 1
    BY <1>1, <1>3, <1>8 DEF Then, Goto, ByteStage, IInv, Places
  <2>2. Sent' = Sent /\ Level' = Level
    BY <2>1 DEF Sent, Level
  <2>3. TypeOK' /\ Places'
    BY <1>1, <1>8, <2>1 DEF IInv, TypeOK, Places, ByteStage, At, bus
  <2>4. Sane' /\ Lines'
    BY <1>1, <1>5, <1>8, <2>1, <2>2
       DEF IInv, Sane, Lines, Sound, bus, Transaction, ByteStage
  <2>5. Follows'
    BY <1>1, <1>5, <1>8, <2>1, <2>2
       DEF IInv, Follows, Sound, bus, Receives, Acks, Ours, Clocked, ByteStage
  <2>6. ASSUME Sound
        PROVE  ack' = mcu'.low
    <3>1. DATA_BIT \notin en /\ Scl
      <4>1. Level
        <5>1. bit > Bits
          BY <2>1, BitsAssumption
        <5> QED
          BY <1>8, <5>1 DEF Level, ByteStage
      <4> QED
        BY <1>1, <1>8, <2>6, <4>1 DEF IInv, Lines, Transaction, ByteStage
    <3>2. Sda <=> ~mcu.low
      BY <3>1 DEF Sda, SdaLevel, Scl, SclLevel
    <3>3. mcu.low \in BOOLEAN /\ mcu' = mcu
      BY <1>1 DEF IInv, TypeOK, SlaveState, bus
    <3> QED
      BY <1>2, <1>4, <2>1, <2>6, <3>2, <3>3
  <2>7. Answers'
    BY <1>1, <1>8, <2>1, <2>6 DEF IInv, Answers, Sound, bus, ByteStage
  <2> QED
    BY <2>3, <2>4, <2>5, <2>7 DEF IInv
<1>9. CASE stage = "data"
  <2>1. /\ UNCHANGED <<call, stage, bit, ack, result>> /\ at' = "down"
        /\ got' = [got EXCEPT ![bit] = level]
    BY <1>3, <1>9 DEF Then, Goto, ByteStage
  <2>2. bit \in 1..Bits
    BY <1>1, <1>9, BitsAssumption DEF IInv, Places, TypeOK
  <2>3. got \in Byte /\ got' \in Byte
    BY <1>4, <1>9, <2>1 DEF IInv, Places, Byte
  <2>4. TypeOK' /\ Places'
    BY <1>1, <1>9, <2>1, <2>2, <2>3 DEF IInv, TypeOK, Places, ByteStage, At, bus
  <2>5. Sane' /\ Lines'
    BY <1>1, <1>5, <1>9, <2>1
       DEF IInv, Sane, Lines, Sound, Level, bus, Transaction, ByteStage
  <2>6. Follows'
    BY <1>1, <1>9, <2>1 DEF IInv, Follows, Sound, bus, Ours, ByteStage
  <2>7. ASSUME Sound
        PROVE  level = mcu.regs[call.reg][bit]
    <3>1. DATA_BIT \notin en /\ Scl
      BY <1>1, <1>9, <2>7 DEF IInv, Lines, Transaction, ByteStage, Level
    <3>2. Sda <=> ~mcu.low
      BY <3>1 DEF Sda, SdaLevel, Scl, SclLevel
    <3>3. mcu.low = ~mcu.out[bit] /\ mcu.out = mcu.regs[call.reg]
      BY <1>9, <2>2, <2>7 DEF IInv, Follows
    <3>4. mcu.regs[call.reg] \in Byte /\ mcu.regs[call.reg][bit] \in BOOLEAN
      BY <1>9, <2>2, CallFields DEF IInv, TypeOK, SlaveState, Byte
    <3> QED
      BY <1>2, <1>4, <2>7, <3>2, <3>3, <3>4
  <2>8. Answers'
    <3> SUFFICES ASSUME Sound, NEW i \in 1..Bits, i <= bit
                 PROVE  got'[i] = mcu.regs[call.reg][i]
      BY <1>1, <1>9, <2>1, <2>2 DEF Answers, Sound, bus, ByteStage
    <3>1. CASE i = bit
      BY <2>1, <2>2, <2>3, <2>7, <3>1 DEF Byte
    <3>2. CASE i # bit
      BY <1>9, <2>1, <2>2, <2>3, <3>2 DEF Byte, IInv, Answers
    <3> QED
      BY <3>1, <3>2
  <2> QED
    BY <2>4, <2>5, <2>6, <2>8 DEF IInv
<1> QED
  BY <1>1, <1>6, <1>7, <1>8, <1>9

\* SDA moves under the high clock: down for a START, up for a STOP, and then
\* the call returns.
LEMMA EdgeStep ==
  ASSUME IInv, Edge
  PROVE  IInv'
<1>1. /\ stage \in {"start", "restart", "stop"} /\ bit = 1 /\ at = "edge" /\ ~ack
      /\ SetSda(stage = "stop")
      /\ UNCHANGED <<tries, ack, got, stretch, pullups>>
  BY DEF Edge, IInv, Places, TypeOK, Stage, ByteStage
<1>2. /\ BusOK' /\ BusKept /\ Scl' = Scl
      /\ ~call.dry => en' = LineSet(en, DATA_BIT, stage = "stop")
  BY <1>1, InvGivesBusOK, SetSdaEffect
<1>3. call.dry => en' = en
  BY <1>1 DEF SetSda, bus
<1>4. CASE stage = "stop"
  <2>1. stage' = "idle" /\ bit' = 1 /\ at' = "sda" /\ call' = NoCall /\ result' = result
    BY <1>4 DEF Edge, Return, Goto
  <2>2. TypeOK'
    BY <1>1, <1>2, <2>1, Ranges DEF IInv, TypeOK, BusOK, Stage, At
  <2>3. Places'
    BY <1>1, <2>1 DEF IInv, Places, ByteStage
  <2>4. result # "error" => en' = {}
    <3>1. CASE call.dry
      BY <1>3, <1>4, <3>1 DEF IInv, Lines
    <3>2. CASE ~call.dry /\ result # "error"
      <4>1. CLK_BIT \notin en /\ en \subseteq Line
        BY <1>1, <1>4, <3>2 DEF IInv, TypeOK, Lines, Sound, Transaction
      <4>2. en' = en \ {DATA_BIT}
        BY <1>2, <1>4, <3>2 DEF LineSet
      <4> QED
        BY <4>1, <4>2 DEF Line
    <3> QED
      BY <3>1, <3>2
  <2>5. Lines' /\ Follows' /\ Answers'
    BY <2>1, <2>4 DEF Lines, Follows, Answers, Sound
  <2> QED
    BY <1>2, <2>2, <2>3, <2>5 DEF IInv, BusOK
<1>5. CASE stage \in {"start", "restart"}
  <2>1. UNCHANGED <<call, stage, bit, result>> /\ at' = "down"
    BY <1>5 DEF Edge, Then, Goto
  <2>2. TypeOK'
    BY <1>1, <1>2, <2>1 DEF IInv, TypeOK, BusOK, At
  <2>3. Places'
    BY <1>1, <1>5, <2>1 DEF IInv, Places, ByteStage
  <2>4. CASE ~Sound
    BY <1>2, <1>3, <1>5, <2>1, <2>2, <2>3, <2>4 DEF IInv, Lines, Follows, Answers, Sound, BusOK
  <2>5. CASE Sound
    <3>1. Scl /\ pullups /\ Sda
      BY <1>1, <1>5, <2>5 DEF IInv, Lines, Follows, Scl, SclLevel, Sda, SdaLevel,
                              Transaction, Level, ByteStage
    <3>2. en' = en \cup {DATA_BIT}
      BY <1>2, <1>5, <2>5 DEF LineSet, Sound
    <3>3. mcu' = OnStart(mcu)
      <4>1. ~SdaLevel(en', mcu)
        BY <3>2 DEF SdaLevel
      <4> QED
        BY <1>1, <2>5, <3>1, <4>1 DEF SetSda, DataEdge, Sound
    <3>4. mcu'.phase = "addr" /\ mcu'.nbits = 0 /\ ~mcu'.low /\ mcu'.cur = mcu.cur
      BY <3>3, StartEffect DEF IInv, TypeOK
    <3>5. Lines'
      BY <1>1, <1>2, <1>5, <2>1, <2>5, <3>1, <3>2
         DEF IInv, Lines, Sound, Transaction, ByteStage, Level, CLK_BIT, DATA_BIT
    <3>6. Follows' /\ Answers'
      BY <1>2, <1>5, <2>1, <2>5, <3>4
         DEF IInv, Follows, Answers, Sound, ByteStage, BusKept, Ours
    <3> QED
      BY <1>2, <2>2, <2>3, <3>5, <3>6 DEF IInv, BusOK
  <2> QED
    BY <2>4, <2>5
<1> QED
  BY <1>1, <1>4, <1>5

-----------------------------------------------------------------------------
(* The clock falls                                                         *)

\* Where the transaction goes from each falling edge.
Course ==
  \/ stage = "start" /\ stage' = "addr_w" /\ bit' = 1 /\ at' = "sda" /\ result' = result
  \/ stage = "restart" /\ stage' = "addr_r" /\ bit' = 1 /\ at' = "sda" /\ result' = result
  \/ /\ stage \in ByteStage /\ bit <= Bits
     /\ stage' = stage /\ bit' = bit + 1 /\ at' = "sda" /\ result' = result
  \/ /\ stage \in ByteStage /\ bit = Bits + 1 /\ ack
     /\ bit' = 1 /\ at' = "sda"
     /\ \/ stage = "addr_w" /\ stage' = "reg" /\ result' = result
        \/ stage = "reg" /\ call.op = "write" /\ stage' = "value" /\ result' = result
        \/ stage = "reg" /\ call.op # "write" /\ stage' = "restart" /\ result' = result
        \/ stage = "value" /\ stage' = "stop" /\ result' = "ok"
        \/ stage = "addr_r" /\ stage' = "data" /\ result' = result
  \/ /\ stage \in ByteStage /\ bit = Bits + 1 /\ ~ack
     /\ stage' = "stop" /\ bit' = 1 /\ at' = "sda" /\ result' = "nack"
  \/ /\ stage = "data" /\ bit <= Bits
     /\ stage' = stage /\ bit' = bit + 1 /\ at' = (IF bit < Bits THEN "up" ELSE "sda")
     /\ result' = result
  \/ /\ stage = "data" /\ bit = Bits + 1
     /\ stage' = "stop" /\ bit' = 1 /\ at' = "sda" /\ result' = "ok"

\* What follows a falling edge is one of the ways of Course.
LEMMA AfterFallCourse ==
  ASSUME IInv, at = "down", AfterFall
  PROVE  /\ stage \in ByteStage \cup {"start", "restart", "data"}
         /\ call' = call /\ Course
<1>1. stage \in ByteStage \cup {"start", "restart", "data"} /\ bit \in 1..Bits + 1
  BY DEF IInv, Places, TypeOK, Stage
<1>2. bit > Bits <=> bit = Bits + 1
  BY <1>1, BitsAssumption
<1>3. bit <= Bits \/ bit = Bits + 1
  BY <1>1, BitsAssumption
<1>4. CASE stage \in {"start", "restart"}
  BY <1>4 DEF AfterFall, Enter, Goto, Course, ByteStage
<1>5. CASE stage \in ByteStage /\ bit <= Bits
  <2>1. ~(bit > Bits)
    BY <1>1, <1>5, BitsAssumption
  <2>2. Goto(stage, bit + 1, "sda") /\ UNCHANGED <<call, result>>
    BY <1>5, <2>1 DEF AfterFall, ByteStage
  <2> QED
    BY <1>5, <2>2 DEF Goto, Course
<1>6. CASE stage \in ByteStage /\ bit = Bits + 1
  <2>1. ~(bit <= Bits) /\ bit > Bits
    BY <1>2, <1>6, BitsAssumption
  <2>2. IF ack THEN AfterAck ELSE Finally("nack")
    BY <1>6, <2>1 DEF AfterFall, ByteStage
  <2> QED
    <3>1. CASE ~ack
      BY <1>6, <2>2, <3>1 DEF Finally, Goto, Course
    <3>2. CASE ack /\ stage = "addr_w"
      BY <1>6, <2>2, <3>2 DEF AfterAck, Enter, Goto, Course
    <3>3. CASE ack /\ stage = "reg"
      BY <1>6, <2>2, <3>3 DEF AfterAck, Enter, Goto, Course
    <3>4. CASE ack /\ stage = "value"
      BY <1>6, <2>2, <3>4 DEF AfterAck, Finally, Goto, Course
    <3>5. CASE ack /\ stage = "addr_r"
      BY <1>6, <2>2, <3>5 DEF AfterAck, Enter, Goto, Course
    <3>6. stage \in {"addr_w", "reg", "value", "addr_r"}
      BY <1>6 DEF ByteStage
    <3> QED
      BY <1>1, <3>1, <3>2, <3>3, <3>4, <3>5, <3>6
<1>7. CASE stage = "data" /\ bit <= Bits
  <2>1. ~(bit > Bits)
    BY <1>1, <1>7, BitsAssumption
  <2>2. /\ Goto(stage, bit + 1, IF bit < Bits THEN "up" ELSE "sda")
        /\ UNCHANGED <<call, result>>
    BY <1>7, <2>1 DEF AfterFall, ByteStage
  <2> QED
    BY <1>7, <2>2 DEF Goto, Course
<1>8. CASE stage = "data" /\ bit = Bits + 1
  <2>1. ~(bit <= Bits) /\ bit > Bits
    BY <1>2, <1>8, BitsAssumption
  <2>2. Finally("ok")
    BY <1>8, <2>1 DEF AfterFall, ByteStage
  <2> QED
    BY <1>8, <2>2 DEF Finally, Goto, Course
<1> QED
  BY <1>1, <1>3, <1>4, <1>5, <1>6, <1>7, <1>8

\* A fall between two bits of a byte keeps the bits the slave has.
LEMMA FallReceives ==
  ASSUME mcu \in SlaveState, NEW phase \in {"addr", "reg", "data_w"},
         Receives(phase), Scl, ~Scl', bit \in 1..Bits, bit < Bits, bit' = bit + 1,
         mcu' = [mcu EXCEPT !.low = FALSE], UNCHANGED <<stage, call>>
  PROVE  Receives(phase)'
<1>1. mcu'.phase = mcu.phase /\ ~mcu'.low /\ mcu'.nbits = mcu.nbits /\ mcu'.shift = mcu.shift
  BY DEF SlaveState
<1>2. Clocked' = bit /\ Clocked = bit /\ Sent' = Sent
  BY DEF Clocked, Sent
<1> QED
  BY <1>1, <1>2 DEF Receives

\* The first bit of a byte: the slave has none.
LEMMA StartsReceiving ==
  ASSUME NEW phase, ~Scl', bit' = 1, mcu'.phase = phase, ~mcu'.low, mcu'.nbits = 0
  PROVE  Receives(phase)'
<1>1. Clocked' = 0
  BY DEF Clocked
<1> QED
  BY <1>1 DEF Receives

\* Bytes with the same bits are the same.
LEMMA BytesEqual ==
  ASSUME NEW a \in Byte, NEW b \in Byte, \A i \in 1..Bits : a[i] = b[i]
  PROVE  a = b
<1>1. a = [i \in 1..Bits |-> a[i]] /\ b = [i \in 1..Bits |-> b[i]]
  BY DEF Byte
<1>2. [i \in 1..Bits |-> a[i]] = [i \in 1..Bits |-> b[i]]
  OBVIOUS
<1> QED
  BY <1>1, <1>2

\* A whole byte received is the byte sent.
LEMMA ReceivedIsSent ==
  ASSUME IInv, NEW phase, Receives(phase), stage \in ByteStage, Scl, bit = Bits
  PROVE  mcu.shift = Sent /\ mcu.nbits = Bits /\ mcu.phase = phase
<1>1. Sent \in Byte /\ mcu.shift \in Byte
  BY SentIsByte DEF IInv, TypeOK, SlaveState
<1>2. Clocked = Bits
  BY DEF Clocked
<1>3. \A i \in 1..Bits : mcu.shift[i] = Sent[i]
  BY <1>2 DEF Receives
<1>4. mcu.shift = Sent
  BY <1>1, <1>3, BytesEqual
<1> QED
  BY <1>2, <1>4 DEF Receives

\* The slave answers to the address byte of its own address and to no other.
LEMMA AddressMatches ==
  ASSUME NEW m \in SlaveState, NEW read \in BOOLEAN, m.shift = AddressByte(read)
  PROVE  /\ AddressOf(m.shift) = m.addr <=> m.addr = Addr
         /\ m.shift[Bits] = read
<1>1. m.shift[Bits] = read
  BY BitsAssumption DEF AddressByte
<1>2. AddressOf(m.shift) = [i \in 1..Bits - 1 |-> Addr[i]]
  <2>1. \A i \in 1..Bits - 1 : i \in 1..Bits /\ i # Bits
    BY BitsAssumption
  <2> QED
    BY <2>1 DEF AddressOf, AddressByte
<1>3. AddressOf(m.shift) = Addr
  BY <1>2, AddrAssumption DEF Address
<1> QED
  BY <1>1, <1>3

\* What the slave makes of a falling edge is what the master expects it to.
LEMMA FallFollows ==
  ASSUME IInv, Sound, at = "down", Scl, ~Scl', mcu' = OnFall(mcu), call' = call, Course
  PROVE  Follows'
<1> DEFINE n == OnFall(mcu)
<1>1. /\ mcu \in SlaveState /\ bit \in 1..Bits + 1
      /\ mcu.phase \in {"ack_reg", "data_w", "ack_data"} => mcu.cur \in Byte
      /\ mcu.phase = "data_r" => mcu.out \in Byte
  BY DEF IInv, TypeOK, Sane
<1>2. mcu'.addr = mcu.addr
  BY <1>1, FallEffect
<1>3. Clocked = bit /\ stage # "idle" /\ ~call.dry
  BY DEF Clocked, Sound
<1>4. CASE stage = "start" \/ stage = "restart"
  <2>1. mcu.phase = "addr" /\ mcu.nbits = 0 /\ (stage = "restart" => Ours /\ mcu.cur = call.reg)
    BY <1>4 DEF IInv, Follows
  <2>2. mcu'.phase = "addr" /\ mcu'.nbits = 0 /\ ~mcu'.low /\ mcu'.cur = mcu.cur
    <3>1. mcu' = [mcu EXCEPT !.low = FALSE]
      BY <1>1, <2>1, FallEffect, BitsAssumption
    <3> QED
      BY <1>1, <2>1, <3>1 DEF SlaveState
  <2>3. bit' = 1 /\ stage' = (IF stage = "start" THEN "addr_w" ELSE "addr_r")
    BY <1>4 DEF Course, ByteStage
  <2>4. Receives("addr")'
    BY <2>2, <2>3, StartsReceiving
  <2>5. 1 <= Bits
    BY BitsAssumption
  <2> QED
    BY <1>2, <1>4, <2>1, <2>2, <2>3, <2>4, <2>5, BitsAssumption DEF Follows, Ours
<1>5. CASE stage \in ByteStage /\ bit < Bits
  <2>1. /\ stage' = stage /\ bit' = bit + 1 /\ at' = "sda"
        /\ bit <= Bits /\ bit' <= Bits /\ ~(bit > Bits) /\ ~(bit' > Bits)
    BY <1>1, <1>5, BitsAssumption DEF Course, ByteStage
  <2>2. ASSUME NEW phase \in {"addr", "reg", "data_w"}, Receives(phase)
        PROVE  Receives(phase)' /\ mcu'.cur = mcu.cur
    <3>1. mcu.phase \in {"addr", "reg", "data_w"} /\ mcu.nbits # Bits
      BY <1>1, <1>3, <1>5, <2>2, BitsAssumption DEF Receives
    <3>2. mcu' = [mcu EXCEPT !.low = FALSE]
      BY <1>1, <3>1, FallEffect
    <3>3. bit \in 1..Bits
      BY <1>1, <2>1, BitsAssumption
    <3>4. Receives(phase)'
      BY <1>1, <1>5, <2>1, <2>2, <3>2, <3>3, FallReceives
    <3> QED
      BY <1>1, <3>2, <3>4 DEF SlaveState
  <2>3. CASE stage = "addr_w"
    BY <2>1, <2>2, <2>3 DEF IInv, Follows
  <2>4. CASE stage = "reg"
    BY <1>2, <2>1, <2>2, <2>4 DEF IInv, Follows, Ours
  <2>5. CASE stage = "value"
    BY <1>2, <2>1, <2>2, <2>5 DEF IInv, Follows, Ours
  <2>6. CASE stage = "addr_r"
    BY <1>2, <2>1, <2>2, <2>6 DEF IInv, Follows, Ours
  <2> QED
    BY <1>5, <2>3, <2>4, <2>5, <2>6 DEF ByteStage
<1>6. CASE stage \in ByteStage /\ bit = Bits
  <2>1. /\ stage' = stage /\ bit' = Bits + 1 /\ at' = "sda"
        /\ bit <= Bits /\ ~(bit' <= Bits) /\ bit' > Bits
    BY <1>1, <1>6, BitsAssumption DEF Course, ByteStage
  <2>2. ASSUME NEW phase \in {"addr", "reg", "data_w"}, Receives(phase)
        PROVE  /\ mcu.shift = Sent /\ mcu.phase = phase /\ ~mcu.low
               /\ mcu' = TakeByte(mcu)
    <3>1. mcu.shift = Sent /\ mcu.nbits = Bits /\ mcu.phase = phase
      BY <1>6, <2>2, ReceivedIsSent
    <3> QED
      BY <2>2, <3>1 DEF OnFall, Receives
  <2>3. CASE stage = "addr_w"
    <3>1. mcu.shift = AddressByte(FALSE) /\ mcu.phase = "addr" /\ ~mcu.low /\ mcu' = TakeByte(mcu)
      BY <2>1, <2>2, <2>3 DEF IInv, Follows, Sent
    <3>2. (AddressOf(mcu.shift) = mcu.addr <=> Ours) /\ mcu.shift[Bits] = FALSE
      BY <1>1, <3>1, AddressMatches DEF Ours
    <3>3. /\ Ours => mcu'.phase = "ack_addr" /\ mcu'.low /\ mcu'.reading = FALSE
          /\ ~Ours => mcu'.phase = "idle" /\ ~mcu'.low
      BY <1>1, <3>1, <3>2, TakeEffect
    <3>4. Ours' <=> Ours
      BY <1>2 DEF Ours
    <3> QED
      BY <2>1, <2>3, <3>3, <3>4 DEF Follows, Acks
  <2>4. CASE stage = "reg"
    <3>1. /\ mcu.shift = call.reg /\ mcu.phase = "reg" /\ mcu' = TakeByte(mcu) /\ Ours
      BY <2>1, <2>2, <2>4 DEF IInv, Follows, Sent
    <3>2. mcu'.phase = "ack_reg" /\ mcu'.low /\ mcu'.cur = call.reg
      BY <1>1, <3>1, TakeEffect
    <3> QED
      BY <1>2, <2>1, <2>4, <3>1, <3>2 DEF Follows, Acks, Ours
  <2>5. CASE stage = "value"
    <3>1. /\ mcu.shift = call.value /\ mcu.phase = "data_w" /\ mcu' = TakeByte(mcu) /\ Ours
          /\ mcu.cur = call.reg
      BY <2>1, <2>2, <2>5 DEF IInv, Follows, Sent
    <3>2. call.reg \in Byte /\ mcu.regs \in [Byte -> Byte]
      BY <1>1, <1>3, CallFields DEF IInv, SlaveState
    <3>3. /\ mcu'.phase = "ack_data" /\ mcu'.low /\ mcu'.cur = call.reg
          /\ mcu'.regs = [mcu.regs EXCEPT ![call.reg] = call.value]
      BY <1>1, <3>1, <3>2, TakeEffect
    <3> QED
      BY <1>2, <2>1, <2>5, <3>1, <3>2, <3>3 DEF Follows, Acks, Ours
  <2>6. CASE stage = "addr_r"
    <3>1. /\ mcu.shift = AddressByte(TRUE) /\ mcu.phase = "addr" /\ mcu' = TakeByte(mcu)
          /\ Ours /\ mcu.cur = call.reg
      BY <2>1, <2>2, <2>6 DEF IInv, Follows, Sent
    <3>2. AddressOf(mcu.shift) = mcu.addr /\ mcu.shift[Bits] = TRUE
      BY <1>1, <3>1, AddressMatches DEF Ours
    <3>3. mcu'.phase = "ack_addr" /\ mcu'.low /\ mcu'.reading = TRUE /\ mcu'.cur = call.reg
      BY <1>1, <3>1, <3>2, TakeEffect
    <3> QED
      BY <1>2, <2>1, <2>6, <3>1, <3>3 DEF Follows, Acks, Ours
  <2> QED
    BY <1>6, <2>3, <2>4, <2>5, <2>6 DEF ByteStage
<1>7. CASE stage \in ByteStage /\ bit = Bits + 1
  <2>1. bit > Bits /\ ~(bit <= Bits) /\ ~(1 > Bits) /\ 1 <= Bits
    BY <1>7, BitsAssumption
  <2>2. ack = mcu.low /\ mcu.low \in BOOLEAN
    BY <1>1, <1>7, <2>1 DEF IInv, Answers, SlaveState
  <2>3. CASE stage = "addr_w" /\ ack
    <3>1. Ours /\ mcu.phase = "ack_addr" /\ ~mcu.reading
      BY <2>1, <2>2, <2>3 DEF IInv, Follows, Acks
    <3>2. mcu'.phase = "reg" /\ mcu'.nbits = 0 /\ ~mcu'.low
      BY <1>1, <3>1, FallEffect
    <3>3. stage' = "reg" /\ bit' = 1 /\ at' = "sda"
      BY <1>7, <2>1, <2>3 DEF Course, ByteStage
    <3>4. Receives("reg")'
      BY <3>2, <3>3, StartsReceiving
    <3> QED
      BY <1>2, <2>1, <3>1, <3>3, <3>4 DEF Follows, Ours
  <2>4. CASE stage = "reg" /\ ack
    <3>1. Ours /\ mcu.phase = "ack_reg" /\ mcu.cur = call.reg
      BY <2>1, <2>4 DEF IInv, Follows, Acks
    <3>2. mcu'.phase = "data_w" /\ mcu'.nbits = 0 /\ ~mcu'.low /\ mcu'.cur = call.reg
      BY <1>1, <3>1, FallEffect
    <3>3. stage' \in {"value", "restart"} /\ bit' = 1 /\ at' = "sda"
      BY <1>7, <2>1, <2>4 DEF Course, ByteStage
    <3>4. Receives("data_w")' /\ Clocked' = 0
      BY <3>2, <3>3, StartsReceiving DEF Clocked
    <3> QED
      BY <1>2, <2>1, <3>1, <3>2, <3>3, <3>4 DEF Follows, Ours
  <2>5. CASE stage = "value" /\ ack
    <3>1. Ours /\ mcu.phase = "ack_data"
      BY <2>1, <2>5 DEF IInv, Follows, Acks
    <3>2. ~mcu'.low
      BY <1>1, <3>1, FallEffect
    <3>3. stage' = "stop"
      BY <1>7, <2>1, <2>5 DEF Course, ByteStage
    <3> QED
      BY <3>2, <3>3 DEF Follows
  <2>6. CASE stage = "addr_r" /\ ack
    <3>1. Ours /\ mcu.phase = "ack_addr" /\ mcu.reading /\ mcu.cur = call.reg
      BY <2>1, <2>6 DEF IInv, Follows, Acks
    <3>2. call.reg # NoByte
      BY <1>3, CallFields, NoByteAssumption DEF IInv
    <3>3. /\ mcu'.phase = "data_r" /\ mcu'.idx = 1 /\ mcu'.out = mcu.regs[call.reg]
          /\ mcu'.low = ~mcu'.out[1] /\ mcu'.regs = mcu.regs
      <4>1. /\ mcu'.phase = "data_r" /\ mcu'.idx = 1 /\ mcu'.out = Selected(mcu)
            /\ mcu'.low = ~mcu'.out[1]
        BY <1>1, <3>1, FallEffect
      <4>2. mcu'.regs = mcu.regs
        BY <1>1, <3>1, FallEffect
      <4>3. Selected(mcu) = mcu.regs[call.reg]
        BY <3>1, <3>2 DEF Selected
      <4> QED
        BY <4>1, <4>2, <4>3
    <3>4. stage' = "data" /\ bit' = 1 /\ at' = "sda"
      BY <1>7, <2>1, <2>6 DEF Course, ByteStage
    <3> QED
      BY <1>2, <2>1, <3>1, <3>3, <3>4 DEF Follows, Ours
  <2>7. CASE ~ack
    <3>1. stage = "addr_w" /\ ~Ours /\ mcu.phase = "idle"
      BY <1>7, <2>1, <2>2, <2>7 DEF IInv, Follows, Acks, ByteStage
    <3>2. ~mcu'.low
      <4>1. mcu' = [mcu EXCEPT !.low = FALSE]
        BY <1>1, <3>1, FallEffect
      <4> QED
        BY <1>1, <4>1 DEF SlaveState
    <3>3. stage' = "stop"
      BY <1>7, <2>1, <2>7 DEF Course, ByteStage
    <3> QED
      BY <3>2, <3>3 DEF Follows
  <2> QED
    BY <1>7, <2>3, <2>4, <2>5, <2>6, <2>7 DEF ByteStage
<1>8. CASE stage = "data" /\ bit <= Bits
  <2>1. /\ mcu.phase = "data_r" /\ mcu.idx = bit /\ mcu.out = mcu.regs[call.reg] /\ Ours
        /\ mcu.out \in Byte
    BY <1>1, <1>8 DEF IInv, Follows
  <2>2. stage' = "data" /\ bit' = bit + 1 /\ at' # "down"
    BY <1>8, BitsAssumption, <1>1 DEF Course, ByteStage
  <2>3. mcu' = DriveReadBit(mcu)
    BY <2>1 DEF OnFall
  <2>4. CASE bit < Bits
    <3>1. /\ mcu'.phase = "data_r" /\ mcu'.idx = bit + 1 /\ mcu'.low = ~mcu.out[bit + 1]
          /\ mcu'.out = mcu.out /\ mcu'.regs = mcu.regs
      BY <1>1, <2>1, <2>3, <2>4, DriveEffect DEF Keeps
    <3>2. ~(bit' > Bits)
      BY <1>1, <2>2, <2>4, BitsAssumption
    <3> QED
      BY <1>2, <2>1, <2>2, <3>1, <3>2 DEF Follows, Ours
  <2>5. CASE bit = Bits
    <3>1. mcu'.phase = "ack_master" /\ ~mcu'.low
      BY <1>1, <2>1, <2>3, <2>5, DriveEffect
    <3>2. ~(bit' <= Bits)
      BY <1>1, <2>2, <2>5, BitsAssumption
    <3> QED
      BY <1>2, <2>1, <2>2, <3>1, <3>2 DEF Follows, Ours
  <2> QED
    BY <1>1, <1>8, <2>4, <2>5, BitsAssumption
<1>9. CASE stage = "data" /\ bit = Bits + 1
  <2>1. bit > Bits /\ ~(bit <= Bits)
    BY <1>9, BitsAssumption
  <2>2. mcu.phase = "ack_master"
    BY <1>9, <2>1 DEF IInv, Follows
  <2>3. ~mcu'.low
    <3>1. mcu' = [mcu EXCEPT !.low = FALSE]
      BY <1>1, <2>2, FallEffect
    <3> QED
      BY <1>1, <3>1 DEF SlaveState
  <2>4. stage' = "stop"
    BY <1>9, <2>1 DEF Course, ByteStage
  <2> QED
    BY <2>3, <2>4 DEF Follows
<1>10. bit < Bits \/ bit = Bits \/ bit = Bits + 1
  BY <1>1, BitsAssumption
<1>11. bit <= Bits \/ bit = Bits + 1
  BY <1>1, BitsAssumption
<1>12. stage \in ByteStage \cup {"start", "restart", "data"}
  BY DEF Course
<1> QED
  BY <1>4, <1>5, <1>6, <1>7, <1>8, <1>9, <1>10, <1>11, <1>12

\* What the outcome says is what the slave holds.
LEMMA FallAnswers ==
  ASSUME IInv, Sound, at = "down", Scl, mcu' = OnFall(mcu), call' = call, Course,
         got' = IF stage # "data" /\ stage' = "data" THEN Zero ELSE got
  PROVE  Answers'
<1>1. /\ mcu \in SlaveState /\ bit \in 1..Bits + 1 /\ result = "none"
      /\ mcu.phase \in {"ack_reg", "data_w", "ack_data"} => mcu.cur \in Byte
      /\ mcu.phase = "data_r" => mcu.out \in Byte
  BY DEF IInv, TypeOK, Sane, Places, Course, ByteStage
<1>2. mcu'.addr = mcu.addr
  BY <1>1, FallEffect
<1>3. at' # "down"
  BY DEF Course
<1>4. CASE stage' \notin {"data", "stop"}
  BY <1>3, <1>4 DEF Answers, ByteStage
<1>5. CASE stage # "data" /\ stage' = "data"
  <2>1. bit' = 1
    BY <1>5 DEF Course, ByteStage
  <2> QED
    BY <1>3, <1>5, <2>1 DEF Answers, ByteStage
<1>6. CASE stage = "data" /\ stage' = "data"
  <2>1. bit' = bit + 1 /\ bit <= Bits /\ got' = got
    BY <1>6 DEF Course, ByteStage
  <2>2. mcu'.regs = mcu.regs
    <3>1. mcu.phase = "data_r"
      BY <1>6, <2>1 DEF IInv, Follows
    <3> QED
      BY <1>1, <3>1, FallEffect
  <2>3. \A i \in 1..Bits : i < bit' => i < bit \/ i = bit
    BY <1>1, <2>1, BitsAssumption
  <2> QED
    BY <1>3, <1>6, <2>1, <2>2, <2>3 DEF IInv, Answers, ByteStage
<1>7. CASE stage' = "stop"
  <2>1. CASE stage = "data"
    <3>1. bit = Bits + 1 /\ result' = "ok" /\ got' = got
      BY <1>7, <2>1 DEF Course, ByteStage
    <3>2. ~(bit <= Bits) /\ bit > Bits /\ \A i \in 1..Bits : i < bit
      BY <3>1, BitsAssumption
    <3>3. mcu'.regs = mcu.regs
      <4>1. mcu.phase = "ack_master"
        BY <2>1, <3>2 DEF IInv, Follows
      <4> QED
        BY <1>1, <4>1, FallEffect
    <3>4. got = mcu.regs[call.reg]
      <4>1. got \in Byte /\ mcu.regs[call.reg] \in Byte
        BY <1>1, <2>1, CallFields DEF IInv, Places, SlaveState
      <4>2. \A i \in 1..Bits : got[i] = mcu.regs[call.reg][i]
        BY <2>1, <3>2 DEF IInv, Answers
      <4> QED
        BY <4>1, <4>2, BytesEqual
    <3>5. call.op # "write" /\ Ours
      BY <2>1 DEF IInv, Places, Follows
    <3> QED
      BY <1>2, <1>7, <3>1, <3>3, <3>4, <3>5 DEF Answers, ByteStage, Ours
  <2>2. CASE stage # "data"
    <3>1. stage \in ByteStage /\ bit = Bits + 1
      BY <1>7, <2>2 DEF Course, ByteStage
    <3>2. bit > Bits /\ ~(bit <= Bits)
      BY <3>1, BitsAssumption
    <3>3. ack = mcu.low /\ mcu.low \in BOOLEAN
      BY <1>1, <3>1, <3>2 DEF IInv, Answers, SlaveState
    <3>4. CASE ack
      <4>1. stage = "value" /\ result' = "ok"
        BY <1>7, <3>1, <3>2, <3>4 DEF Course, ByteStage
      <4>2. /\ Ours /\ mcu.phase = "ack_data" /\ mcu.regs[call.reg] = call.value
            /\ call.op = "write"
        BY <3>2, <4>1 DEF IInv, Follows, Places, Acks
      <4>3. mcu'.regs = mcu.regs
        BY <1>1, <4>2, FallEffect
      <4> QED
        BY <1>2, <1>7, <4>1, <4>2, <4>3 DEF Answers, ByteStage, Ours
    <3>5. CASE ~ack
      <4>1. result' = "nack"
        BY <1>7, <3>1, <3>2, <3>5 DEF Course, ByteStage
      <4>2. ~Ours
        BY <3>1, <3>2, <3>3, <3>5 DEF IInv, Follows, Acks, ByteStage
      <4> QED
        BY <1>2, <1>7, <4>1, <4>2 DEF Answers, ByteStage, Ours
    <3> QED
      BY <3>4, <3>5
  <2> QED
    BY <2>1, <2>2
<1> QED
  BY <1>4, <1>5, <1>6, <1>7

\* _scl_low(), and the next part of the transaction.
LEMMA LowerSclStep ==
  ASSUME IInv, LowerScl
  PROVE  IInv'
<1>1. /\ at = "down" /\ stage \in ByteStage \cup {"start", "restart", "data"}
      /\ SetScl(FALSE) /\ call' = call /\ Course /\ ack' = FALSE
      /\ got' = (IF stage # "data" /\ stage' = "data" THEN Zero ELSE got)
      /\ UNCHANGED <<tries, stretch, pullups>>
  BY AfterFallCourse DEF LowerScl
<1>2. /\ bit \in 1..Bits + 1 /\ result = "none" /\ got \in Byte \cup {NoByte}
      /\ stage = "data" => got \in Byte
  BY <1>1 DEF IInv, TypeOK, Places, ByteStage
<1>3. /\ stage' \in ByteStage \cup {"restart", "data", "stop"} /\ bit' \in 1..Bits + 1
      /\ at' \in {"sda", "up"} /\ result' \in {"none", "ok", "nack"}
      /\ at' = "up" => stage' = "data"
  BY <1>1, <1>2, BitsAssumption DEF Course, ByteStage
<1>4. BusOK' /\ (call.dry => bus' = bus)
  <2>1. CASE call.dry
    <3>1. UNCHANGED <<en, mcu, stretch, pullups>>
      BY <1>1, <2>1 DEF SetScl, bus
    <3> QED
      BY <2>1, <3>1, InvGivesBusOK DEF BusOK, Sane, Scl, SclLevel, bus
  <2>2. CASE ~call.dry
    BY <1>1, <2>2, InvGivesBusOK, LowerEffect
  <2> QED
    BY <2>1, <2>2
<1>5. TypeOK'
  BY <1>1, <1>2, <1>3, <1>4, ZeroIsByte
     DEF IInv, TypeOK, BusOK, Stage, At, Result, ByteStage
<1>6. Places'
  BY <1>1, <1>2, <1>3, BitsAssumption, ZeroIsByte, NoByteAssumption
     DEF IInv, Places, Course, ByteStage
<1>7. CASE call.dry
  <2>1. en' = {}
    BY <1>1, <1>4, <1>7 DEF IInv, Lines, bus, ByteStage
  <2> QED
    BY <1>1, <1>3, <1>4, <1>5, <1>6, <1>7, <2>1
       DEF IInv, Lines, Follows, Answers, Sound, BusOK, ByteStage
<1>8. CASE ~call.dry
  <2>1. Sound /\ Scl
    BY <1>1, <1>2, <1>8 DEF IInv, Lines, Sound, ByteStage
  <2>2. ~Scl' /\ en' = en \cup {CLK_BIT} /\ mcu' = OnFall(mcu)
    BY <1>1, <1>8, <2>1, InvGivesBusOK, LowerEffect
  <2>3. Follows' /\ Answers'
    BY <1>1, <2>1, <2>2, FallFollows, FallAnswers
  <2>4. Lines'
    <3>1. stage = "data" /\ stage' = "data" => DATA_BIT \notin en
      BY <1>1, <2>1 DEF IInv, Lines, Level, Transaction, ByteStage
    <3>2. stage' = "data" /\ at' = "up" => stage = "data"
      BY <1>1 DEF Course
    <3> QED
      BY <1>1, <1>3, <1>8, <2>2, <3>1, <3>2
         DEF Lines, Transaction, ByteStage, Level, CLK_BIT, DATA_BIT
  <2> QED
    BY <1>4, <1>5, <1>6, <2>3, <2>4 DEF IInv, BusOK
<1> QED
  BY <1>7, <1>8

-----------------------------------------------------------------------------
(* The theorems                                                            *)

\* Every step of the system preserves the invariant.
LEMMA NextStep ==
  ASSUME IInv, [Next]_vars
  PROVE  IInv'
<1>1. CASE \E c \in Call : Begin(c)
  BY <1>1, BeginStep
<1>2. CASE Step
  BY <1>2, BusIdleStep, PlaceSdaStep, RaiseSclStep, PollSclStep, SampleSdaStep, EdgeStep,
     LowerSclStep DEF Step
<1>3. CASE RegFault \/ HoldClock \/ ReleaseClock \/ EndSession
  BY <1>3, RegFaultStep, HoldClockStep, ReleaseClockStep, EndSessionStep
<1>4. CASE UNCHANGED vars
  <2>1. /\ UNCHANGED <<call, stage, bit, at, tries, ack, got, result, en, mcu, stretch, pullups>>
        /\ Scl' = Scl /\ Sda' = Sda /\ Level' = Level /\ Sent' = Sent
    BY <1>4 DEF vars, place, bus, Scl, SclLevel, Sda, SdaLevel, Level, Sent
  <2>2. TypeOK' /\ Places' /\ Sane' /\ Lines'
    BY <2>1 DEF IInv, TypeOK, Places, Sane, Lines, Sound
  <2>3. Follows' /\ Answers'
    BY <2>1 DEF IInv, Follows, Answers, Sound, Receives, Acks, Ours, Clocked
  <2> QED
    BY <2>2, <2>3 DEF IInv
<1> QED
  BY <1>1, <1>2, <1>3, <1>4 DEF Next

\* The inductive invariant holds in every state of every behaviour.
THEOREM InvHolds == Spec => []IInv
<1>1. Init => IInv
  BY InitInv
<1>2. IInv /\ [Next]_vars => IInv'
  BY NextStep
<1> QED
  BY <1>1, <1>2, PTL DEF Spec

\* Type correctness: neither the master's nor the slave's counters run over,
\* and the slave never indexes a register or a bit it does not have.
THEOREM TypeCorrect == Spec => []TypeOK
<1>1. IInv => TypeOK
  BY DEF IInv
<1> QED
  BY <1>1, InvHolds, PTL

\* SDA does not move under a high clock but where a START or a STOP is meant.
LEMMA FramedStep ==
  ASSUME IInv, Next
  PROVE  Scl /\ Scl' /\ Sda' # Sda => at = "edge" \/ result = "error" \/ stage' = "idle"
<1> SUFFICES ASSUME Scl, Scl', Sda' # Sda, at # "edge", result # "error", stage' # "idle"
             PROVE  FALSE
  OBVIOUS
<1>1. CASE UNCHANGED bus /\ UNCHANGED pullups
  BY <1>1 DEF Sda, SdaLevel, bus
<1>2. CASE (\E c \in Call : Begin(c)) \/ BusIdle \/ PollScl \/ SampleSda \/ RegFault
  BY <1>1, <1>2, BusIdleQuiet DEF Begin, BusIdle, PollScl, SampleSda, RegFault
<1>3. CASE PlaceSda
  <2>1. /\ stage \notin {"idle", "bus_idle"} /\ at = "sda" /\ SetSda(Level)
        /\ UNCHANGED <<stretch, pullups>>
    BY <1>3 DEF PlaceSda
  <2>2. CASE call.dry
    BY <1>1, <2>1, <2>2 DEF SetSda
  <2>3. CASE ~call.dry
    <3>1. stage = "start"
      BY <2>1, <2>3 DEF IInv, TypeOK, Lines, Sound, Stage, Transaction, Scl, SclLevel
    <3>2. Level /\ en = {}
      BY <2>1, <2>3, <3>1 DEF IInv, Lines, Sound, Level, ByteStage
    <3>3. en' = en
      BY <2>1, <2>3, <3>2 DEF SetSda, LineSet
    <3>4. mcu' = mcu
      BY <2>1, <2>3, <3>3 DEF SetSda, DataEdge, Sda
    <3> QED
      BY <1>1, <2>1, <3>3, <3>4 DEF bus
  <2> QED
    BY <2>2, <2>3
<1>4. CASE RaiseScl
  <2>1. SetScl(TRUE) /\ UNCHANGED <<stretch, pullups>>
    BY <1>4 DEF RaiseScl
  <2>2. mcu' = mcu /\ (DATA_BIT \in en' <=> DATA_BIT \in en)
    BY <2>1, RaiseEffect, InvGivesBusOK DEF SetScl, bus, CLK_BIT, DATA_BIT
  <2> QED
    BY <2>1, <2>2 DEF Sda, SdaLevel
<1>5. CASE Edge
  BY <1>5 DEF Edge
<1>6. CASE LowerScl
  <2>1. SetScl(FALSE) /\ UNCHANGED <<stretch, pullups>>
    BY <1>6 DEF LowerScl
  <2>2. CASE call.dry
    BY <1>1, <2>1, <2>2 DEF SetScl
  <2>3. CASE ~call.dry
    BY <2>1, <2>3, LowerEffect, InvGivesBusOK
  <2> QED
    BY <2>2, <2>3
<1>7. CASE HoldClock
  BY <1>7 DEF HoldClock, Scl, SclLevel
<1>8. CASE ReleaseClock
  BY <1>8 DEF ReleaseClock, Scl, SclLevel
<1>9. CASE EndSession
  BY <1>9 DEF EndSession, Goto
<1> QED
  BY <1>2, <1>3, <1>4, <1>5, <1>6, <1>7, <1>8, <1>9 DEF Next, Step

\* No data bit is ever taken for a START or a STOP, however long the slave
\* stretches the clock and whatever else fails.
THEOREM Framed == Spec => FramedByEdges
<1>1. IInv /\ [Next]_vars
        => [Scl /\ Scl' /\ Sda' # Sda
              => at = "edge" \/ result = "error" \/ stage' = "idle"]_vars
  BY FramedStep
<1> QED
  BY <1>1, InvHolds, PTL DEF Spec, FramedByEdges

\* Only the rising SDA of its stop() ends a call with its outcome.
LEMMA FreedStep ==
  ASSUME IInv, Next
  PROVE  stage = "stop" /\ result' \in {"ok", "nack"} /\ stage' = "idle" /\ ~call.dry
           => Scl' /\ Sda' /\ mcu'.phase = "idle"
<1> SUFFICES ASSUME stage = "stop", result' \in {"ok", "nack"}, stage' = "idle", ~call.dry
             PROVE  Scl' /\ Sda' /\ mcu'.phase = "idle"
  OBVIOUS
<1>1. Edge
  <2>1. ~Raise
    BY RaiseIsError
  <2> QED
    BY <2>1 DEF Next, Step, Begin, BusIdle, PlaceSda, RaiseScl, PollScl, SampleSda, LowerScl,
       RegFault, HoldClock, ReleaseClock, EndSession, Then, Goto, place, ByteStage, IInv,
       Places, AfterRise
<1>2. /\ at = "edge" /\ result' = result /\ SetSda(TRUE) /\ UNCHANGED <<stretch, pullups>>
  BY <1>1 DEF Edge, Return
<1>3. Sound
  BY <1>2 DEF Sound
<1>4. Scl /\ pullups /\ CLK_BIT \notin en /\ DATA_BIT \in en /\ ~mcu.low /\ en \subseteq Line
  BY <1>2, <1>3 DEF IInv, TypeOK, Lines, Follows, Transaction, ByteStage, Level, Scl, SclLevel
<1>5. en' = {}
  BY <1>2, <1>4 DEF SetSda, LineSet, Line
<1>6. mcu' = OnStop(mcu)
  <2>1. ~Sda /\ SdaLevel(en', mcu)
    BY <1>4, <1>5 DEF Sda, SdaLevel
  <2> QED
    BY <1>2, <1>4, <2>1 DEF SetSda, DataEdge
<1>7. mcu'.phase = "idle" /\ mcu'.low = mcu.low
  BY <1>6, StopEffect DEF IInv, TypeOK
<1> QED
  BY <1>2, <1>4, <1>5, <1>7 DEF Scl, SclLevel, Sda, SdaLevel

\* A transaction that returns its outcome has let go of the bus, and so has the
\* slave.
THEOREM Freed == Spec => BusFreed
<1>1. IInv /\ [Next]_vars
        => [stage = "stop" /\ result' \in {"ok", "nack"} /\ stage' = "idle" /\ ~call.dry
              => Scl' /\ Sda' /\ mcu'.phase = "idle"]_vars
  BY FreedStep
<1> QED
  BY <1>1, InvHolds, PTL DEF Spec, BusFreed

-----------------------------------------------------------------------------
(* The wire implements the device                                          *)

\* The registers of the device as its callers see them.
LEMMA InitDevice ==
  ASSUME Init
  PROVE  Device!Init
<1>1. PICK address \in Address : mcu = Fresh(address)
  BY DEF Init
<1>2. mcu.regs = [r \in Byte |-> Zero]
  BY <1>1 DEF Fresh
<1> QED
  BY <1>2, ZeroIsByte DEF Init, Device!Init

\* Nothing but the falling edge of the last bit of a value changes a register.
LEMMA OnlyValueStores ==
  ASSUME IInv, Next
  PROVE  /\ mcu'.addr = mcu.addr
         /\ \/ mcu'.regs = mcu.regs
            \/ /\ LowerScl /\ call # NoCall /\ call.op = "write" /\ ~call.dry /\ Ours
               /\ call' = call /\ mcu'.regs = [mcu.regs EXCEPT ![call.reg] = call.value]
<1>1. CASE UNCHANGED mcu
  BY <1>1
<1>2. CASE (\E c \in Call : Begin(c)) \/ BusIdle \/ PollScl \/ SampleSda \/ RegFault \/ HoldClock
  BY <1>1, <1>2, BusIdleQuiet DEF Begin, PollScl, SampleSda, RegFault, HoldClock, bus
<1>3. CASE PlaceSda
  <2>1. SetSda(Level) /\ UNCHANGED <<stretch, pullups>>
    BY <1>3 DEF PlaceSda
  <2> QED
    BY <2>1, StartEffect, StopEffect DEF SetSda, DataEdge, bus, IInv, TypeOK, Keeps
<1>4. CASE RaiseScl
  BY <1>4, RaiseEffect, InvGivesBusOK DEF RaiseScl, BusKept
<1>5. CASE Edge
  BY <1>5, StartEffect, StopEffect DEF Edge, SetSda, DataEdge, bus, IInv, TypeOK, Keeps
<1>6. CASE ReleaseClock
  BY <1>6, ReleaseClockEffect, InvGivesBusOK DEF BusKept
<1>7. CASE EndSession
  BY <1>7, EndSessionEffect, InvGivesBusOK DEF BusKept
<1>8. CASE LowerScl
  <2>1. /\ at = "down" /\ SetScl(FALSE) /\ call' = call /\ Course
        /\ UNCHANGED <<stretch, pullups>>
    BY <1>8, AfterFallCourse DEF LowerScl
  <2>2. CASE call.dry
    BY <1>1, <2>1, <2>2 DEF SetScl, bus
  <2>3. CASE ~call.dry
    <3>1. Sound /\ Scl
      BY <2>1, <2>3 DEF IInv, Lines, Places, Sound, Course, ByteStage
    <3>2. mcu' = OnFall(mcu) /\ mcu'.addr = mcu.addr
      BY <2>1, <2>3, <3>1, InvGivesBusOK, LowerEffect
    <3>3. mcu'.regs = IF mcu.phase = "data_w" /\ mcu.nbits = Bits
                        THEN [mcu.regs EXCEPT ![mcu.cur] = mcu.shift] ELSE mcu.regs
      BY <3>2, FallEffect DEF IInv, TypeOK, Sane
    <3>4. CASE mcu.phase = "data_w" /\ mcu.nbits = Bits
      <4>1. stage = "value" /\ bit <= Bits
        <5>1. bit <= Bits \/ bit > Bits
          BY BitsAssumption DEF IInv, TypeOK
        <5>2. stage \in {"addr_w", "reg", "value", "addr_r", "start", "restart", "data"}
          BY <2>1 DEF Course, ByteStage
        <5> QED
          BY <2>1, <3>1, <3>4, <5>1, <5>2 DEF IInv, Follows, Receives, Acks
      <4>2. bit = Bits
        BY <3>1, <3>4, <4>1 DEF IInv, Follows, Receives, Clocked
      <4>3. mcu.shift = Sent /\ Ours /\ mcu.cur = call.reg
        BY <3>1, <4>1, <4>2, ReceivedIsSent DEF IInv, Follows, ByteStage
      <4>4. Sent = call.value /\ call.op = "write" /\ call # NoCall
        BY <4>1 DEF Sent, IInv, Places, TypeOK
      <4> QED
        BY <1>8, <2>1, <2>3, <3>2, <3>3, <3>4, <4>3, <4>4
    <3>5. CASE ~(mcu.phase = "data_w" /\ mcu.nbits = Bits)
      BY <3>2, <3>3, <3>5
    <3> QED
      BY <3>4, <3>5
  <2> QED
    BY <2>2, <2>3
<1> QED
  BY <1>2, <1>3, <1>4, <1>5, <1>6, <1>7, <1>8 DEF Next, Step

\* A step of the master keeps its call, or returns from it: probe's lines_low,
\* an exception, or the outcome the transaction's stop() was entered with.
LEMMA CallGoesOnOrReturns ==
  ASSUME IInv, Step \/ RegFault
  PROVE  /\ call # NoCall
         /\ \/ call' = call
            \/ /\ call' = NoCall
               /\ \/ result' = "lines_low" /\ call.op = "probe"
                  \/ result' = "error"
                  \/ result' = result /\ stage = "stop" /\ got' = got
<1>1. CASE BusIdle
  BY <1>1 DEF BusIdle, Then, Enter, Return, IInv, Places, TypeOK
<1>2. CASE PlaceSda \/ RaiseScl
  BY <1>2 DEF PlaceSda, RaiseScl, Then, IInv, Places, TypeOK
<1>3. CASE PollScl
  BY <1>3, RaiseIsError DEF PollScl, Then, IInv, Places, TypeOK
<1>4. CASE SampleSda
  BY <1>4, RaiseIsError DEF SampleSda, Then, IInv, Places, TypeOK
<1>5. CASE Edge
  BY <1>5 DEF Edge, Then, Return, IInv, Places, TypeOK
<1>6. CASE LowerScl
  BY <1>6, AfterFallCourse DEF LowerScl, IInv, Places, TypeOK
<1>7. CASE RegFault
  BY <1>7, RaiseIsError DEF RegFault, IInv, TypeOK
<1> QED
  BY <1>1, <1>2, <1>3, <1>4, <1>5, <1>6, <1>7 DEF Step

\* Every step of the wire is a step of the device or changes nothing of it.
LEMMA DeviceStep ==
  ASSUME IInv, [Next]_vars
  PROVE  [Device!Next]_(Device!device)
<1> DEFINE r == IF call = NoCall THEN result ELSE "none"
           g == IF call = NoCall /\ result = "ok" THEN got ELSE NoByte
           present == mcu.addr = Addr
           Idle == UNCHANGED <<mcu.regs, present, call, r, g>>
<1>1. Idle => [Device!Next]_(Device!device)
  BY DEF Device!device
<1>2. ASSUME Next PROVE present' = present
  BY <1>2, OnlyValueStores
<1>3. CASE \E c \in Call : Begin(c)
  <2>1. PICK c \in Call : Begin(c)
    BY <1>3
  <2>2. c \in CallSet /\ c # NoCall
    BY CallAssumption
  <2>3. call = NoCall /\ call' = c /\ result' = "none" /\ mcu' = mcu
        /\ (result = "none" \/ (result = "ok" /\ c.op # "probe"))
    BY <2>1 DEF Begin, bus, IInv, TypeOK
  <2>4. Device!Begin
    BY <2>2, <2>3 DEF Device!Begin, Device!DeviceCall, CallSet
  <2> QED
    BY <2>4 DEF Device!Next
<1>4. CASE EndSession
  <2>1. mcu'.regs = mcu.regs /\ present' = present
    BY <1>2, <1>4, EndSessionEffect, InvGivesBusOK DEF BusKept, Next
  <2>2. Device!EndSession
    BY <1>4, <2>1 DEF EndSession, Device!EndSession
  <2> QED
    BY <2>2 DEF Device!Next
<1>5. CASE HoldClock \/ ReleaseClock
  <2>1. UNCHANGED <<call, result, got>>
    BY <1>5 DEF HoldClock, ReleaseClock
  <2>2. mcu'.regs = mcu.regs
    BY <1>5, ReleaseClockEffect, InvGivesBusOK DEF HoldClock, bus, BusKept
  <2> QED
    BY <1>1, <1>2, <1>5, <2>1, <2>2 DEF Next
<1>6. CASE (Step \/ RegFault) /\ call' = call
  <2>1. call # NoCall /\ Next
    BY <1>6, CallGoesOnOrReturns DEF Next
  <2>2. CASE mcu'.regs = mcu.regs
    BY <1>1, <1>2, <1>6, <2>1, <2>2
  <2>3. CASE /\ call.op = "write" /\ ~call.dry /\ Ours
             /\ mcu'.regs = [mcu.regs EXCEPT ![call.reg] = call.value]
    <3>1. Device!Store
      BY <1>2, <1>6, <2>1, <2>3 DEF Device!Store, Ours
    <3> QED
      BY <3>1 DEF Device!Next
  <2> QED
    BY <2>1, <2>2, <2>3, OnlyValueStores
<1>7. CASE (Step \/ RegFault) /\ call' # call
  <2>1. /\ call # NoCall /\ call' = NoCall /\ Next
        /\ \/ result' = "lines_low" /\ call.op = "probe"
           \/ result' = "error"
           \/ result' = result /\ stage = "stop" /\ got' = got
    BY <1>7, CallGoesOnOrReturns DEF Next
  <2>2. mcu'.regs = mcu.regs /\ present' = present
    BY <1>2, <1>7, <2>1, OnlyValueStores
  <2>3. CASE result' \in {"lines_low", "error"}
    <3>1. g' = NoByte
      BY <2>3
    <3>2. Device!Return(result')
      BY <2>1, <2>2, <2>3 DEF Device!Return, IInv, Places
    <3> QED
      BY <2>3, <3>2 DEF Device!Next, Device!Outcome
  <2>4. CASE result' = result /\ stage = "stop" /\ got' = got
    <3>1. result \in {"ok", "nack", "error"}
      BY <2>4 DEF IInv, Places
    <3>2. got \in Byte \cup {NoByte}
          /\ (result = "ok" => (got = NoByte <=> call.op = "write"))
      BY <2>4 DEF IInv, Places, TypeOK
    <3>3. ~call.dry /\ result = "ok" =>
            Ours /\ mcu.regs[call.reg] = IF call.op = "write" THEN call.value ELSE got
      BY <2>4 DEF IInv, Answers, Sound
    <3>4. ~call.dry /\ result = "nack" => ~Ours
      BY <2>4 DEF IInv, Answers, Sound
    <3>5. Device!Return(result')
      BY <2>1, <2>2, <2>4, <3>1, <3>2, <3>3, <3>4 DEF Device!Return, Ours
    <3> QED
      BY <2>4, <3>1, <3>5 DEF Device!Next, Device!Outcome
  <2> QED
    BY <2>1, <2>3, <2>4
<1>8. CASE UNCHANGED vars
  BY <1>1, <1>8 DEF vars, bus
<1> HIDE DEF Idle
<1> QED
  BY <1>3, <1>4, <1>5, <1>6, <1>7, <1>8 DEF Next

\* What SMBus and run_probe do on two wires, edge by edge, is what the register
\* device does call by call: a write that returns has stored its value, a read
\* returns what the register holds, and a nack means that nobody is there.
THEOREM WireImplementsDevice == Spec => RefinesDevice
<1>1. Init => Device!Init
  BY InitDevice
<1>2. IInv /\ [Next]_vars => [Device!Next]_(Device!device)
  BY DeviceStep
<1> QED
  BY <1>1, <1>2, InvHolds, PTL DEF Spec, RefinesDevice, Device!Spec

=============================================================================
