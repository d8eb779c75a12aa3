-------------------------------- MODULE Mcu --------------------------------
(***************************************************************************)
(* The lighting MCU as an I2C slave: the register device that              *)
(* tests/fakes.py states the protocol of and nitroglow is tested against.  *)
(* The slave is a record that changes only on the four events of the bus:  *)
(* START, STOP and the two edges of the clock.  A byte is the sequence of  *)
(* its bits, the most significant first.                                   *)
(***************************************************************************)
EXTENDS Naturals

CONSTANTS
  Bits,    \* bits of a byte: 8 on the bus
  NoByte   \* no register selected, nothing to send

Byte    == [1..Bits -> BOOLEAN]
Address == [1..Bits - 1 -> BOOLEAN]
Zero    == [i \in 1..Bits |-> FALSE]

ASSUME BitsAssumption   == Bits \in Nat \ {0, 1}
ASSUME NoByteAssumption == NoByte \notin Byte

Phase == {"idle", "addr", "ack_addr", "reg", "ack_reg", "data_w", "ack_data",
          "data_r", "ack_master"}

SlaveState ==
         [addr    : Address,              \* the address it answers to
          regs    : [Byte -> Byte],       \* its registers
          phase   : Phase,
          shift   : Byte,                 \* the bits received, first ones first
          nbits   : 0..Bits,              \* how many
          reading : BOOLEAN,              \* the R/W bit of the last address
          cur     : Byte \cup {NoByte},   \* the register selected
          out     : Byte \cup {NoByte},   \* the byte it sends
          idx     : 0..Bits,              \* how many bits of it are on the bus
          low     : BOOLEAN]              \* it pulls SDA low

Fresh(address) ==
  [addr |-> address, regs |-> [r \in Byte |-> Zero], phase |-> "idle",
   shift |-> Zero, nbits |-> 0, reading |-> FALSE, cur |-> NoByte,
   out |-> NoByte, idx |-> 0, low |-> FALSE]

\* Off the bus until the next START.
Reset(m) == [m EXCEPT !.phase = "idle", !.shift = Zero, !.nbits = 0,
                      !.reading = FALSE, !.cur = NoByte, !.out = NoByte, !.idx = 0]

\* A START, first or repeated: cur survives it.
OnStart(m) == [m EXCEPT !.phase = "addr", !.shift = Zero, !.nbits = 0, !.low = FALSE]

OnStop(m) == Reset(m)

\* The master has clocked a bit in; the ACK phases take none.
OnRise(m, sda) ==
  IF m.phase \in {"addr", "reg", "data_w"}
    THEN [m EXCEPT !.shift[m.nbits + 1] = sda, !.nbits = @ + 1]
    ELSE m

-----------------------------------------------------------------------------
(* The falling edge of the clock decides what the slave drives next.       *)

\* Move on to the given phase; low is what the slave does with SDA.
To(m, phase, low) == [m EXCEPT !.phase = phase, !.low = low]

\* Mutant: the bits of the last byte stay counted.
NextByteCounted(m) == [m EXCEPT !.shift = Zero]

\* The next byte is taken from its first bit.
NextByte(m) == [m EXCEPT !.shift = Zero, !.nbits = 0]

AddressOf(byte) == [i \in 1..Bits - 1 |-> byte[i]]

Selected(m) == IF m.cur = NoByte THEN Zero ELSE m.regs[m.cur]

\* Put the next bit of out on SDA, or release it for the master's ACK or NACK.
DriveReadBit(m) ==
  IF m.idx < Bits THEN [m EXCEPT !.low = ~m.out[m.idx + 1], !.idx = @ + 1]
                  ELSE To(m, "ack_master", FALSE)

\* A whole byte in phase addr, reg or data_w; a strange address is not answered.
TakeByte(m) ==
  CASE m.phase = "addr" ->
         IF AddressOf(m.shift) = m.addr
           THEN [To(m, "ack_addr", TRUE) EXCEPT !.reading = m.shift[Bits]]
           ELSE Reset(m)
    [] m.phase = "reg" ->
         [To(m, "ack_reg", TRUE) EXCEPT !.cur = m.shift]
    [] m.phase = "data_w" ->
         [To(m, "ack_data", TRUE) EXCEPT !.regs[m.cur] = m.shift]

OnFall(m) ==
  CASE m.phase \in {"addr", "reg", "data_w"} ->
         IF m.nbits = Bits THEN TakeByte(m) ELSE [m EXCEPT !.low = FALSE]
    [] m.phase = "ack_addr" ->
         IF m.reading
           THEN DriveReadBit([To(NextByte(m), "data_r", FALSE)
                                EXCEPT !.out = Selected(m), !.idx = 0])
           ELSE To(NextByte(m), "reg", FALSE)
    [] m.phase \in {"ack_reg", "ack_data"} -> To(NextByte(m), "data_w", FALSE)
    [] m.phase = "data_r"                  -> DriveReadBit(m)
    [] m.phase \in {"idle", "ack_master"}  -> [m EXCEPT !.low = FALSE]

=============================================================================
