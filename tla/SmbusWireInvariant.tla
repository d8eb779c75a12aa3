------------------------ MODULE SmbusWireInvariant ------------------------
(***************************************************************************)
(* The inductive invariant of SmbusWire.  It has five layers: where the    *)
(* call is (Places), the slave's own consistency (Sane), which lines the   *)
(* master pulls low there (Lines), what the slave has made of the bits it  *)
(* was sent (Follows), and what the outcome says of it (Answers).  The     *)
(* last three say nothing of a transaction an exception has upset: its     *)
(* stop() runs on a bus in any state.                                      *)
(***************************************************************************)
EXTENDS SmbusWire

Ours == mcu.addr = Addr

\* A call that reaches the lines, and no exception so far.
Sound == stage # "idle" /\ ~call.dry /\ result # "error"

\* The stages between the START and the outcome, with the clock low at first.
Transaction == ByteStage \cup {"restart", "data", "stop"}

\* The steps at a stage, and the outcome and bits that are known there.
Places ==
  /\ stage \notin ByteStage \cup {"data"} => bit = 1
  /\ stage = "idle"     => at = "sda"
  /\ stage = "bus_idle" => at \in {"up", "sda", "poll", "sample"} /\ call.op = "probe"
  /\ stage \in ByteStage =>
       at \in {"sda", "up", "poll", "down"} \/ (at = "sample" /\ bit = Bits + 1)
  /\ stage = "restart"  => at \in {"sda", "up", "poll", "edge", "down"}
  /\ stage = "data"     => CASE bit = Bits + 1 -> at \in {"sda", "up", "poll", "down"}
                             [] bit = 1        -> at \in {"sda", "up", "poll", "sample", "down"}
                             [] OTHER          -> at \in {"up", "poll", "sample", "down"}
  /\ stage = "stop"     => at \in {"sda", "up", "poll", "edge"}
  /\ stage = "value"    => call.op = "write"
  /\ stage \in {"restart", "addr_r", "data"} => call.op # "write"
  /\ stage \notin {"idle", "stop"} => result = "none"
  /\ stage = "stop" => result \in {"ok", "nack", "error"}
  /\ ack => stage \in ByteStage /\ bit = Bits + 1 /\ at = "down"
  /\ stage \notin {"idle", "data", "stop"} => got = NoByte
  /\ stage = "data" => got \in Byte
  /\ stage = "stop" /\ result = "ok" => (got = NoByte <=> call.op = "write")

\* The slave has a register and a byte where it uses them, and a whole byte is
\* taken by the falling edge that follows its last bit.
Sane ==
  /\ mcu.phase \in {"ack_reg", "data_w", "ack_data"} => mcu.cur \in Byte
  /\ mcu.phase = "data_r" => mcu.out \in Byte
  /\ mcu.phase \in {"addr", "reg", "data_w"} /\ mcu.nbits = Bits => Scl

\* The levels the master has set.  Nothing else of the master's is on the bus
\* before the START, in a dry run, and after a call that did not fail.
Lines ==
  /\ stage = "idle" /\ result # "error" => en = {}
  /\ stage # "idle" /\ call.dry => en = {}
  /\ Sound =>
       /\ stage = "bus_idle" => en = {}
       /\ stage = "start" => en = IF at = "down" THEN {DATA_BIT} ELSE {}
       /\ stage = "start" /\ at = "edge" => Sda
       /\ at \in {"sample", "edge", "down"} => Scl
       /\ stage \in Transaction => (CLK_BIT \in en <=> at \in {"sda", "up"})
       /\ stage \in Transaction /\ at # "sda" =>
            (DATA_BIT \notin en <=> Level /\ ~(stage = "restart" /\ at = "down"))

\* The bits of the byte that the clock has shown to the slave.
Clocked == IF Scl THEN bit ELSE bit - 1

\* The slave is in the middle of the byte that the master sends.
Receives(phase) ==
  /\ mcu.phase = phase
  /\ ~mcu.low
  /\ mcu.nbits = Clocked
  /\ \A i \in 1..Clocked : mcu.shift[i] = Sent[i]

\* It has taken the byte and holds SDA down for the ACK.
Acks(phase) == mcu.phase = phase /\ mcu.low

Follows ==
  Sound =>
    /\ stage = "start" /\ at = "down" => mcu.phase = "addr" /\ mcu.nbits = 0 /\ ~mcu.low
    /\ stage = "addr_w" /\ bit <= Bits => Receives("addr")
    /\ stage = "addr_w" /\ bit > Bits =>
         IF Ours THEN Acks("ack_addr") /\ ~mcu.reading ELSE mcu.phase = "idle" /\ ~mcu.low
    /\ stage \in {"reg", "value", "restart", "addr_r", "data"} => Ours
    /\ stage = "reg" /\ bit <= Bits => Receives("reg")
    /\ stage = "reg" /\ bit > Bits => Acks("ack_reg")
    /\ stage \in {"value", "restart", "addr_r"} \/ (stage = "reg" /\ bit > Bits)
         => mcu.cur = call.reg
    /\ stage = "value" /\ bit <= Bits => Receives("data_w")
    /\ stage = "value" /\ bit > Bits => Acks("ack_data") /\ mcu.regs[call.reg] = call.value
    /\ stage = "restart" /\ at # "down" =>
         mcu.phase = "data_w" /\ mcu.nbits = Clocked /\ ~mcu.low
    /\ stage = "restart" /\ at = "down" => mcu.phase = "addr" /\ mcu.nbits = 0 /\ ~mcu.low
    /\ stage = "addr_r" /\ bit <= Bits => Receives("addr")
    /\ stage = "addr_r" /\ bit > Bits => Acks("ack_addr") /\ mcu.reading
    /\ stage = "data" /\ bit <= Bits =>
         /\ mcu.phase = "data_r" /\ mcu.idx = bit
         /\ mcu.out = mcu.regs[call.reg] /\ mcu.low = ~mcu.out[bit]
    /\ stage = "data" /\ bit > Bits => mcu.phase = "ack_master" /\ ~mcu.low
    /\ stage = "stop" => ~mcu.low

Answers ==
  Sound =>
    /\ stage \in ByteStage /\ bit > Bits /\ at = "down" => ack = mcu.low
    /\ stage = "data" =>
         \A i \in 1..Bits : i < bit \/ (i = bit /\ at = "down")
           => got[i] = mcu.regs[call.reg][i]
    /\ stage = "stop" /\ result = "ok" =>
         Ours /\ mcu.regs[call.reg] = IF call.op = "write" THEN call.value ELSE got
    /\ stage = "stop" /\ result = "nack" => ~Ours

\* Everything the steps preserve together.
IInv == TypeOK /\ Places /\ Sane /\ Lines /\ Follows /\ Answers

============================================================================
