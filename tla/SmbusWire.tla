----------------------------- MODULE SmbusWire -----------------------------
(***************************************************************************)
(* One SMBus call as bitbang.BitBang and smbus.SMBus clock it out on two   *)
(* open-drain lines, against the slave of Mcu.  Every line update and      *)
(* every read of a line is a step.  Between steps the slave may hold the   *)
(* clock low for as long as it likes, a register access may fail, and the  *)
(* session may end (a signal, or the command is done), which releases both *)
(* lines with one write.                                                   *)
(*                                                                         *)
(* A call is at a stage, at bit number bit of it (Bits + 1 is the ACK),    *)
(* and about to do at:                                                     *)
(*   "sda"    set SDA for the stage or the bit                             *)
(*   "up"     release SCL                                                  *)
(*   "poll"   see whether SCL has risen                                    *)
(*   "sample" read SDA                                                     *)
(*   "edge"   move SDA under the high clock: a START or a STOP             *)
(*   "down"   pull SCL low.                                                *)
(***************************************************************************)
EXTENDS Mcu, PadRegs

CONSTANTS
  Retries,  \* STRETCH_RETRIES: how often a low SCL is polled
  Addr,     \* the address called
  Call,     \* the calls made
  NoCall    \* no call is in progress

CallSet == [op : {"write"}, reg : Byte, value : Byte, dry : BOOLEAN]
           \cup [op : {"read", "probe"}, reg : Byte, dry : BOOLEAN]

ASSUME RetriesAssumption == Retries \in Nat \ {0}
ASSUME AddrAssumption    == Addr \in Address
ASSUME CallAssumption    == Call \subseteq CallSet /\ NoCall \notin CallSet

VARIABLES
  call,     \* the call in progress
  stage,    \* the part of the transaction it is in
  bit,      \* the bit of a byte
  at,       \* the step of the stage
  tries,    \* polls of SCL that read low
  ack,      \* the ACK bit write_byte has sampled
  got,      \* the bits read_byte has sampled, NoByte before it is called
  result,   \* what the call returns, or has returned
  en,       \* the lines the master pulls low: the pad bits of EN
  stretch,  \* the slave holds SCL low
  pullups,  \* something pulls the lines high
  mcu       \* the slave

place == <<stage, bit, at>>
bus   == <<en, mcu>>
vars  == <<call, place, tries, ack, got, result, bus, stretch, pullups>>

ByteStage == {"addr_w", "reg", "value", "addr_r"}
Stage     == ByteStage \cup {"idle", "bus_idle", "start", "restart", "data", "stop"}
At        == {"sda", "up", "poll", "sample", "edge", "down"}
Result    == {"none", "ok", "nack", "lines_low", "error"}

Init ==
  /\ call = NoCall
  /\ stage = "idle" /\ bit = 1 /\ at = "sda"
  /\ tries = 0
  /\ ack = FALSE
  /\ got = NoByte
  /\ result = "none"
  /\ en = {}
  /\ stretch = FALSE
  /\ pullups \in BOOLEAN
  /\ mcu \in {Fresh(address) : address \in Address}

-----------------------------------------------------------------------------
(* The lines: high only if nobody pulls them low.                          *)

SclLevel(e, s) == pullups /\ CLK_BIT \notin e /\ ~s
SdaLevel(e, m) == pullups /\ DATA_BIT \notin e /\ ~m.low
Scl == SclLevel(en, stretch)
Sda == SdaLevel(en, mcu)

ClockEdge(m, was, now, sda) ==
  IF now /\ ~was THEN OnRise(m, sda) ELSE IF was /\ ~now THEN OnFall(m) ELSE m

DataEdge(m, scl, was, now) ==
  IF scl /\ was /\ ~now THEN OnStart(m) ELSE IF scl /\ now /\ ~was THEN OnStop(m) ELSE m

\* A dry run sets no line.
SetScl(high) ==
  IF call.dry THEN UNCHANGED bus
  ELSE /\ en' = LineSet(en, CLK_BIT, high)
       /\ mcu' = ClockEdge(mcu, Scl, SclLevel(en', stretch), Sda)

SetSda(high) ==
  IF call.dry THEN UNCHANGED bus
  ELSE /\ en' = LineSet(en, DATA_BIT, high)
       /\ mcu' = DataEdge(mcu, Scl, Sda, SdaLevel(en', mcu))

\* What a read of a line may return; Y means nothing on pads not claimed.
Reads(level) == IF call.dry THEN BOOLEAN ELSE {level}

-----------------------------------------------------------------------------
(* The course of a call                                                    *)

Goto(s, b, a) == stage' = s /\ bit' = b /\ at' = a

Then(a) == Goto(stage, bit, a) /\ UNCHANGED <<call, result>>

\* The call returns to its caller.
Return(r) == Goto("idle", 1, "sda") /\ call' = NoCall /\ result' = r

\* The try of the transaction is left with r: its finally is stop().
Finally(r) == Goto("stop", 1, "sda") /\ result' = r /\ UNCHANGED call

\* An exception: start() and stop() are outside the try.
Raise == IF stage \in {"bus_idle", "start", "stop"} THEN Return("error") ELSE Finally("error")

Enter(s) == Goto(s, 1, "sda") /\ UNCHANGED <<call, result>>

AddressByte(read) == [i \in 1..Bits |-> IF i = Bits THEN read ELSE Addr[i]]

\* The byte that write_byte clocks out.
Sent == CASE stage = "addr_w" -> AddressByte(FALSE)
          [] stage = "reg"    -> call.reg
          [] stage = "value"  -> call.value
          [] stage = "addr_r" -> AddressByte(TRUE)

\* Mutant: stop() does not pull SDA down first.
LevelNoStop == CASE stage \in ByteStage                     -> bit > Bits \/ Sent[bit]
                 [] stage \in {"start", "restart", "data", "stop"}  -> TRUE

\* The level SDA is set to before the clock is released.  read_byte releases
\* SDA before the first bit and, for the NACK, after the last.
Level == CASE stage \in ByteStage                     -> bit > Bits \/ Sent[bit]
           [] stage \in {"start", "restart", "data"}  -> TRUE
           [] stage = "stop"                          -> FALSE

\* Once SCL is high.
AfterRise == CASE stage = "start"              -> "sample"
               [] stage \in {"restart", "stop"} -> "edge"
               [] stage \in ByteStage          -> IF bit > Bits THEN "sample" ELSE "down"
               [] stage = "data"               -> IF bit > Bits THEN "down" ELSE "sample"

-----------------------------------------------------------------------------
(* Steps of the master                                                     *)

Begin(c) ==
  /\ stage = "idle"
  /\ result = "none" \/ (result = "ok" /\ c.op # "probe")
  /\ call' = c
  /\ IF c.op = "probe" THEN Goto("bus_idle", 1, "up") ELSE Goto("start", 1, "sda")
  /\ result' = "none"
  /\ got' = NoByte
  /\ UNCHANGED <<tries, ack, bus, stretch, pullups>>

\* bus_idle(): both lines are released, then SCL is read, then SDA.
BusIdle ==
  /\ stage = "bus_idle"
  /\ \/ at = "up" /\ SetScl(TRUE) /\ Then("sda")
     \/ at = "sda" /\ SetSda(TRUE) /\ Then("poll")
     \/ /\ at = "poll"
        /\ IF Scl THEN Then("sample") ELSE Return("lines_low")
        /\ UNCHANGED bus
     \/ /\ at = "sample"
        /\ IF Sda THEN Enter("start") ELSE Return("lines_low")
        /\ UNCHANGED bus
  /\ UNCHANGED <<tries, ack, got, stretch, pullups>>

PlaceSda ==
  /\ stage \notin {"idle", "bus_idle"}
  /\ at = "sda"
  /\ SetSda(Level)
  /\ Then("up")
  /\ UNCHANGED <<tries, ack, got, stretch, pullups>>

\* _scl_high(): release SCL ...
RaiseScl ==
  /\ stage # "bus_idle"
  /\ at = "up"
  /\ SetScl(TRUE)
  /\ Then("poll")
  /\ tries' = 0
  /\ UNCHANGED <<ack, got, stretch, pullups>>

\* Mutant: the bound on the polls is forgotten.
PollForever ==
  /\ stage # "bus_idle"
  /\ at = "poll"
  /\ \E level \in Reads(Scl) : IF level THEN Then(AfterRise) ELSE Then("poll")
  /\ tries' = 0
  /\ UNCHANGED <<ack, got, bus, stretch, pullups>>

\* ... and wait for it to rise, STRETCH_RETRIES polls at most.
PollScl ==
  /\ stage # "bus_idle"
  /\ at = "poll"
  /\ \E level \in Reads(Scl) :
       \/ level /\ Then(AfterRise) /\ tries' = 0
       \/ ~level /\ tries + 1 < Retries /\ Then("poll") /\ tries' = tries + 1
       \/ ~level /\ tries + 1 = Retries /\ Raise /\ tries' = 0
  /\ UNCHANGED <<ack, got, bus, stretch, pullups>>

SampleSda ==
  /\ stage # "bus_idle"
  /\ at = "sample"
  /\ \E level \in Reads(Sda) :
       \/ /\ stage = "start"
          /\ IF level THEN Then("edge") ELSE Raise
          /\ UNCHANGED <<ack, got>>
       \/ /\ stage \in ByteStage
          /\ ack' = ~level
          /\ Then("down")
          /\ UNCHANGED got
       \/ /\ stage = "data"
          /\ got' = [got EXCEPT ![bit] = level]
          /\ Then("down")
          /\ UNCHANGED ack
  /\ UNCHANGED <<tries, bus, stretch, pullups>>

\* START and repeated START pull SDA down under the high clock, STOP lets it up.
Edge ==
  /\ at = "edge"
  /\ SetSda(stage = "stop")
  /\ IF stage = "stop" THEN Return(result) ELSE Then("down")
  /\ UNCHANGED <<tries, ack, got, stretch, pullups>>

\* Mutant: a read turns to the second address byte without a repeated START.
AfterAckNoRestart ==
  CASE stage = "addr_w"                    -> Enter("reg")
    [] stage = "reg" /\ call.op = "write"  -> Enter("value")
    [] stage = "reg" /\ call.op # "write"  -> Enter("addr_r")
    [] stage = "value"                     -> Finally("ok")
    [] stage = "addr_r"                    -> Enter("data")

\* What follows an acknowledged byte.
AfterAck ==
  CASE stage = "addr_w"                    -> Enter("reg")
    [] stage = "reg" /\ call.op = "write"  -> Enter("value")
    [] stage = "reg" /\ call.op # "write"  -> Enter("restart")
    [] stage = "value"                     -> Finally("ok")
    [] stage = "addr_r"                    -> Enter("data")

AfterFall ==
  CASE stage = "start"   -> Enter("addr_w")
    [] stage = "restart" -> Enter("addr_r")
    [] stage \in ByteStage /\ bit <= Bits ->
         Goto(stage, bit + 1, "sda") /\ UNCHANGED <<call, result>>
    [] stage \in ByteStage /\ bit > Bits ->
         IF ack THEN AfterAck ELSE Finally("nack")
    [] stage = "data" /\ bit <= Bits ->
         /\ Goto(stage, bit + 1, IF bit < Bits THEN "up" ELSE "sda")
         /\ UNCHANGED <<call, result>>
    [] stage = "data" /\ bit > Bits -> Finally("ok")

\* Mutant: start() leaves the clock high.
LowerSclNotAfterStart ==
  /\ at = "down"
  /\ IF stage = "start" THEN UNCHANGED bus ELSE SetScl(FALSE)
  /\ AfterFall
  /\ ack' = FALSE
  /\ got' = IF stage # "data" /\ stage' = "data" THEN Zero ELSE got
  /\ UNCHANGED <<tries, stretch, pullups>>

\* _scl_low(); after its NACK read_byte releases SDA once more, to no effect.
LowerScl ==
  /\ at = "down"
  /\ SetScl(FALSE)
  /\ AfterFall
  /\ ack' = FALSE
  /\ got' = IF stage # "data" /\ stage' = "data" THEN Zero ELSE got
  /\ UNCHANGED <<tries, stretch, pullups>>

\* A register access raises RegError.
RegFault ==
  /\ stage # "idle"
  /\ Raise
  /\ tries' = 0
  /\ ack' = FALSE
  /\ UNCHANGED <<got, bus, stretch, pullups>>

Step == BusIdle \/ PlaceSda \/ RaiseScl \/ PollScl \/ SampleSda \/ Edge \/ LowerScl

-----------------------------------------------------------------------------
(* The environment                                                         *)

\* Clock stretching begins while SCL is low and ends when the slave likes.
HoldClock ==
  /\ ~stretch
  /\ CLK_BIT \in en
  /\ stretch' = TRUE
  /\ UNCHANGED <<call, place, tries, ack, got, result, bus, pullups>>

ReleaseClock ==
  /\ stretch
  /\ stretch' = FALSE
  /\ mcu' = ClockEdge(mcu, Scl, SclLevel(en, FALSE), Sda)
  /\ UNCHANGED <<call, place, tries, ack, got, result, en, pullups>>

\* release() writes EN once, and either line may rise first.
ReleaseLines ==
  LET scl == SclLevel({}, stretch)
      sda == SdaLevel({}, mcu)
  IN  \/ mcu' = DataEdge(ClockEdge(mcu, Scl, scl, Sda), scl, Sda, sda)
      \/ mcu' = ClockEdge(DataEdge(mcu, Scl, Sda, sda), Scl, scl, sda)

\* The session ends: after a call, or by a signal in the middle of one.
EndSession ==
  /\ en' = {}
  /\ ReleaseLines
  /\ Goto("idle", 1, "sda")
  /\ call' = NoCall
  /\ result' = "none"
  /\ tries' = 0
  /\ ack' = FALSE
  /\ got' = NoByte
  /\ UNCHANGED <<stretch, pullups>>

Next ==
  \/ \E c \in Call : Begin(c)
  \/ Step
  \/ RegFault
  \/ HoldClock \/ ReleaseClock
  \/ EndSession

Spec == Init /\ [][Next]_vars

\* A call in progress goes on; the slave need not let go of anything.
FairSpec == Spec /\ WF_vars(Step)

-----------------------------------------------------------------------------
(* Properties                                                              *)

\* Every variable stays in its type, the slave's counters included.
TypeOK ==
  /\ call \in Call \cup {NoCall}
  /\ stage \in Stage /\ bit \in 1..Bits + 1 /\ at \in At
  /\ tries \in 0..Retries - 1
  /\ ack \in BOOLEAN
  /\ got \in Byte \cup {NoByte}
  /\ result \in Result
  /\ en \subseteq Line
  /\ stretch \in BOOLEAN
  /\ pullups \in BOOLEAN
  /\ mcu \in SlaveState
  /\ stage = "idle" <=> call = NoCall

\* As long as nothing has failed, SDA moves under a high clock only where a
\* START or a STOP is meant: no data bit is ever taken for one.
FramedByEdges ==
  [][Scl /\ Scl' /\ Sda' # Sda
       => at = "edge" \/ result = "error" \/ stage' = "idle"]_vars

\* A transaction that reaches the end of its stop() without an exception
\* leaves the slave off the bus and both lines high.
BusFreed ==
  [][stage = "stop" /\ result' \in {"ok", "nack"} /\ stage' = "idle" /\ ~call.dry
       => Scl' /\ Sda' /\ mcu'.phase = "idle"]_vars

\* bitbang.py: "a wedged bus must raise, never hang".
CallReturns == stage # "idle" ~> stage = "idle"

\* design.md: a dry run prints the intended writes; one that is turned away
\* for want of an ACK stops at the address.
DryRunGoesOn == [][call # NoCall /\ call' = NoCall /\ call.dry => result' # "nack"]_vars

\* The wire implements the device that its callers see.
Device ==
  INSTANCE SmbusDevice WITH
    Register <- Byte, Value <- Byte, NoValue <- NoByte,
    regs    <- mcu.regs,
    present <- mcu.addr = Addr,
    result  <- IF call = NoCall THEN result ELSE "none",
    got     <- IF call = NoCall /\ result = "ok" THEN got ELSE NoByte

RefinesDevice == Device!Spec

============================================================================
