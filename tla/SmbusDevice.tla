---------------------------- MODULE SmbusDevice ----------------------------
(***************************************************************************)
(* What SMBus.write_byte_data, SMBus.read_byte_data and probe.run_probe    *)
(* promise their callers about a device with registers: a call is one      *)
(* operation on one register, it happens at most between the call and its  *)
(* return, and the outcome tells what happened,                            *)
(*   "ok"         the device answered: it holds the value written, or the  *)
(*                value returned is the one it holds                       *)
(*   "nack"       no device answers to the address                         *)
(*   "lines_low"  (probe) the lines do not float high                      *)
(*   "error"      an exception: a write may or may not have happened.      *)
(* A dry run writes nothing and its outcomes mean nothing.                 *)
(***************************************************************************)
CONSTANTS
  Register,  \* register numbers
  Value,     \* their contents
  NoCall,    \* no call is in progress
  NoValue    \* nothing was read

VARIABLES
  regs,     \* the registers of the device
  present,  \* it answers to the address
  call,     \* the call in progress
  result,   \* what the last call of the session returned
  got       \* the value it read

device == <<regs, present, call, result, got>>

DeviceCall == [op : {"write"}, reg : Register, value : Value, dry : BOOLEAN]
              \cup [op : {"read", "probe"}, reg : Register, dry : BOOLEAN]

Outcome == {"ok", "nack", "lines_low", "error"}

Init ==
  /\ regs \in [Register -> Value]
  /\ present \in BOOLEAN
  /\ call = NoCall
  /\ result = "none"
  /\ got = NoValue

\* Within a session a call follows one that succeeded; a probe comes first.
Begin ==
  /\ call = NoCall
  /\ call' \in DeviceCall
  /\ result = "none" \/ (result = "ok" /\ call'.op # "probe")
  /\ result' = "none"
  /\ got' = NoValue
  /\ UNCHANGED <<regs, present>>

Store ==
  /\ call # NoCall
  /\ call.op = "write" /\ ~call.dry /\ present
  /\ regs' = [regs EXCEPT ![call.reg] = call.value]
  /\ UNCHANGED <<present, call, result, got>>

Return(r) ==
  /\ call # NoCall
  /\ got' \in IF r = "ok" /\ call.op # "write" THEN Value ELSE {NoValue}
  /\ r = "ok" /\ ~call.dry =>
       present /\ regs[call.reg] = IF call.op = "write" THEN call.value ELSE got'
  /\ r = "nack" /\ ~call.dry => ~present
  /\ r = "lines_low" => call.op = "probe"
  /\ result' = r
  /\ call' = NoCall
  /\ UNCHANGED <<regs, present>>

\* The session ends, normally or in the middle of a call.
EndSession ==
  /\ call' = NoCall
  /\ result' = "none"
  /\ got' = NoValue
  /\ UNCHANGED <<regs, present>>

Next == Begin \/ Store \/ (\E r \in Outcome : Return(r)) \/ EndSession

Spec == Init /\ [][Next]_device

============================================================================
