------------------------------ MODULE Commands ------------------------------
(***************************************************************************)
(* The commands of cli.main as glow.Glow and probe.run_probe carry them    *)
(* out: each is a fixed series of calls on the register device of          *)
(* SmbusDevice, stopped by the first one that fails, and ends with an exit *)
(* status.  The lock lets one command run at a time; any number of them    *)
(* run one after the other.  Between two calls, or in the middle of one,   *)
(* a signal may end the command.                                           *)
(***************************************************************************)
EXTENDS SmbusDevice, Naturals, Sequences

CONSTANTS
  Level,    \* values a colour or brightness register takes
  Mode,     \* the values of glow.MODES
  Absent,   \* an option or config entry that is not given
  Bad,      \* one that is given and only refused when its turn comes
  Job,      \* the commands started
  NoJob     \* no command is running

GlowRegister == {"MODE", "RED", "GREEN", "BLUE", "BRIGHTNESS"}
OFF          == "off"

\* "set" takes its mode from argparse's choices, so only "apply" meets a bad one.
JobSet ==
  [name : {"set"}, color : (Level \X Level \X Level) \cup {Absent},
   brightness : Level \cup {Absent, Bad}, mode : Mode \cup {Absent}, dry : BOOLEAN]
  \cup
  [name : {"apply"}, color : (Level \X Level \X Level) \cup {Absent, Bad},
   brightness : Level \cup {Absent, Bad}, mode : Mode \cup {Absent, Bad}, dry : BOOLEAN]
  \cup [name : {"get", "off", "probe", "restore"}, dry : BOOLEAN]

ASSUME DeviceAssumption == Register = GlowRegister /\ Value = Level \cup Mode
ASSUME ValueAssumption  == OFF \in Mode /\ {Absent, Bad, NoValue} \cap Value = {}
ASSUME JobAssumption    == Job \subseteq JobSet /\ NoJob \notin JobSet
ASSUME CallAssumption   == NoCall \notin DeviceCall

VARIABLES
  job,     \* the command that is running
  done,    \* how many of its calls have succeeded
  read,    \* the values they returned
  status,  \* the exit status of the last command, "running" until then
  before   \* history: the registers when the command started

vars == <<device, job, done, read, status, before>>

CommandInit ==
  /\ Init
  /\ regs["MODE"] \in Mode /\ \A reg \in Register \ {"MODE"} : regs[reg] \in Level
  /\ job = NoJob
  /\ done = 0
  /\ read = << >>
  /\ status = "none"
  /\ before = regs

-----------------------------------------------------------------------------
(* What a command does to the device                                       *)

WriteOp(reg, value, dry) == [op |-> "write", reg |-> reg, value |-> value, dry |-> dry]
ReadOp(op, reg, dry)     == [op |-> op, reg |-> reg, dry |-> dry]

\* Glow.set_color
SetColor(color, dry) ==
  IF color = Absent THEN << >>
  ELSE << WriteOp("RED", color[1], dry), WriteOp("GREEN", color[2], dry),
          WriteOp("BLUE", color[3], dry) >>

\* Glow.set_brightness and Glow.set_mode
SetOne(reg, value, dry) ==
  IF value = Absent THEN << >> ELSE << WriteOp(reg, value, dry) >>

\* Mutant: the mode first.
SetAllModeFirst(j) ==
  SetOne("MODE", j.mode, j.dry) \o SetColor(j.color, j.dry)
    \o SetOne("BRIGHTNESS", j.brightness, j.dry)

\* set and apply: colour, brightness, mode.
SetAll(j) ==
  SetColor(j.color, j.dry) \o SetOne("BRIGHTNESS", j.brightness, j.dry)
    \o SetOne("MODE", j.mode, j.dry)

\* Mutant: get_color reads blue first.
GetAllSwapped(j) ==
  << ReadOp("read", "MODE", j.dry), ReadOp("read", "BLUE", j.dry),
     ReadOp("read", "GREEN", j.dry), ReadOp("read", "RED", j.dry),
     ReadOp("read", "BRIGHTNESS", j.dry) >>

GetAll(j) ==
  << ReadOp("read", "MODE", j.dry), ReadOp("read", "RED", j.dry),
     ReadOp("read", "GREEN", j.dry), ReadOp("read", "BLUE", j.dry),
     ReadOp("read", "BRIGHTNESS", j.dry) >>

\* load_config has refused the file, or found nothing in it, before any call.
Unusable(j) ==
  /\ j.name = "apply"
  /\ \/ j.color = Bad
     \/ j.color = Absent /\ j.brightness = Absent /\ j.mode = Absent

\* main() returns before it opens a session.
DryProbe(j) == j.name = "probe" /\ j.dry

Ops(j) ==
  CASE j.name \in {"set", "apply"} -> IF Unusable(j) THEN << >> ELSE SetAll(j)
    [] j.name = "off"              -> SetOne("MODE", OFF, j.dry)
    [] j.name = "get"              -> GetAll(j)
    [] j.name = "probe"            -> IF j.dry THEN << >> ELSE << ReadOp("probe", "MODE", FALSE) >>
    [] j.name = "restore"          -> << >>

\* The registers r after the first n operations; no register is written twice.
AfterOps(r, ops, n) ==
  [reg \in Register |->
     IF \E i \in 1..n : ops[i].reg = reg
       THEN ops[CHOOSE i \in 1..n : ops[i].reg = reg].value
       ELSE r[reg]]

-----------------------------------------------------------------------------
(* The course of a command                                                 *)

EXIT_OK        == "0"
FAILURE        == "1"     \* a bus error, or a traceback
EXIT_ACCESS    == "2"
EXIT_IDENTITY  == "3"
EXIT_LINES_LOW == "4"
EXIT_NACK      == "5"
SIGNALLED      == "128+"  \* 128 + signum
ExitStatus     == {EXIT_OK, FAILURE, EXIT_ACCESS, EXIT_IDENTITY, EXIT_LINES_LOW,
                   EXIT_NACK, SIGNALLED}

Start(j) ==
  /\ job = NoJob
  /\ job' = j
  /\ status' = "running"
  /\ UNCHANGED <<device, done, read, before>>

\* The process is gone.
Over(code) ==
  /\ EndSession
  /\ job' = NoJob
  /\ done' = 0
  /\ read' = << >>
  /\ status' = code
  /\ before' = regs

\* A register error of the session's cleanup takes over the status.
Ends(code) == Over(code) \/ Over(EXIT_ACCESS)

\* The identity, the lock, its directory, the register file or the claim: no
\* call was made.
EntryFails ==
  /\ job # NoJob /\ ~DryProbe(job)
  /\ done = 0 /\ call = NoCall /\ result = "none"
  /\ Ends(EXIT_IDENTITY) \/ Over(FAILURE)

\* Mutant: the operations from the last to the first.
NextOpReversed == Ops(job)[Len(Ops(job)) - done]

HasNext     == done < Len(Ops(job))
NextOp      == Ops(job)[done + 1]
Refused(op) == op.op = "write" /\ op.value = Bad

Issue ==
  /\ job # NoJob
  /\ result \in {"none", "ok"}
  /\ HasNext /\ ~Refused(NextOp)
  /\ call' = NextOp
  /\ Begin
  /\ UNCHANGED <<job, done, read, status, before>>

\* Glow._byte or the lookup in glow.MODES raises before the call is made.
ValueRefused ==
  /\ job # NoJob
  /\ call = NoCall /\ result \in {"none", "ok"}
  /\ HasNext /\ Refused(NextOp)
  /\ Ends(FAILURE)

Stored ==
  /\ Store
  /\ UNCHANGED <<job, done, read, status, before>>

\* Mutant: _write does not look at what write_byte_data returns.
AnswerIgnored(r) ==
  /\ call # NoCall
  /\ IF call.op = "write" /\ ~present
       THEN call' = NoCall /\ result' = "ok" /\ got' = NoValue /\ UNCHANGED <<regs, present>>
       ELSE Return(r)
  /\ done' = IF result' = "ok" THEN done + 1 ELSE done
  /\ read' = IF result' = "ok" /\ call.op # "write" THEN Append(read, got') ELSE read
  /\ UNCHANGED <<job, status, before>>

\* Mutant: _read hands the None of a call without an ACK on.
AnswerNone(r) ==
  /\ Return(r)
  /\ done' = IF r = "ok" THEN done + 1 ELSE done
  /\ read' = IF call.op # "write" THEN Append(read, got') ELSE read
  /\ UNCHANGED <<job, status, before>>

Answer(r) ==
  /\ Return(r)
  /\ done' = IF r = "ok" THEN done + 1 ELSE done
  /\ read' = IF r = "ok" /\ call.op # "write" THEN Append(read, got') ELSE read
  /\ UNCHANGED <<job, status, before>>

\* Glow._write and _read turn a missing ACK into GlowError; probe reports it.
CallFailed ==
  /\ job # NoJob
  /\ call = NoCall
  /\ \/ result = "error" /\ Ends(FAILURE)
     \/ result = "nack" /\ Ends(IF job.name = "probe" THEN EXIT_NACK ELSE FAILURE)
     \/ result = "lines_low" /\ Ends(EXIT_LINES_LOW)

Finish ==
  /\ job # NoJob
  /\ call = NoCall /\ result \in {"none", "ok"}
  /\ ~HasNext
  /\ Ends(IF Unusable(job) THEN FAILURE ELSE EXIT_OK)

\* The handler cleans up and exits with 128 + signum, unless the second cleanup
\* of __exit__ ends the process with a traceback.
Signal ==
  /\ job # NoJob
  /\ Ends(SIGNALLED) \/ Ends(FAILURE)

CommandNext ==
  \/ \E j \in Job : Start(j)
  \/ EntryFails \/ Issue \/ ValueRefused
  \/ Stored \/ (\E r \in Outcome : Answer(r)) \/ CallFailed
  \/ Finish \/ Signal

CommandSpec == CommandInit /\ [][CommandNext]_vars

-----------------------------------------------------------------------------
(* Properties                                                              *)

Live == job # NoJob /\ ~job.dry

\* Every variable stays in its type, and between commands nothing is pending.
TypeOK ==
  /\ regs \in [Register -> Value]
  /\ present \in BOOLEAN
  /\ call \in DeviceCall \cup {NoCall}
  /\ result \in Outcome \cup {"none"}
  /\ got \in Value \cup {NoValue}
  /\ job \in Job \cup {NoJob}
  /\ done \in 0..5
  /\ read \in Seq(Value) /\ Len(read) \in {0, done}
  /\ status \in ExitStatus \cup {"none", "running"}
  /\ before \in [Register -> Value]
  /\ job = NoJob => call = NoCall /\ result = "none"

\* A command that fails or is interrupted anywhere has applied its first
\* operations and no other: those that succeeded and at most the one under way.
PrefixApplied ==
  IF job = NoJob \/ ~Live \/ job.name \in {"get", "probe", "restore"} THEN regs = before
  ELSE \E n \in {done, done + 1} : /\ n <= Len(Ops(job))
                                   /\ regs = AfterOps(before, Ops(job), n)

\* Status 0 of set, apply and off: the device has everything that was asked for.
AppliedOnSuccess ==
  [][Live /\ status' = EXIT_OK /\ job.name \in {"set", "apply", "off"}
       => regs' = AfterOps(before, Ops(job), Len(Ops(job)))]_vars

\* Status 0 of get: what it prints is one state of the device.
SnapshotOnSuccess ==
  [][Live /\ status' = EXIT_OK /\ job.name = "get"
       => read = << regs["MODE"], regs["RED"], regs["GREEN"], regs["BLUE"],
                    regs["BRIGHTNESS"] >>]_vars

\* The lighting never shows a new mode with an old colour or brightness.
ModeComesLast ==
  [][regs'["MODE"] # regs["MODE"] /\ job.name \in {"set", "apply"}
       => /\ job.color # Absent => << regs["RED"], regs["GREEN"], regs["BLUE"] >> = job.color
          /\ job.brightness # Absent => regs["BRIGHTNESS"] = job.brightness]_vars

=============================================================================
