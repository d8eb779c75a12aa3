-------------------------------- MODULE Cli --------------------------------
(***************************************************************************)
(* The tool as one process: cli.main running a command of Commands inside  *)
(* a session of Session on one machine, with the identity check of         *)
(* identity.check_identity deciding about the card.  The calls of the      *)
(* command are made from the with block, the line updates of the session   *)
(* belong to the call in progress, and the exit status is decided by       *)
(* whatever is left when the last clause has run: the value the command    *)
(* returned, or the exception that is still in flight.                     *)
(***************************************************************************)
EXTENDS Commands

CONSTANTS
  Main,        \* the process
  NoProc, NoSave, Baseline, MaxBusOps, MaxSignals, MaxFaults,
  Card         \* what the machine's sysfs may say about the card

VARIABLES
  hw, lock, pc, fins, block, exc, regFd, lockFd, dict, saved, tmp, armed, dry,
  cmd, ops, sigs, faults, kills, lost,  \* the session
  card                                  \* the sysfs attributes of this machine

\* No kills: what one leaves in the registers is the matter of Session, and a
\* command ends by one as it does by a signal without a handler.
Process ==
  INSTANCE SessionInvariant WITH Proc <- {Main}, Command <- {"drive", "restore"}, MaxKills <- 0

ASSUME ProcessAssumption == /\ NoProc # Main
                            /\ NoSave \notin Process!Contents
                            /\ Baseline \in Process!Contents
                            /\ {MaxBusOps, MaxSignals, MaxFaults} \subseteq Nat

\* The attributes check_identity compares; "unreadable" is missing or no number.
EXPECTED == {"vendor", "device", "subsystem_vendor", "subsystem_device", "revision"}

ASSUME CardAssumption == Card \subseteq [EXPECTED -> {"expected", "other", "unreadable"}]

command == vars
process == <<hw, lock, pc, fins, block, exc, regFd, lockFd, dict, saved, tmp, armed, dry,
             cmd, ops, sigs, faults, kills, lost>>
system  == <<command, process, card>>

CliInit == CommandInit /\ Process!Init /\ card \in Card

-----------------------------------------------------------------------------
(* main                                                                    *)

\* main() has parsed its arguments; a dry probe never opens a session.
Run(j) ==
  /\ pc[Main] = "idle"
  /\ Start(j)
  /\ IF DryProbe(j)
       THEN UNCHANGED process
       ELSE /\ Process!Launch(Main)
            /\ dry'[Main] = j.dry
            /\ cmd'[Main] = IF j.name = "restore" THEN "restore" ELSE "drive"

DryProbeEnds == job # NoJob /\ DryProbe(job) /\ Over(EXIT_OK) /\ UNCHANGED process

\* Mutant: the last attribute is not compared.
AcceptsAnyRevision(c) == \A name \in EXPECTED \ {"revision"} : c[name] = "expected"

\* check_identity returns: every attribute could be read and is as expected.
Accepts(c) == \A name \in EXPECTED : c[name] = "expected"

Entering ==
  /\ Process!Enter(Main)
  /\ pc[Main] = "identity" => (exc'[Main] = "none" <=> Accepts(card))
  /\ UNCHANGED command

-----------------------------------------------------------------------------
(* The with block                                                          *)

\* Control is in the command itself, not in a call and not in a finally.
InCommand == pc[Main] = "body" /\ block[Main] = "with" /\ exc[Main] = "none"
InCall    == call # NoCall

Calls == InCommand /\ Issue /\ UNCHANGED process

\* The line updates of a call, those of the stop() in its finally included.
Drives ==
  /\ InCall
  /\ \/ Process!LineRead(Main) \/ Process!LineWrite(Main)
     \/ Process!BeginTransaction(Main) \/ Process!EndTransaction(Main)
  /\ UNCHANGED command

\* The device takes the value at a clock edge, perhaps the one at which an
\* interrupted session lets go of the lines.
DeviceStores == lock = Main /\ Stored /\ UNCHANGED process

Answers == InCommand /\ (\E r \in Outcome \ {"error"} : Answer(r)) /\ UNCHANGED process

\* What the command returns to main() when no exception is in flight.
Returned ==
  CASE Unusable(job)         -> FAILURE
    [] result = "nack"       -> EXIT_NACK
    [] result = "lines_low"  -> EXIT_LINES_LOW
    [] OTHER                 -> EXIT_OK

\* No call is left to make: all of them succeeded, or the probe has its verdict.
AtReturn ==
  /\ ~InCall
  /\ \/ result \in {"none", "ok"} /\ ~HasNext
     \/ result \in {"nack", "lines_low"} /\ job.name = "probe"

\* A BitBangError or RegError in a call or its stop(), a GlowError for a missing
\* ACK, or a value or config file that is refused.
Raises ==
  /\ Process!CommandFails(Main)
  /\ \/ InCall
     \/ ~InCall /\ result = "nack" /\ job.name # "probe"
     \/ ~InCall /\ HasNext /\ Refused(NextOp) /\ result \in {"none", "ok"}
     \/ Unusable(job) /\ job.color = Bad
  /\ UNCHANGED command

\* The with block ends by a return, or the finally of a call ends with the
\* exception it interrupted still in flight.
Returns ==
  /\ Process!CommandEnds(Main)
  /\ exc[Main] = "none" => AtReturn /\ ~(Unusable(job) /\ job.color = Bad)
  /\ UNCHANGED command

CleansUp == Process!Cleanup(Main) /\ UNCHANGED command

-----------------------------------------------------------------------------
(* The end of the process                                                  *)

\* Mutant: a register error of the cleanup leaves the command's value standing.
StatusOfCommand(e) ==
  CASE e \in {"none", "RegError"}                  -> Returned
    [] e = "IdentityError"                         -> EXIT_IDENTITY
    [] e \in {"BlockingIOError", "PermissionError"} -> EXIT_ACCESS
    [] e = "SystemExit"                            -> SIGNALLED
    [] OTHER                                       -> FAILURE

\* The except clauses of main(); what they do not name is a traceback.
StatusOf(e) ==
  CASE e = "none"                                              -> Returned
    [] e = "IdentityError"                                     -> EXIT_IDENTITY
    [] e \in {"RegError", "BlockingIOError", "PermissionError"} -> EXIT_ACCESS
    [] e = "SystemExit"                                        -> SIGNALLED
    [] OTHER                                                   -> FAILURE

Leaves == Process!Exit(Main) /\ Over(StatusOf(exc[Main]))

\* A signal: the handler runs, or the process is gone at once.
Interrupted ==
  /\ \E s \in Process!HANDLED : Process!Signal(Main, s)
  /\ IF pc'[Main] = "idle" THEN Over(SIGNALLED) ELSE UNCHANGED command

Goes ==
  \/ DryProbeEnds \/ Entering
  \/ Calls \/ Drives \/ Answers \/ Raises \/ Returns
  \/ CleansUp \/ Leaves

CliNext ==
  /\ (\E j \in Job : Run(j)) \/ Goes \/ DeviceStores \/ Interrupted
  /\ UNCHANGED card

\* A command that runs goes on; nobody has to start or signal one, and the
\* device has to store nothing.  Answers is fair because every call on the
\* wire returns (SmbusWire!CallReturns).
CliSpec == CliInit /\ [][CliNext]_system /\ WF_system(Goes /\ UNCHANGED card)

-----------------------------------------------------------------------------
(* Properties                                                              *)

\* The session, its signals, nested cleanups and failing clauses make of a
\* command what Commands says: main() reports success, or the verdict of a
\* probe, only for calls that all came back, also when an exception crossed a
\* finally on the way or the signal came after the return.
RefinesCommands == CommandSpec

\* The two outcomes of a process in one status: when it reports success or a
\* probe's verdict, the pads are as the session found them, whatever signals
\* came and whatever register accesses failed.
VerdictMeansRestored ==
  [][Leaves /\ ~DryProbe(job) /\ status' \in {EXIT_OK, EXIT_LINES_LOW, EXIT_NACK}
       => hw = saved[Main]]_system

\* README "Safety": on another card no register of the pads is ever written and
\* no device of its bus is ever called, by any command on any path.
ForeignCardUntouched ==
  [][(\E name \in EXPECTED : card[name] # "expected") => hw' = hw /\ call' = NoCall]_system

\* A command ends, and with it the hold on the pads, however often it is
\* interrupted and whatever its descriptors have become.
CommandReturns == job # NoJob ~> job = NoJob /\ lock = NoProc

=============================================================================
