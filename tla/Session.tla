------------------------------ MODULE Session ------------------------------
(***************************************************************************)
(* The life of nitroglow processes as cli._Session, regs.RegFile and       *)
(* pad.Pad run it:                                                         *)
(*                                                                         *)
(*   identity -> lock -> open -> save -> arm handlers -> claim -> work     *)
(*            -> release -> restore -> close                               *)
(*                                                                         *)
(* Every register access is a step of its own.  A signal may arrive        *)
(* between any two steps and runs the handler, which does a whole cleanup  *)
(* and then raises SystemExit in the code it interrupted; a register       *)
(* access may fail; a process may be killed.  The clauses Python still has *)
(* to run when it unwinds a process are, innermost first,                  *)
(*   fins   finally clauses of _cleanup calls running or interrupted, and  *)
(*   block  "stop" (the finally of an SMBus transaction, inside the with)  *)
(*          or "with" (the __exit__ of the session) or "none":             *)
(* a cleanup never runs the body, so its clauses are always the inner ones.*)
(* The work between claim and release is any bounded series of line        *)
(* updates through Pad._set_line.                                          *)
(***************************************************************************)
EXTENDS Naturals, PadRegs

CONSTANTS
  Proc,        \* process slots; a slot may run nitroglow any number of times
  NoProc,      \* the lock is free
  NoSave,      \* save() has not completed: Pad._saved is None
  Baseline,    \* what the driver left in the registers
  Command,     \* the commands started: "drive" uses the bus, "restore" does not
  MaxBusOps,   \* bound: line updates and transactions of one command
  MaxSignals,  \* bound: signals a process receives
  MaxFaults,   \* bound: register accesses that fail
  MaxKills     \* bound: processes killed outright

ASSUME NoProcAssumption   == NoProc \notin Proc
ASSUME NoSaveAssumption   == NoSave \notin Contents
ASSUME BaselineAssumption == Baseline \in Contents
ASSUME CommandAssumption  == Command \subseteq {"drive", "restore"}
ASSUME BoundAssumption    == /\ MaxBusOps \in Nat
                             /\ MaxSignals \in Nat
                             /\ MaxFaults \in Nat
                             /\ MaxKills \in Nat

VARIABLES
  hw,      \* contents of the hardware registers
  lock,    \* holder of the flock on /run/lock/nitroglow.lock
  pc,      \* where each process is
  fins,    \* _cleanup finally clauses pending in each process
  block,   \* what encloses them
  exc,     \* what propagates when the current activity of a process ends
  regFd,   \* RegFile._fd: "stale" is closed but not yet None
  lockFd,  \* _Session._lock_fd
  dict,    \* the dictionary save() is building
  saved,   \* Pad._saved
  tmp,     \* the local a read-modify-write holds between read and write
  armed,   \* how many of the handlers are installed
  dry,     \* --dry-run
  cmd,     \* the command
  ops,     \* bus operations begun
  sigs,    \* signals received
  faults,  \* register accesses that failed
  kills,   \* processes killed
  lost     \* history: an event no session can undo has hit dirty registers

control == <<pc, fins, block, exc>>
fds     == <<lock, regFd, lockFd>>
data    == <<dict, saved, tmp>>
setup   == <<armed, dry, cmd>>
env     == <<sigs, faults, kills, lost>>
vars    == <<hw, control, fds, data, setup, ops, env>>

\* SIGINT, SIGTERM and SIGHUP, numbered in the order __enter__ wires them.
NHandled == 3
HANDLED  == 1..NHandled

EnterPc   == {"identity", "open_lock", "flock", "open_regs",
              "save_mask", "save_a", "save_en", "save_y", "arm",
              "claim_read", "claim_mask", "claim_a", "claim_en", "entered"}
BodyPc    == {"body", "line"}
ReleasePc == {"release_en", "release_read", "release_mask"}
RestorePc == {"restore_en", "restore_a", "restore_mask"}
FinallyPc == {"close_regs", "forget_regs", "close_lock"}
RunningPc == EnterPc \cup BodyPc \cup ReleasePc \cup RestorePc \cup FinallyPc
             \cup {"leaving"}

\* "CommandError" is any exception the command raises itself: a BitBangError or
\* GlowError of the bus, a ValueError or KeyError of an argument or the config.
Exception == {"IdentityError", "FileNotFoundError", "PermissionError",
              "BlockingIOError", "RegError", "PadError", "TypeError", "OSError",
              "CommandError", "SystemExit", "killed"}
NoDict    == [r \in Reg |-> {}]

Init ==
  /\ hw = Baseline
  /\ lock = NoProc
  /\ pc = [p \in Proc |-> "idle"]
  /\ fins = [p \in Proc |-> 0]
  /\ block = [p \in Proc |-> "none"]
  /\ exc = [p \in Proc |-> "none"]
  /\ regFd = [p \in Proc |-> "unset"]
  /\ lockFd = [p \in Proc |-> "unset"]
  /\ dict = [p \in Proc |-> NoDict]
  /\ saved = [p \in Proc |-> NoSave]
  /\ tmp = [p \in Proc |-> {}]
  /\ armed = [p \in Proc |-> 0]
  /\ dry = [p \in Proc |-> FALSE]
  /\ cmd = [p \in Proc |-> "drive"]
  /\ ops = [p \in Proc |-> 0]
  /\ sigs = [p \in Proc |-> 0]
  /\ faults = 0
  /\ kills = 0
  /\ lost = FALSE

-----------------------------------------------------------------------------
(* Control flow of one process.                                            *)

Goto(p, next) == pc' = [pc EXCEPT ![p] = next]

Step(p, from, to) ==
  /\ pc[p] = from
  /\ Goto(p, to)
  /\ UNCHANGED <<fins, block, exc>>

\* Leave the current activity with e in flight ("none" is a normal return) and
\* run the innermost clause that is pending.
Unwind(p, e) ==
  /\ exc' = [exc EXCEPT ![p] = e]
  /\ \/ /\ fins[p] > 0
        /\ Goto(p, "close_regs")
        /\ fins' = [fins EXCEPT ![p] = @ - 1]
        /\ UNCHANGED block
     \/ /\ fins[p] = 0
        /\ block[p] = "stop"
        /\ Goto(p, "body")
        /\ block' = [block EXCEPT ![p] = "with"]
        /\ UNCHANGED fins
     \/ /\ fins[p] = 0
        /\ block[p] = "with"
        /\ Goto(p, "release_en")
        /\ block' = [block EXCEPT ![p] = "none"]
        /\ fins' = [fins EXCEPT ![p] = 1]
     \/ /\ fins[p] = 0
        /\ block[p] = "none"
        /\ Goto(p, "leaving")
        /\ UNCHANGED <<fins, block>>

\* The try of a _cleanup is over: its finally is no longer pending but running.
EnterFinally(p) ==
  /\ Goto(p, "close_regs")
  /\ fins' = [fins EXCEPT ![p] = @ - 1]
  /\ UNCHANGED <<block, exc>>

\* The process is gone and the kernel has closed its descriptors.
Gone(p, status) ==
  /\ Goto(p, "idle")
  /\ exc' = [exc EXCEPT ![p] = status]
  /\ fins' = [fins EXCEPT ![p] = 0]
  /\ block' = [block EXCEPT ![p] = "none"]
  /\ lock' = IF lock = p THEN NoProc ELSE lock
  /\ regFd' = [regFd EXCEPT ![p] = "unset"]
  /\ lockFd' = [lockFd EXCEPT ![p] = "unset"]
  /\ dict' = [dict EXCEPT ![p] = NoDict]
  /\ saved' = [saved EXCEPT ![p] = NoSave]
  /\ tmp' = [tmp EXCEPT ![p] = {}]
  /\ armed' = [armed EXCEPT ![p] = 0]
  /\ ops' = [ops EXCEPT ![p] = 0]
  /\ sigs' = [sigs EXCEPT ![p] = 0]
  /\ dry' = [dry EXCEPT ![p] = FALSE]
  /\ cmd' = [cmd EXCEPT ![p] = "drive"]
  /\ UNCHANGED <<hw, faults>>

-----------------------------------------------------------------------------
(* regs.RegFile                                                            *)

\* Places where no clause that could still restore is pending for a failed access.
Exposed == {"claim_a", "claim_en"} \cup ReleasePc \cup RestorePc

\* A register access raises: the device refuses it, or the descriptor is gone.
AccessFails(p) ==
  \/ /\ regFd[p] = "open"
     /\ faults < MaxFaults
     /\ faults' = faults + 1
     /\ lost' = (lost \/ (pc[p] \in Exposed /\ hw # Baseline))
     /\ Unwind(p, "RegError")
  \/ /\ regFd[p] = "stale"
     /\ Unwind(p, "RegError")
     /\ UNCHANGED <<faults, lost>>
  \/ /\ regFd[p] = "closed"
     /\ Unwind(p, "TypeError")
     /\ UNCHANGED <<faults, lost>>

\* write32, then the control step Then; a dry run never reaches the descriptor.
Write32(p, reg, value, Then) ==
  /\ \/ /\ regFd[p] = "open" \/ dry[p]
        /\ hw' = IF dry[p] THEN hw ELSE [hw EXCEPT ![reg] = value]
        /\ Then
        /\ UNCHANGED <<faults, lost>>
     \/ /\ ~dry[p]
        /\ AccessFails(p)
        /\ UNCHANGED hw
  /\ UNCHANGED <<fds, data, setup, ops, sigs, kills>>

\* read32, after which the caller keeps value in a local.
Read32(p, value, Then) ==
  /\ \/ /\ regFd[p] = "open"
        /\ tmp' = [tmp EXCEPT ![p] = value]
        /\ Then
        /\ UNCHANGED <<faults, lost>>
     \/ /\ AccessFails(p)
        /\ UNCHANGED tmp
  /\ UNCHANGED <<hw, fds, dict, saved, setup, sigs, kills>>

-----------------------------------------------------------------------------
(* _Session.__enter__                                                      *)

Launch(p) ==
  /\ pc[p] = "idle"
  /\ Goto(p, "identity")
  /\ exc' = [exc EXCEPT ![p] = "none"]
  /\ \E c \in Command, d \in BOOLEAN :
       /\ cmd' = [cmd EXCEPT ![p] = c]
       /\ dry' = [dry EXCEPT ![p] = d]
  /\ UNCHANGED <<hw, fins, block, fds, data, armed, ops, env>>

CheckIdentity(p) ==
  /\ pc[p] = "identity"
  /\ Step(p, "identity", "open_lock") \/ Unwind(p, "IdentityError")
  /\ UNCHANGED <<hw, fds, data, setup, ops, env>>

\* The lock file cannot be created, or /run/lock is missing.
OpenLock(p) ==
  /\ pc[p] = "open_lock"
  /\ \/ /\ lockFd' = [lockFd EXCEPT ![p] = "open"]
        /\ Step(p, "open_lock", "flock")
     \/ /\ Unwind(p, "PermissionError") \/ Unwind(p, "FileNotFoundError")
        /\ UNCHANGED lockFd
  /\ UNCHANGED <<hw, lock, regFd, data, setup, ops, env>>

\* Mutant: LOCK_SH, which several processes are granted at once.
FlockShared(p) ==
  /\ pc[p] = "flock"
  /\ lock' = p
  /\ Step(p, "flock", "open_regs")
  /\ UNCHANGED <<hw, regFd, lockFd, data, setup, ops, env>>

\* LOCK_EX | LOCK_NB: a held lock is refused at once.
Flock(p) ==
  /\ pc[p] = "flock"
  /\ \/ /\ lock = NoProc
        /\ lock' = p
        /\ Step(p, "flock", "open_regs")
     \/ /\ lock # NoProc
        /\ Unwind(p, "BlockingIOError")
        /\ UNCHANGED lock
  /\ UNCHANGED <<hw, regFd, lockFd, data, setup, ops, env>>

OpenRegs(p) ==
  /\ pc[p] = "open_regs"
  /\ \/ /\ regFd' = [regFd EXCEPT ![p] = "open"]
        /\ Step(p, "open_regs", "save_mask")
     \/ /\ Unwind(p, "RegError")
        /\ UNCHANGED regFd
  /\ UNCHANGED <<hw, lock, lockFd, data, setup, ops, env>>

SaveRead(p, from, reg, to) ==
  /\ pc[p] = from
  /\ \/ /\ dict' = [dict EXCEPT ![p][reg] = hw[reg]]
        /\ Step(p, from, to)
        /\ UNCHANGED <<faults, lost>>
     \/ /\ AccessFails(p)
        /\ UNCHANGED dict
  /\ UNCHANGED <<hw, fds, saved, tmp, setup, ops, sigs, kills>>

\* The read of Y completes the dictionary, and only then is _saved assigned.
SaveDone(p) ==
  /\ pc[p] = "save_y"
  /\ \/ /\ saved' = [saved EXCEPT ![p] = dict[p]]
        /\ Step(p, "save_y", "arm")
        /\ UNCHANGED <<faults, lost>>
     \/ /\ AccessFails(p)
        /\ UNCHANGED saved
  /\ UNCHANGED <<hw, fds, dict, tmp, setup, ops, sigs, kills>>

Save(p) ==
  \/ SaveRead(p, "save_mask", "MASK", "save_a")
  \/ SaveRead(p, "save_a", "A", "save_en")
  \/ SaveRead(p, "save_en", "EN", "save_y")
  \/ SaveDone(p)

\* Mutant: the loop runs once too often.
ArmOnceMore(p) ==
  /\ pc[p] = "arm"
  /\ armed' = [armed EXCEPT ![p] = @ + 1]
  /\ Step(p, "arm", IF armed[p] = NHandled THEN "claim_read" ELSE "arm")
  /\ UNCHANGED <<hw, fds, data, dry, cmd, ops, env>>

\* One signal.signal() of the loop over HANDLED.
Arm(p) ==
  /\ pc[p] = "arm"
  /\ armed' = [armed EXCEPT ![p] = @ + 1]
  /\ Step(p, "arm", IF armed[p] + 1 = NHandled THEN "claim_read" ELSE "arm")
  /\ UNCHANGED <<hw, fds, data, dry, cmd, ops, env>>

ClaimRead(p) ==
  /\ pc[p] = "claim_read"
  /\ Read32(p, Claimed(hw["MASK"]), Step(p, "claim_read", "claim_mask"))
  /\ UNCHANGED ops

ClaimMask(p) ==
  /\ pc[p] = "claim_mask"
  /\ Write32(p, "MASK", tmp[p], Step(p, "claim_mask", "claim_a"))

\* Mutant: claim() leaves A as the driver did.
ClaimAOmitted(p) ==
  /\ pc[p] = "claim_a"
  /\ Step(p, "claim_a", "claim_en")
  /\ UNCHANGED <<hw, fds, data, setup, ops, env>>

ClaimA(p) ==
  /\ pc[p] = "claim_a"
  /\ Write32(p, "A", {}, Step(p, "claim_a", "claim_en"))

ClaimEn(p) ==
  /\ pc[p] = "claim_en"
  /\ Write32(p, "EN", {}, Step(p, "claim_en", "entered"))

\* __enter__ has returned and the with block is set up: from here on, not
\* before, an exception runs __exit__.
EnterBlock(p) ==
  /\ pc[p] = "entered"
  /\ Goto(p, "body")
  /\ block' = [block EXCEPT ![p] = "with"]
  /\ UNCHANGED <<hw, fins, exc, fds, data, setup, ops, env>>

-----------------------------------------------------------------------------
(* The command, seen from the registers                                    *)

\* Pad._set_line, the read half of the read-modify-write of EN.
LineRead(p) ==
  /\ pc[p] = "body"
  /\ cmd[p] = "drive"
  /\ ops[p] < MaxBusOps
  /\ ops' = [ops EXCEPT ![p] = @ + 1]
  /\ \E bit \in Line, high \in BOOLEAN :
       Read32(p, LineSet(hw["EN"], bit, high), Step(p, "body", "line"))

LineWrite(p) ==
  /\ pc[p] = "line"
  /\ Write32(p, "EN", tmp[p], Step(p, "line", "body"))

\* start() has returned and the try of an SMBus transaction is entered.
BeginTransaction(p) ==
  /\ pc[p] = "body"
  /\ cmd[p] = "drive"
  /\ exc[p] = "none"
  /\ block[p] = "with"
  /\ ops[p] < MaxBusOps
  /\ ops' = [ops EXCEPT ![p] = @ + 1]
  /\ block' = [block EXCEPT ![p] = "stop"]
  /\ UNCHANGED <<hw, pc, fins, exc, fds, data, setup, env>>

\* The try returns; what follows are the line updates of its finally, stop().
EndTransaction(p) ==
  /\ pc[p] = "body"
  /\ block[p] = "stop"
  /\ block' = [block EXCEPT ![p] = "with"]
  /\ UNCHANGED <<hw, pc, fins, exc, fds, data, setup, ops, env>>

\* The bus misbehaves, or an argument or the config file is rejected midway.
CommandFails(p) ==
  /\ pc[p] = "body"
  /\ cmd[p] = "drive"
  /\ Unwind(p, "CommandError")
  /\ UNCHANGED <<hw, fds, data, setup, ops, env>>

\* The with block returns, or a finally: stop() ends and its exception goes on.
CommandEnds(p) ==
  /\ pc[p] = "body"
  /\ block[p] = "with"
  /\ Unwind(p, exc[p])
  /\ UNCHANGED <<hw, fds, data, setup, ops, env>>

-----------------------------------------------------------------------------
(* _Session._cleanup                                                       *)

ReleaseEn(p) ==
  /\ pc[p] = "release_en"
  /\ Write32(p, "EN", {}, Step(p, "release_en", "release_read"))

ReleaseRead(p) ==
  /\ pc[p] = "release_read"
  /\ Read32(p, Released(hw["MASK"]), Step(p, "release_read", "release_mask"))
  /\ UNCHANGED ops

ReleaseMask(p) ==
  /\ pc[p] = "release_mask"
  /\ Write32(p, "MASK", tmp[p], Step(p, "release_mask", "restore_en"))

\* restore() refuses to run before save().
RestoreEn(p) ==
  /\ pc[p] = "restore_en"
  /\ IF saved[p] = NoSave
       THEN Unwind(p, "PadError") /\ UNCHANGED <<hw, fds, data, setup, ops, env>>
       ELSE Write32(p, "EN", saved[p]["EN"], Step(p, "restore_en", "restore_a"))

RestoreA(p) ==
  /\ pc[p] = "restore_a"
  /\ Write32(p, "A", saved[p]["A"], Step(p, "restore_a", "restore_mask"))

\* Mutant: restore() leaves MASK as release() wrote it.
RestoreMaskOmitted(p) ==
  /\ pc[p] = "restore_mask"
  /\ EnterFinally(p)
  /\ UNCHANGED <<hw, fds, data, setup, ops, env>>

RestoreMask(p) ==
  /\ pc[p] = "restore_mask"
  /\ Write32(p, "MASK", saved[p]["MASK"], EnterFinally(p))

\* Mutant: after a register error the descriptor is left to the exit.
CloseRegsUnlessFailed(p) ==
  /\ pc[p] = "close_regs"
  /\ IF regFd[p] = "open" /\ exc[p] # "RegError"
       THEN /\ regFd' = [regFd EXCEPT ![p] = "stale"]
            /\ Step(p, "close_regs", "forget_regs")
       ELSE /\ UNCHANGED regFd
            /\ Step(p, "close_regs", "close_lock")
  /\ UNCHANGED <<hw, lock, lockFd, data, setup, ops, env>>

\* Mutant: a close that is refused is tried again.
CloseRegsRetried(p) ==
  /\ pc[p] = "close_regs"
  /\ \/ /\ regFd[p] = "open"
        /\ regFd' = [regFd EXCEPT ![p] = "stale"]
        /\ Step(p, "close_regs", "forget_regs")
     \/ /\ regFd[p] = "stale"
        /\ Step(p, "close_regs", "close_regs")
        /\ UNCHANGED regFd
     \/ /\ regFd[p] = "closed"
        /\ Step(p, "close_regs", "close_lock")
        /\ UNCHANGED regFd
  /\ UNCHANGED <<hw, lock, lockFd, data, setup, ops, env>>

\* RegFile.close(): os.close(self._fd), which refuses a descriptor closed before.
CloseRegs(p) ==
  /\ pc[p] = "close_regs"
  /\ \/ /\ regFd[p] = "open"
        /\ regFd' = [regFd EXCEPT ![p] = "stale"]
        /\ Step(p, "close_regs", "forget_regs")
     \/ /\ regFd[p] = "stale"
        /\ Unwind(p, "OSError")
        /\ UNCHANGED regFd
     \/ /\ regFd[p] = "closed"
        /\ Step(p, "close_regs", "close_lock")
        /\ UNCHANGED regFd
  /\ UNCHANGED <<hw, lock, lockFd, data, setup, ops, env>>

\* RegFile.close(): self._fd = None.
ForgetRegs(p) ==
  /\ pc[p] = "forget_regs"
  /\ regFd' = [regFd EXCEPT ![p] = "closed"]
  /\ Step(p, "forget_regs", "close_lock")
  /\ UNCHANGED <<hw, lock, lockFd, data, setup, ops, env>>

\* Mutant: a return in the finally drops the exception in flight.
CloseLockReturns(p) ==
  /\ pc[p] = "close_lock"
  /\ lockFd[p] = "open"
  /\ lockFd' = [lockFd EXCEPT ![p] = "closed"]
  /\ lock' = IF lock = p THEN NoProc ELSE lock
  /\ Unwind(p, "none")
  /\ UNCHANGED <<hw, regFd, data, setup, ops, env>>

\* os.close(self._lock_fd) gives up the flock; a second one raises.
CloseLock(p) ==
  /\ pc[p] = "close_lock"
  /\ \/ /\ lockFd[p] = "open"
        /\ lockFd' = [lockFd EXCEPT ![p] = "closed"]
        /\ lock' = IF lock = p THEN NoProc ELSE lock
        /\ Unwind(p, exc[p])
     \/ /\ lockFd[p] = "closed"
        /\ Unwind(p, "OSError")
        /\ UNCHANGED <<lock, lockFd>>
  /\ UNCHANGED <<hw, regFd, data, setup, ops, env>>

\* main() has mapped the outcome to an exit status and the process ends.
Exit(p) ==
  /\ pc[p] = "leaving"
  /\ Gone(p, exc[p])
  /\ UNCHANGED <<kills, lost>>

-----------------------------------------------------------------------------
(* What happens to a process                                               *)

\* Mutant: the handler only raises and leaves the cleanup to __exit__.
HandlerRaises(p) ==
  /\ Unwind(p, "SystemExit")
  /\ UNCHANGED <<hw, fds, data, setup, ops, faults>>

\* _on_signal interrupts p anywhere: a whole _cleanup, then sys.exit().
Handler(p) ==
  /\ Goto(p, "release_en")
  /\ exc' = [exc EXCEPT ![p] = "SystemExit"]
  /\ fins' = [fins EXCEPT ![p] = @ + 1]
  /\ UNCHANGED <<hw, block, fds, data, setup, ops, faults>>

\* p ends without running a line more of its own code.
Dies(p) ==
  /\ Gone(p, "killed")
  /\ lost' = (lost \/ (lock = p /\ hw # Baseline))

\* Signal number s.  Before its handler is installed it ends the
\* process (SIGINT with a KeyboardInterrupt, which nothing catches either).
Signal(p, s) ==
  /\ pc[p] \in RunningPc
  /\ sigs[p] < MaxSignals
  /\ \/ /\ s <= armed[p]
        /\ Handler(p)
        /\ sigs' = [sigs EXCEPT ![p] = @ + 1]
        /\ UNCHANGED lost
     \/ /\ s > armed[p]
        /\ Dies(p)
  /\ UNCHANGED kills

\* SIGKILL, or the machine's out-of-memory killer.
Kill(p) ==
  /\ pc[p] \in RunningPc
  /\ kills < MaxKills
  /\ kills' = kills + 1
  /\ Dies(p)

Enter(p) ==
  \/ CheckIdentity(p) \/ OpenLock(p) \/ Flock(p) \/ OpenRegs(p)
  \/ Save(p) \/ Arm(p)
  \/ ClaimRead(p) \/ ClaimMask(p) \/ ClaimA(p) \/ ClaimEn(p) \/ EnterBlock(p)

Body(p) ==
  \/ LineRead(p) \/ LineWrite(p)
  \/ BeginTransaction(p) \/ EndTransaction(p)
  \/ CommandFails(p) \/ CommandEnds(p)

Cleanup(p) ==
  \/ ReleaseEn(p) \/ ReleaseRead(p) \/ ReleaseMask(p)
  \/ RestoreEn(p) \/ RestoreA(p) \/ RestoreMask(p)
  \/ CloseRegs(p) \/ ForgetRegs(p) \/ CloseLock(p)

Run(p) == Enter(p) \/ Body(p) \/ Cleanup(p) \/ Exit(p)

Next == \E p \in Proc : 
  \/ Launch(p) \/ Run(p) \/ Kill(p)
  \/ \E s \in HANDLED : Signal(p, s)

Spec == Init /\ [][Next]_vars

-----------------------------------------------------------------------------
(* Properties                                                              *)

\* Every variable stays in its type.
TypeOK ==
  /\ hw \in Contents
  /\ lock \in Proc \cup {NoProc}
  /\ pc \in [Proc -> RunningPc \cup {"idle"}]
  /\ fins \in [Proc -> Nat]
  /\ block \in [Proc -> {"none", "with", "stop"}]
  /\ exc \in [Proc -> Exception \cup {"none"}]
  /\ regFd \in [Proc -> {"unset", "open", "stale", "closed"}]
  /\ lockFd \in [Proc -> {"unset", "open", "closed"}]
  /\ dict \in [Proc -> Contents]
  /\ saved \in [Proc -> Contents \cup {NoSave}]
  /\ tmp \in [Proc -> SUBSET Bit]
  /\ armed \in [Proc -> 0..NHandled]
  /\ dry \in [Proc -> BOOLEAN]
  /\ cmd \in [Proc -> {"drive", "restore"}]
  /\ ops \in [Proc -> 0..MaxBusOps]
  /\ sigs \in [Proc -> 0..MaxSignals]
  /\ faults \in 0..MaxFaults
  /\ kills \in 0..MaxKills
  /\ lost \in BOOLEAN

\* Whenever no session runs, the registers are as the driver left them: handled
\* signals in any number and at any point, faults of the save or of the
\* command, and kills before the claim all end in the saved contents.
RestoredWhenFree == lock = NoProc /\ ~lost => hw = Baseline

\* The registers change only by a step of the process that holds the lock, and
\* never by a dry run: no cleanup writes after it gave the lock away.
OnlyHolderWrites ==
  [][hw' # hw => /\ lock \in Proc
                 /\ pc[lock] \in BodyPc \cup ReleasePc \cup RestorePc
                                  \cup {"claim_mask", "claim_a", "claim_en"}
                 /\ pc'[lock] # pc[lock]
                 /\ ~dry[lock]]_vars

\* A session that gives up the lock with an outcome that is not a register
\* error put back what it found, whatever failed on the way.
HonestExit ==
  [][\A p \in Proc :
       /\ lock = p /\ lock' # p
       /\ exc'[p] \in {"none", "CommandError", "SystemExit"}
       => hw' = saved[p]]_vars

\* Lines are driven only while both pads are claimed with A at 0 and the SDA
\* pull-down off, also by the stop() that runs after an interrupted cleanup.
DrivenWhileClaimed ==
  \A p \in Proc :
    pc[p] \in BodyPc /\ regFd[p] = "open" /\ ~dry[p]
      => /\ Line \subseteq hw["MASK"] /\ DATA_PD_EN \notin hw["MASK"]
         /\ hw["A"] = {}

\* The claimed lines that are at 1 in A and enabled at once.
DrivenHigh == Line \cap hw["MASK"] \cap hw["A"] \cap hw["EN"]

\* Open drain ("A: kept 0").  No line is ever driven high that the driver had not
\* left with both bits set; and from the second write of claim() to the last one
\* of restore() not such a line either, so the only writes between which the
\* driver's leftovers can meet the claim are the first two of claim().
OpenDrain ==
  /\ DrivenHigh \subseteq Baseline["A"] \cap Baseline["EN"]
  /\ \A p \in Proc :
       /\ lock = p /\ regFd[p] = "open" /\ ~dry[p]
       /\ pc[p] \in {"claim_en", "entered"} \cup BodyPc
                    \cup {"release_read", "release_mask"} \cup RestorePc
       => DrivenHigh = {}

\* The sessions keep the custody of the pads, the flock being its token.
Custody ==
  INSTANCE PadCustody WITH Client <- Proc, Nobody <- NoProc, pads <- hw, holder <- lock

RefinesCustody == Custody!Spec

-----------------------------------------------------------------------------
(* What the documents say and the code does not do                         *)

\* README "Safety": save and restore on every exit path, including signals.
\* With no process killed from outside, a free lock would then mean restored.
RestoredOnEveryExit == lock = NoProc => hw = Baseline

\* README, the table of commands: restore puts the registers back.  It puts
\* back what it found, also what a killed process left behind.
RestoreCommandRestores ==
  [][\A p \in Proc :
       /\ lock = p /\ lock' # p
       /\ cmd[p] = "restore" /\ exc'[p] = "none" /\ ~dry[p]
       => hw' = Baseline]_vars

\* design.md "Safety" calls the restore idempotent: the second cleanup, in
\* __exit__ after the handler's, would then do nothing and raise nothing.
CleanupIsIdempotent == \A p \in Proc : exc[p] \notin {"TypeError", "OSError"}

=============================================================================
