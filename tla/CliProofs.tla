----------------------------- MODULE CliProofs -----------------------------
(***************************************************************************)
(* Machine-checked proofs about Cli, for every set of commands, every card *)
(* and every bound.  What SessionProofs shows of any number of processes   *)
(* holds of the one process of Cli; the rest is how far the command is at  *)
(* each place of that process.                                             *)
(***************************************************************************)
EXTENDS CliInvariant, TLAPS

Theory ==
  INSTANCE SessionProofs WITH Proc <- {Main}, Command <- {"drive", "restore"}, MaxKills <- 0

-----------------------------------------------------------------------------
(* The process of Cli is a process of Session                              *)

\* Both instances of Session start in the same states ...
LEMMA SameInit == Process!Init <=> Theory!Init
<1>1. Process!NoDict = Theory!NoDict
  BY DEF Process!NoDict, Theory!NoDict, Process!Reg, Theory!Reg
<1> QED
  BY <1>1 DEF Process!Init, Theory!Init

\* ... take the same steps ...
LEMMA SameNext == Process!Next <=> Theory!Next
  BY DEF Process!Next, Theory!Next, Process!Launch, Theory!Launch, Process!Run,
         Theory!Run, Process!Kill, Theory!Kill, Process!HANDLED, Theory!HANDLED,
         Process!Signal, Theory!Signal, Process!Goto, Theory!Goto, Process!fds,
         Theory!fds, Process!data, Theory!data, Process!env, Theory!env,
         Process!Enter, Theory!Enter, Process!Body, Theory!Body, Process!Cleanup,
         Theory!Cleanup, Process!Exit, Theory!Exit, Process!RunningPc,
         Theory!RunningPc, Process!Dies, Theory!Dies, Process!NHandled,
         Theory!NHandled, Process!Handler, Theory!Handler, Process!CheckIdentity,
         Theory!CheckIdentity, Process!OpenLock, Theory!OpenLock, Process!Flock,
         Theory!Flock, Process!OpenRegs, Theory!OpenRegs, Process!Save,
         Theory!Save, Process!Arm, Theory!Arm, Process!ClaimRead, Theory!ClaimRead,
         Process!ClaimMask, Theory!ClaimMask, Process!ClaimA, Theory!ClaimA,
         Process!ClaimEn, Theory!ClaimEn, Process!EnterBlock, Theory!EnterBlock,
         Process!LineRead, Theory!LineRead, Process!LineWrite, Theory!LineWrite,
         Process!BeginTransaction, Theory!BeginTransaction, Process!EndTransaction,
         Theory!EndTransaction, Process!CommandFails, Theory!CommandFails,
         Process!CommandEnds, Theory!CommandEnds, Process!ReleaseEn,
         Theory!ReleaseEn, Process!ReleaseRead, Theory!ReleaseRead,
         Process!ReleaseMask, Theory!ReleaseMask, Process!RestoreEn,
         Theory!RestoreEn, Process!RestoreA, Theory!RestoreA, Process!RestoreMask,
         Theory!RestoreMask, Process!CloseRegs, Theory!CloseRegs,
         Process!ForgetRegs, Theory!ForgetRegs, Process!CloseLock,
         Theory!CloseLock, Process!Gone, Theory!Gone, Process!EnterPc,
         Theory!EnterPc, Process!BodyPc, Theory!BodyPc, Process!ReleasePc,
         Theory!ReleasePc, Process!RestorePc, Theory!RestorePc, Process!FinallyPc,
         Theory!FinallyPc, Process!setup, Theory!setup, Process!Step, Theory!Step,
         Process!Unwind, Theory!Unwind, Process!SaveRead, Theory!SaveRead,
         Process!SaveDone, Theory!SaveDone, Process!Read32, Theory!Read32,
         Process!Claimed, Theory!Claimed, Process!Write32, Theory!Write32,
         Process!Line, Theory!Line, Process!LineSet, Theory!LineSet,
         Process!Released, Theory!Released, Process!EnterFinally,
         Theory!EnterFinally, Process!NoDict, Theory!NoDict, Process!AccessFails,
         Theory!AccessFails, Process!DATA_PD_EN, Theory!DATA_PD_EN,
         Process!CLK_BIT, Theory!CLK_BIT, Process!DATA_BIT, Theory!DATA_BIT,
         Process!Reg, Theory!Reg, Process!Exposed, Theory!Exposed

\* ... and have the same invariant, before a step and after it.
LEMMA SameInv == (Process!IInv <=> Theory!IInv) /\ (Process!IInv' <=> Theory!IInv')
  BY DEF Process!IInv, Theory!IInv, Process!TypeOK, Theory!TypeOK, Process!Control,
         Theory!Control, Process!Descriptors, Theory!Descriptors, Process!Tracks,
         Theory!Tracks, Process!Clean, Theory!Clean, Process!Contents,
         Theory!Contents, Process!RunningPc, Theory!RunningPc, Process!Exception,
         Theory!Exception, Process!Bit, Theory!Bit, Process!NHandled,
         Theory!NHandled, Process!EnterPc, Theory!EnterPc, Process!BodyPc,
         Theory!BodyPc, Process!ReleasePc, Theory!ReleasePc, Process!RestorePc,
         Theory!RestorePc, Process!UnarmedPc, Theory!UnarmedPc, Process!OpenedPc,
         Theory!OpenedPc, Process!CleanupPc, Theory!CleanupPc, Process!Line,
         Theory!Line, Process!DATA_PD_EN, Theory!DATA_PD_EN, Process!FinallyPc,
         Theory!FinallyPc, Process!Honest, Theory!Honest, Process!Undamaged,
         Theory!Undamaged, Process!Reg, Theory!Reg, Process!CLK_BIT,
         Theory!CLK_BIT, Process!DATA_BIT, Theory!DATA_BIT

\* The constants of Cli satisfy what Session assumes of its own.
LEMMA SessionConstants ==
  /\ NoProc \notin {Main}
  /\ NoSave \notin Theory!Contents
  /\ Baseline \in Theory!Contents
  /\ {"drive", "restore"} \subseteq {"drive", "restore"}
  /\ MaxBusOps \in Nat /\ MaxSignals \in Nat /\ MaxFaults \in Nat /\ 0 \in Nat
  BY ProcessAssumption
     DEF Process!Contents, Theory!Contents, Process!Reg, Theory!Reg, Process!Bit,
         Theory!Bit, Process!CLK_BIT, Theory!CLK_BIT, Process!DATA_BIT,
         Theory!DATA_BIT, Process!DATA_PD_EN, Theory!DATA_PD_EN

\* The inductive invariant of Session holds of the process of Cli ...
LEMMA SessionStarts == Process!Init => Process!IInv
  BY SameInit, SameInv, SessionConstants, Theory!InitIInv

\* ... and is kept by each of its steps.
LEMMA SessionKeeps ==
  ASSUME Process!IInv, Process!Next \/ UNCHANGED process
  PROVE  Process!IInv'
<1>1. Theory!Next \/ UNCHANGED Theory!vars
  BY SameNext
     DEF process, Theory!vars, Theory!control, Theory!fds, Theory!data, Theory!setup,
         Theory!env
<1> QED
  BY <1>1, SameInv, SessionConstants, Theory!NextIInv


-----------------------------------------------------------------------------
(* The steps of the process                                                *)

\* What the tool does with its process is a step of Session.
LEMMA ToolStep == ASSUME CliNext PROVE Process!Next \/ UNCHANGED process
<1>1. CASE \E j \in Job : Run(j)
  <2>1. PICK j \in Job : Run(j)
    BY <1>1
  <2>2. UNCHANGED process \/ Process!Launch(Main)
    BY <2>1 DEF Run
  <2> QED
    BY <2>2 DEF Process!Next
<1>2. CASE Goes
  <2>1. \/ UNCHANGED process
        \/ Process!Enter(Main) \/ Process!Body(Main) \/ Process!Cleanup(Main)
        \/ Process!Exit(Main)
    BY <1>2 DEF Goes, DryProbeEnds, Entering, Calls, Drives, Answers, Raises, Returns,
                CleansUp, Leaves, Process!Body
  <2> QED
    BY <2>1 DEF Process!Next, Process!Run
<1>3. CASE DeviceStores
  BY <1>3 DEF DeviceStores
<1>4. CASE Interrupted
  BY <1>4 DEF Interrupted, Process!Next
<1> QED
  BY <1>1, <1>2, <1>3, <1>4 DEF CliNext

\* The fields of the process that its control consists of.
LEMMA Fields ==
  ASSUME Process!IInv
  PROVE  /\ pc \in [{Main} -> Process!RunningPc \cup {"idle"}]
         /\ fins \in [{Main} -> Nat]
         /\ block \in [{Main} -> {"none", "with", "stop"}]
         /\ exc \in [{Main} -> Process!Exception \cup {"none"}]
         /\ armed \in [{Main} -> 0..3]
         /\ saved \in [{Main} -> Process!Contents \cup {NoSave}]
BY DEF Process!IInv, Process!TypeOK, Process!NHandled

\* An exception in flight runs the innermost clause that is pending.
LEMMA Unwinding ==
  ASSUME Process!IInv, NEW e, Process!Unwind(Main, e)
  PROVE  /\ exc'[Main] = e
         /\ fins[Main] > 0 =>
              /\ pc'[Main] = "close_regs"
              /\ fins'[Main] = fins[Main] - 1 /\ block' = block
         /\ fins[Main] = 0 /\ block[Main] = "stop" => pc'[Main] = "body"
         /\ fins[Main] = 0 /\ block[Main] = "with" =>
              pc'[Main] = "release_en" /\ fins'[Main] = 1 /\ block'[Main] = "none"
         /\ fins[Main] = 0 /\ block[Main] = "none" => pc'[Main] = "leaving"
         /\ pc'[Main] \in {"close_regs", "body", "release_en", "leaving"}
<1>1. Main \in {Main}
  OBVIOUS
<1> QED
  BY <1>1, Fields DEF Process!Unwind, Process!Goto

\* A step from one place to another.
LEMMA Stepping ==
  ASSUME Process!IInv, NEW a, NEW b, Process!Step(Main, a, b)
  PROVE  /\ pc[Main] = a /\ pc'[Main] = b
         /\ fins' = fins /\ block' = block /\ exc' = exc
BY Fields DEF Process!Step, Process!Goto

\* A register access that fails leaves an error in flight.
LEMMA Failing ==
  ASSUME Process!IInv, Process!AccessFails(Main)
  PROVE  \E e \in {"RegError", "TypeError"} : Process!Unwind(Main, e)
BY DEF Process!AccessFails

\* A process that has ended is as it was before it began.
LEMMA Ending ==
  ASSUME Process!IInv, NEW e, Process!Gone(Main, e)
  PROVE  pc'[Main] = "idle" /\ exc'[Main] = e /\ armed'[Main] = 0
BY Fields DEF Process!Gone, Process!Goto

\* An __enter__ that fails leaves the process with its error in flight, and a
\* wrong card is its error only at the identity check.
LEMMA EnterEnds ==
  ASSUME Process!IInv, Process!Enter(Main)
  PROVE  /\ pc[Main] \in Process!EnterPc /\ exc[Main] = "none"
         /\ \/ pc'[Main] \in Process!EnterPc \cup {"body"} /\ exc'[Main] = "none"
            \/ /\ pc'[Main] = "leaving" /\ exc'[Main] # "none"
               /\ exc'[Main] = "IdentityError" => pc[Main] = "identity"
         /\ pc[Main] = "identity" => /\ pc'[Main] \in {"open_lock", "leaving"}
                                     /\ hw' = hw /\ armed' = armed
<1>1. pc[Main] \in Process!EnterPc
  BY DEF Process!Enter, Process!CheckIdentity, Process!OpenLock, Process!Flock,
         Process!OpenRegs, Process!Save, Process!SaveRead, Process!SaveDone, Process!Arm,
         Process!ClaimRead, Process!ClaimMask, Process!ClaimA, Process!ClaimEn,
         Process!EnterBlock, Process!EnterPc
<1>2. exc[Main] = "none" /\ fins[Main] = 0 /\ block[Main] = "none"
  BY <1>1 DEF Process!IInv, Process!Control
<1>3. ASSUME NEW e, Process!Unwind(Main, e)
      PROVE  pc'[Main] = "leaving" /\ exc'[Main] = e
  BY <1>2, <1>3, Unwinding
<1>4. ASSUME Process!AccessFails(Main)
      PROVE  pc'[Main] = "leaving" /\ exc'[Main] \in {"RegError", "TypeError"}
  BY <1>3, <1>4, Failing
<1>5. ASSUME NEW a, NEW b, Process!Step(Main, a, b)
      PROVE  pc'[Main] = b /\ exc'[Main] = "none"
  BY <1>2, <1>5, Stepping
<1>6. CASE Process!CheckIdentity(Main)
  <2>1. /\ pc[Main] = "identity" /\ hw' = hw /\ armed' = armed
        /\ Process!Step(Main, "identity", "open_lock") \/ Process!Unwind(Main, "IdentityError")
    BY <1>6 DEF Process!CheckIdentity, Process!setup
  <2> QED
    BY <1>1, <1>2, <1>3, <1>5, <2>1 DEF Process!EnterPc
<1>7. CASE Process!OpenLock(Main) \/ Process!Flock(Main) \/ Process!OpenRegs(Main)
  <2>1. /\ pc[Main] \in {"open_lock", "flock", "open_regs"}
        /\ \/ \E b \in {"flock", "open_regs", "save_mask"} : Process!Step(Main, pc[Main], b)
           \/ \E e \in {"PermissionError", "FileNotFoundError", "BlockingIOError",
                        "RegError"} : Process!Unwind(Main, e)
    BY <1>7 DEF Process!OpenLock, Process!Flock, Process!OpenRegs
  <2> QED
    BY <1>1, <1>2, <1>3, <1>5, <2>1 DEF Process!EnterPc
<1>8. CASE Process!Save(Main) \/ Process!Arm(Main) \/ Process!ClaimRead(Main)
  <2>1. /\ pc[Main] \in {"save_mask", "save_a", "save_en", "save_y", "arm", "claim_read"}
        /\ \/ \E b \in {"save_a", "save_en", "save_y", "arm", "claim_read", "claim_mask"} :
                Process!Step(Main, pc[Main], b)
           \/ Process!AccessFails(Main)
    BY <1>8 DEF Process!Save, Process!SaveRead, Process!SaveDone, Process!Arm,
                Process!ClaimRead, Process!Read32
  <2> QED
    BY <1>1, <1>2, <1>4, <1>5, <2>1 DEF Process!EnterPc
<1>9. CASE Process!ClaimMask(Main) \/ Process!ClaimA(Main) \/ Process!ClaimEn(Main)
  <2>1. /\ pc[Main] \in {"claim_mask", "claim_a", "claim_en"}
        /\ \/ \E b \in {"claim_a", "claim_en", "entered"} : Process!Step(Main, pc[Main], b)
           \/ Process!AccessFails(Main)
    BY <1>9 DEF Process!ClaimMask, Process!ClaimA, Process!ClaimEn, Process!Write32
  <2> QED
    BY <1>1, <1>2, <1>4, <1>5, <2>1 DEF Process!EnterPc
<1>10. CASE Process!EnterBlock(Main)
  <2>1. pc[Main] = "entered" /\ pc'[Main] = "body" /\ exc'[Main] = "none"
    BY <1>2, <1>10, Fields DEF Process!EnterBlock, Process!Goto
  <2> QED
    BY <1>1, <1>2, <2>1
<1> QED
  BY <1>6, <1>7, <1>8, <1>9, <1>10 DEF Process!Enter

\* Line updates and errors leave the with block only with an error in flight.
LEMMA DriveEnds ==
  ASSUME Process!IInv,
         \/ Process!LineRead(Main) \/ Process!LineWrite(Main)
         \/ Process!BeginTransaction(Main) \/ Process!EndTransaction(Main)
         \/ Process!CommandFails(Main)
  PROVE  /\ pc[Main] \in Process!BodyPc
         /\ exc'[Main] \in {exc[Main], "RegError", "TypeError", "CommandError"}
         /\ \/ pc'[Main] \in Process!BodyPc
            \/ pc'[Main] = "release_en" /\ exc'[Main] \in {"RegError", "TypeError", "CommandError"}
<1>1. pc[Main] \in Process!BodyPc
  BY DEF Process!LineRead, Process!LineWrite, Process!BeginTransaction,
         Process!EndTransaction, Process!CommandFails, Process!BodyPc
<1>2. fins[Main] = 0 /\ block[Main] \in {"with", "stop"}
  BY <1>1 DEF Process!IInv, Process!Control
<1>3. ASSUME NEW e, Process!Unwind(Main, e)
      PROVE  pc'[Main] \in {"body", "release_en"} /\ exc'[Main] = e
  BY <1>2, <1>3, Unwinding
<1>4. ASSUME Process!AccessFails(Main)
      PROVE  /\ pc'[Main] \in {"body", "release_en"}
             /\ exc'[Main] \in {"RegError", "TypeError"}
  BY <1>3, <1>4, Failing
<1>5. CASE Process!LineRead(Main) \/ Process!LineWrite(Main)
  <2>1. \/ \E b \in {"line", "body"} : Process!Step(Main, pc[Main], b)
        \/ Process!AccessFails(Main)
    BY <1>5 DEF Process!LineRead, Process!LineWrite, Process!Read32, Process!Write32
  <2> QED
    BY <1>1, <1>4, <2>1, Stepping DEF Process!BodyPc
<1>6. CASE Process!BeginTransaction(Main) \/ Process!EndTransaction(Main)
  BY <1>1, <1>6 DEF Process!BeginTransaction, Process!EndTransaction
<1>7. CASE Process!CommandFails(Main)
  BY <1>1, <1>3, <1>7 DEF Process!CommandFails, Process!BodyPc
<1> QED
  BY <1>5, <1>6, <1>7

\* The return of the with block runs the cleanup of __exit__.
LEMMA ReturnEnds ==
  ASSUME Process!IInv, Process!CommandEnds(Main)
  PROVE  /\ pc[Main] = "body" /\ pc'[Main] = "release_en"
         /\ exc'[Main] = exc[Main]
         /\ fins'[Main] = 1 /\ block'[Main] = "none"
<1>1. /\ pc[Main] = "body" /\ block[Main] = "with"
      /\ Process!Unwind(Main, exc[Main])
  BY DEF Process!CommandEnds
<1>2. fins[Main] = 0
  BY <1>1 DEF Process!IInv, Process!Control, Process!BodyPc
<1> QED
  BY <1>1, <1>2, Unwinding

\* A cleanup never makes an exception in flight go away, and when there is none
\* at its end the registers are as they were saved.
LEMMA CleanupEnds ==
  ASSUME Process!IInv, Process!Cleanup(Main)
  PROVE  /\ pc[Main] \in Process!CleanupPc
         /\ pc'[Main] \in Process!CleanupPc \cup {"body", "leaving"}
         /\ exc'[Main] \in {exc[Main], "RegError", "TypeError", "PadError", "OSError"}
         /\ exc'[Main] = "none" /\ LastCleanup => LastCleanup'
<1>1. pc[Main] \in Process!CleanupPc
  BY DEF Process!Cleanup, Process!ReleaseEn, Process!ReleaseRead, Process!ReleaseMask,
         Process!RestoreEn, Process!RestoreA, Process!RestoreMask, Process!CloseRegs,
         Process!ForgetRegs, Process!CloseLock, Process!CleanupPc, Process!ReleasePc,
         Process!RestorePc, Process!FinallyPc
<1>2. ASSUME NEW e, Process!Unwind(Main, e)
      PROVE  /\ pc'[Main] \in Process!CleanupPc \cup {"body", "leaving"}
             /\ exc'[Main] = e
  <2>1. pc'[Main] \in {"close_regs", "body", "release_en", "leaving"} /\ exc'[Main] = e
    BY <1>2, Unwinding
  <2> QED
    BY <2>1 DEF Process!CleanupPc, Process!ReleasePc, Process!FinallyPc
<1>3. ASSUME Process!AccessFails(Main)
      PROVE  /\ pc'[Main] \in Process!CleanupPc \cup {"body", "leaving"}
             /\ exc'[Main] \in {"RegError", "TypeError"}
  BY <1>2, <1>3, Failing
<1>4. ASSUME NEW a \in Process!ReleasePc \cup Process!RestorePc,
             NEW b \in Process!ReleasePc \cup Process!RestorePc, Process!Step(Main, a, b)
      PROVE  /\ pc'[Main] \in Process!CleanupPc /\ exc'[Main] = exc[Main]
             /\ LastCleanup => LastCleanup'
  <2>1. /\ pc[Main] = a /\ pc'[Main] = b
        /\ fins' = fins /\ block' = block /\ exc' = exc
    BY <1>4, Stepping
  <2> QED
    BY <1>4, <2>1 DEF LastCleanup, Process!CleanupPc, Process!ReleasePc,
                      Process!RestorePc, Process!FinallyPc
<1>5. ASSUME NEW a \in Process!FinallyPc, NEW b \in Process!FinallyPc,
             Process!Step(Main, a, b), lock' = lock
      PROVE  /\ pc'[Main] \in Process!CleanupPc /\ exc'[Main] = exc[Main]
             /\ LastCleanup => LastCleanup'
  <2>1. /\ pc[Main] = a /\ pc'[Main] = b
        /\ fins' = fins /\ block' = block /\ exc' = exc
    BY <1>5, Stepping
  <2> QED
    BY <1>5, <2>1 DEF LastCleanup, Process!CleanupPc, Process!ReleasePc,
                      Process!RestorePc, Process!FinallyPc
<1>6. CASE \/ Process!ReleaseEn(Main) \/ Process!ReleaseRead(Main)
           \/ Process!ReleaseMask(Main) \/ Process!RestoreA(Main)
  <2>1. \/ \E a, b \in Process!ReleasePc \cup Process!RestorePc : Process!Step(Main, a, b)
        \/ Process!AccessFails(Main)
    BY <1>6 DEF Process!ReleaseEn, Process!ReleaseRead, Process!ReleaseMask,
                Process!RestoreA, Process!Read32, Process!Write32, Process!ReleasePc,
                Process!RestorePc
  <2> QED
    BY <1>1, <1>3, <1>4, <2>1
<1>7. CASE Process!RestoreEn(Main)
  <2>1. \/ Process!Unwind(Main, "PadError")
        \/ Process!Step(Main, "restore_en", "restore_a")
        \/ Process!AccessFails(Main)
    BY <1>7 DEF Process!RestoreEn, Process!Write32
  <2>2. {"restore_en", "restore_a"} \subseteq Process!ReleasePc \cup Process!RestorePc
    BY DEF Process!RestorePc
  <2> QED
    BY <1>1, <1>2, <1>3, <1>4, <2>1, <2>2
<1>8. CASE Process!RestoreMask(Main)
  <2>1. CASE Process!AccessFails(Main)
    BY <1>1, <1>3, <2>1
  <2>2. CASE Process!EnterFinally(Main)
    <3>1. pc[Main] = "restore_mask" /\ lock' = lock
      BY <1>8 DEF Process!RestoreMask, Process!Write32, Process!fds
    <3>2. lock = Main
      BY <3>1 DEF Process!IInv, Process!Descriptors, Process!RestorePc
    <3>3. /\ pc'[Main] = "close_regs" /\ fins'[Main] = fins[Main] - 1
          /\ block' = block /\ exc' = exc
      BY <2>2, Fields DEF Process!EnterFinally, Process!Goto
    <3> QED
      BY <1>1, <3>1, <3>2, <3>3 DEF LastCleanup, Process!CleanupPc, Process!ReleasePc,
                                    Process!RestorePc, Process!FinallyPc
  <2> QED
    BY <1>8, <2>1, <2>2 DEF Process!RestoreMask, Process!Write32
<1>9. CASE Process!CloseRegs(Main) \/ Process!ForgetRegs(Main)
  <2>1. /\ lock' = lock
        /\ \/ \E a, b \in Process!FinallyPc : Process!Step(Main, a, b)
           \/ Process!Unwind(Main, "OSError")
    BY <1>9 DEF Process!CloseRegs, Process!ForgetRegs, Process!FinallyPc
  <2> QED
    BY <1>1, <1>2, <1>5, <2>1
<1>10. CASE Process!CloseLock(Main)
  <2>1. CASE Process!Unwind(Main, "OSError")
    BY <1>1, <1>2, <2>1
  <2>2. CASE Process!Unwind(Main, exc[Main])
    <3>1. pc'[Main] \in Process!CleanupPc \cup {"body", "leaving"} /\ exc'[Main] = exc[Main]
      BY <1>2, <2>2
    <3>2. ASSUME exc'[Main] = "none", LastCleanup
          PROVE  LastCleanup'
      <4>1. pc[Main] = "close_lock" /\ hw' = hw /\ saved' = saved
        BY <1>10 DEF Process!CloseLock, Process!data
      <4>2. fins[Main] = 0 /\ block[Main] = "none" /\ lock = Main
        BY <3>2, <4>1 DEF LastCleanup, Process!FinallyPc
      <4>3. hw = saved[Main]
        BY <3>1, <3>2, <4>1, <4>2
           DEF Process!IInv, Process!Tracks, Process!FinallyPc, Process!Honest
      <4>4. pc'[Main] = "leaving" /\ block'[Main] = "none"
        BY <2>2, <4>2, Unwinding, Fields DEF Process!Unwind
      <4> QED
        BY <4>1, <4>3, <4>4 DEF LastCleanup, Process!ReleasePc, Process!RestorePc,
                                Process!FinallyPc
    <3> QED
      BY <1>1, <3>1, <3>2
  <2> QED
    BY <1>10, <2>1, <2>2 DEF Process!CloseLock
<1> QED
  BY <1>6, <1>7, <1>8, <1>9, <1>10 DEF Process!Cleanup

\* A signal runs the handler or ends the process.
LEMMA SignalEnds ==
  ASSUME Process!IInv, NEW s \in Process!HANDLED, Process!Signal(Main, s)
  PROVE  /\ pc[Main] # "idle"
         /\ \/ /\ armed[Main] > 0
               /\ pc'[Main] = "release_en" /\ exc'[Main] = "SystemExit"
            \/ pc'[Main] = "idle" /\ armed'[Main] = 0 /\ hw' = hw
<1>1. s \in 1..3 /\ armed[Main] \in 0..3
  BY Fields DEF Process!HANDLED, Process!NHandled
<1>2. pc[Main] # "idle"
  BY DEF Process!Signal, Process!RunningPc, Process!EnterPc, Process!BodyPc,
         Process!ReleasePc, Process!RestorePc, Process!FinallyPc
<1>3. CASE s <= armed[Main] /\ Process!Handler(Main)
  <2>1. pc'[Main] = "release_en" /\ exc'[Main] = "SystemExit"
    BY <1>3, Fields DEF Process!Handler, Process!Goto
  <2> QED
    BY <1>1, <1>2, <1>3, <2>1
<1>4. CASE Process!Dies(Main)
  <2>1. Process!Gone(Main, "killed") /\ hw' = hw
    BY <1>4 DEF Process!Dies, Process!Gone
  <2> QED
    BY <1>2, <2>1, Ending
<1> QED
  BY <1>3, <1>4 DEF Process!Signal

\* The process ends where main() has its exit status.
LEMMA ExitEnds ==
  ASSUME Process!IInv, Process!Exit(Main)
  PROVE  pc[Main] = "leaving" /\ pc'[Main] = "idle" /\ armed'[Main] = 0 /\ hw' = hw
<1>1. pc[Main] = "leaving" /\ Process!Gone(Main, exc[Main])
  BY DEF Process!Exit
<1>2. hw' = hw
  BY <1>1 DEF Process!Gone
<1> QED
  BY <1>1, <1>2, Ending

\* A process that is started has its identity check before it.
LEMMA LaunchEnds ==
  ASSUME Process!IInv, Process!Launch(Main)
  PROVE  pc'[Main] = "identity" /\ exc'[Main] = "none" /\ armed' = armed /\ hw' = hw
BY Fields DEF Process!Launch, Process!Goto

-----------------------------------------------------------------------------
(* The command and its process                                             *)

\* Whether a command may return depends on the command alone.
LEMMA SameReturn ==
  ASSUME UNCHANGED <<job, done, call, result>>
  PROVE  AtReturn' <=> AtReturn
BY DEF AtReturn, InCall, HasNext

\* The command cannot tell a step of its process.
LEMMA CommandKept ==
  ASSUME UNCHANGED command
  PROVE  /\ UNCHANGED <<job, done, call, result, read, status, before, regs, present, got>>
         /\ AtReturn' <=> AtReturn
         /\ Untouched' <=> Untouched
<1>1. UNCHANGED <<job, done, call, result, read, status, before, regs, present, got>>
  BY DEF command, vars, device
<1> QED
  BY <1>1, SameReturn DEF Untouched

\* The process cannot tell a step of its command.
LEMMA ProcessKept ==
  ASSUME UNCHANGED process
  PROVE  /\ UNCHANGED <<hw, lock, pc, fins, block, exc, saved, armed>>
         /\ LastCleanup' <=> LastCleanup
<1>1. UNCHANGED <<hw, lock, pc, fins, block, exc, saved, armed>>
  BY DEF process
<1> QED
  BY <1>1 DEF LastCleanup

\* The places of a process do not overlap.
LEMMA Places ==
  /\ "idle" \notin Process!EnterPc \cup Process!BodyPc \cup Process!CleanupPc
  /\ "leaving" \notin Process!EnterPc \cup Process!BodyPc \cup Process!CleanupPc
  /\ Process!EnterPc \cap Process!BodyPc = {}
  /\ Process!EnterPc \cap Process!CleanupPc = {}
  /\ Process!BodyPc \cap Process!CleanupPc = {}
  /\ "identity" \in Process!EnterPc /\ "open_lock" \in Process!EnterPc
  /\ "body" \in Process!BodyPc /\ "release_en" \in Process!CleanupPc
BY DEF Process!EnterPc, Process!BodyPc, Process!CleanupPc, Process!ReleasePc,
       Process!RestorePc, Process!FinallyPc

\* The layers of the invariant that relate the command to its process.
Layers == Phases /\ Quiet /\ Refusal

\* A command is started.
LEMMA RunLayers ==
  ASSUME CliInv, NEW j \in Job, Run(j), UNCHANGED card
  PROVE  Layers'
<1>1. j # NoJob /\ job' = j /\ pc[Main] = "idle"
  BY JobAssumption DEF Run, Start
<1>2. Untouched' /\ call' = call
  BY <1>1 DEF CliInv, Phases, Untouched, Run, Start, device
<1>3. CASE DryProbe(j)
  <2>1. UNCHANGED <<hw, lock, pc, fins, block, exc, saved, armed>>
    BY <1>3, ProcessKept DEF Run
  <2> QED
    BY <1>1, <1>2, <1>3, <2>1, Places DEF CliInv, Layers, Phases, Quiet, Refusal
<1>4. CASE ~DryProbe(j)
  <2>1. pc'[Main] = "identity" /\ exc'[Main] = "none" /\ armed' = armed
    BY <1>4, LaunchEnds DEF Run, CliInv
  <2> QED
    BY <1>1, <1>2, <1>4, <2>1, Places DEF CliInv, Layers, Phases, Quiet, Refusal
<1> QED
  BY <1>3, <1>4

\* The process enters the session, or fails to.
LEMMA EnterLayers ==
  ASSUME CliInv, Entering, UNCHANGED card
  PROVE  Layers'
<1>1. UNCHANGED <<job, call>> /\ (Untouched' <=> Untouched)
  BY CommandKept DEF Entering
<1>2. /\ pc[Main] \in Process!EnterPc /\ exc[Main] = "none"
      /\ \/ pc'[Main] \in Process!EnterPc \cup {"body"} /\ exc'[Main] = "none"
         \/ pc'[Main] = "leaving" /\ exc'[Main] # "none"
      /\ pc[Main] = "identity" => /\ pc'[Main] \in {"open_lock", "leaving"}
                                  /\ armed' = armed
                                  /\ exc'[Main] = "none" => Accepts(card)
  BY EnterEnds DEF CliInv, Entering
<1>3. Phases'
  BY <1>1, <1>2, Places DEF CliInv, Phases
<1>4. Quiet'
  BY <1>2, Places DEF Quiet
<1>5. Refusal'
  <2>1. ASSUME ~Accepts(card)
        PROVE  /\ pc'[Main] \in {"idle", "identity", "leaving"}
               /\ armed'[Main] = 0 /\ call' = NoCall
    <3>1. pc[Main] = "identity" /\ armed[Main] = 0 /\ call = NoCall
      BY <1>2, <2>1, Places DEF CliInv, Refusal
    <3> QED
      BY <1>1, <1>2, <2>1, <3>1
  <2> QED
    BY <2>1 DEF Refusal
<1> QED
  BY <1>3, <1>4, <1>5 DEF Layers

\* The command makes a call, or a call comes back.
LEMMA CallLayers ==
  ASSUME CliInv, Calls \/ Answers, UNCHANGED card
  PROVE  Layers'
<1>1. pc[Main] = "body" /\ exc[Main] = "none"
  BY DEF Calls, Answers, InCommand
<1>2. UNCHANGED <<hw, lock, pc, fins, block, exc, saved, armed>>
  BY ProcessKept DEF Calls, Answers
<1>3. job' = job
  BY DEF Calls, Answers, Issue, Answer
<1> QED
  BY <1>1, <1>2, <1>3, Places DEF CliInv, Layers, Phases, Quiet, Refusal

\* The lines are driven, or the command is left by an exception or its return.
LEMMA BodyLayers ==
  ASSUME CliInv, Drives \/ Raises \/ Returns, UNCHANGED card
  PROVE  Layers'
<1>1. UNCHANGED <<job, call>> /\ (AtReturn' <=> AtReturn)
  BY CommandKept DEF Drives, Raises, Returns
<1>2. CASE Returns
  <2>1. /\ pc[Main] = "body" /\ pc'[Main] = "release_en" /\ exc'[Main] = exc[Main]
        /\ fins'[Main] = 1 /\ block'[Main] = "none"
    BY <1>2, ReturnEnds DEF Returns, CliInv
  <2>2. exc'[Main] = "none" => AtReturn'
    BY <1>1, <1>2, <2>1 DEF Returns
  <2>3. LastCleanup'
    BY <2>1 DEF LastCleanup, Process!FinallyPc
  <2> QED
    BY <1>1, <2>1, <2>2, <2>3, Places DEF CliInv, Layers, Phases, Quiet, Refusal
<1>3. CASE Drives \/ Raises
  <2>1. /\ pc[Main] \in Process!BodyPc
        /\ exc'[Main] \in {exc[Main], "RegError", "TypeError", "CommandError"}
        /\ \/ pc'[Main] \in Process!BodyPc
           \/ /\ pc'[Main] = "release_en"
              /\ exc'[Main] \in {"RegError", "TypeError", "CommandError"}
    BY <1>3, DriveEnds DEF Drives, Raises, CliInv
  <2> QED
    BY <1>1, <2>1, Places DEF CliInv, Layers, Phases, Quiet, Refusal
<1> QED
  BY <1>2, <1>3

\* A step of the cleanup.
LEMMA CleanupLayers ==
  ASSUME CliInv, CleansUp, UNCHANGED card
  PROVE  Layers'
<1>1. UNCHANGED <<job, call>> /\ (AtReturn' <=> AtReturn)
  BY CommandKept DEF CleansUp
<1>2. /\ pc[Main] \in Process!CleanupPc
      /\ pc'[Main] \in Process!CleanupPc \cup {"body", "leaving"}
      /\ exc'[Main] \in {exc[Main], "RegError", "TypeError", "PadError", "OSError"}
      /\ exc'[Main] = "none" /\ LastCleanup => LastCleanup'
  BY CleanupEnds DEF CleansUp, CliInv
<1> QED
  BY <1>1, <1>2, Places DEF CliInv, Layers, Phases, Quiet, Refusal

\* The process is gone, and its exit status known.
LEMMA EndLayers ==
  ASSUME CliInv, NEW code, Over(code), pc'[Main] = "idle", armed'[Main] = 0,
         UNCHANGED card
  PROVE  Layers'
<1>1. job' = NoJob /\ Untouched'
  BY DEF Over, EndSession, Untouched
<1> QED
  BY <1>1, Places DEF Layers, Phases, Quiet, Refusal, Untouched

\* What the device and a signal do.
LEMMA OutsideLayers ==
  ASSUME CliInv, DeviceStores \/ Interrupted, UNCHANGED card
  PROVE  Layers'
<1>1. CASE DeviceStores
  <2>1. /\ UNCHANGED <<job, done, call, result>>
        /\ UNCHANGED <<hw, lock, pc, fins, block, exc, saved, armed>>
        /\ LastCleanup' <=> LastCleanup
    BY <1>1, ProcessKept DEF DeviceStores, Stored, Store
  <2>2. AtReturn' <=> AtReturn
    BY <2>1, SameReturn
  <2> QED
    BY <2>1, <2>2 DEF CliInv, Layers, Phases, Quiet, Refusal, Untouched
<1>2. CASE Interrupted
  <2>1. PICK s \in Process!HANDLED : Process!Signal(Main, s)
    BY <1>2 DEF Interrupted
  <2>2. /\ pc[Main] # "idle"
        /\ \/ /\ armed[Main] > 0
              /\ pc'[Main] = "release_en" /\ exc'[Main] = "SystemExit"
           \/ pc'[Main] = "idle" /\ armed'[Main] = 0
    BY <2>1, SignalEnds DEF CliInv
  <2>3. CASE pc'[Main] = "idle"
    BY <1>2, <2>2, <2>3, EndLayers DEF Interrupted
  <2>4. CASE pc'[Main] = "release_en"
    <3>1. UNCHANGED <<job, call>>
      BY <1>2, <2>4, CommandKept DEF Interrupted
    <3>2. armed[Main] > 0 /\ exc'[Main] = "SystemExit"
      BY <2>2, <2>4
    <3> QED
      BY <2>2, <2>4, <3>1, <3>2, Places DEF CliInv, Layers, Phases, Quiet, Refusal
  <2> QED
    BY <2>2, <2>3, <2>4
<1> QED
  BY <1>1, <1>2

\* The invariant holds at the start ...
LEMMA InitCliInv == CliInit => CliInv
<1> SUFFICES ASSUME CliInit PROVE CliInv
  OBVIOUS
<1>1. Process!IInv
  BY SessionStarts DEF CliInit
<1>2. pc[Main] = "idle" /\ exc[Main] = "none" /\ armed[Main] = 0
  BY DEF CliInit, Process!Init
<1>3. job = NoJob /\ Untouched
  BY DEF CliInit, CommandInit, Init, Untouched
<1> QED
  BY <1>1, <1>2, <1>3, Places DEF CliInv, Phases, Quiet, Refusal, Untouched

\* ... and every step keeps it.
LEMMA NextCliInv == CliInv /\ [CliNext]_system => CliInv'
<1> SUFFICES ASSUME CliInv, [CliNext]_system PROVE CliInv'
  OBVIOUS
<1>1. CASE CliNext
  <2>1. UNCHANGED card
    BY <1>1 DEF CliNext
  <2>2. Process!IInv'
    BY <1>1, ToolStep, SessionKeeps DEF CliInv
  <2>3. CASE \E j \in Job : Run(j)
    BY <2>1, <2>2, <2>3, RunLayers DEF CliInv, Layers
  <2>4. CASE DryProbeEnds
    <3>1. job # NoJob /\ DryProbe(job) /\ Over(EXIT_OK)
          /\ UNCHANGED <<hw, lock, pc, fins, block, exc, saved, armed>>
      BY <2>4, ProcessKept DEF DryProbeEnds
    <3>2. pc'[Main] = "idle" /\ job' = NoJob /\ Untouched'
      BY <3>1 DEF CliInv, Phases, Over, EndSession, Untouched
    <3>3. Layers'
      BY <2>1, <3>1, <3>2, Places DEF CliInv, Layers, Phases, Quiet, Refusal, Untouched
    <3> QED
      BY <2>2, <3>3 DEF CliInv, Layers
  <2>5. CASE Entering
    BY <2>1, <2>2, <2>5, EnterLayers DEF CliInv, Layers
  <2>6. CASE Calls \/ Answers
    BY <2>1, <2>2, <2>6, CallLayers DEF CliInv, Layers
  <2>7. CASE Drives \/ Raises \/ Returns
    BY <2>1, <2>2, <2>7, BodyLayers DEF CliInv, Layers
  <2>8. CASE CleansUp
    BY <2>1, <2>2, <2>8, CleanupLayers DEF CliInv, Layers
  <2>9. CASE Leaves
    <3>1. pc'[Main] = "idle" /\ armed'[Main] = 0
      BY <2>9, ExitEnds DEF Leaves, CliInv
    <3> QED
      BY <2>1, <2>2, <2>9, <3>1, EndLayers DEF CliInv, Layers, Leaves
  <2>10. CASE DeviceStores \/ Interrupted
    BY <2>1, <2>2, <2>10, OutsideLayers DEF CliInv, Layers
  <2> QED
    BY <1>1, <2>3, <2>4, <2>5, <2>6, <2>7, <2>8, <2>9, <2>10 DEF CliNext, Goes
<1>2. CASE UNCHANGED system
  <2>1. UNCHANGED command /\ UNCHANGED process /\ UNCHANGED card
    BY <1>2 DEF system
  <2>2. Process!IInv'
    BY <2>1, SessionKeeps DEF CliInv
  <2>3. /\ UNCHANGED <<job, call, hw, lock, pc, fins, block, exc, saved, armed>>
        /\ AtReturn' <=> AtReturn
        /\ Untouched' <=> Untouched
        /\ LastCleanup' <=> LastCleanup
    BY <2>1, CommandKept, ProcessKept
  <2> QED
    BY <2>1, <2>2, <2>3 DEF CliInv, Phases, Quiet, Refusal
<1> QED
  BY <1>1, <1>2

-----------------------------------------------------------------------------
(* Theorems                                                                *)

\* The invariant holds of every run of the tool, interrupted or not.
THEOREM CliInvHolds == CliSpec => []CliInv
<1>1. CliSpec => CliInit /\ [][CliNext]_system
  BY PTL DEF CliSpec
<1> QED
  BY <1>1, InitCliInv, NextCliInv, PTL

\* On a card that the identity check does not know no step of the tool writes a
\* register of the pads or calls a device, whatever the command, the signals
\* and the faults.
THEOREM ForeignCardIsSafe == CliSpec => ForeignCardUntouched
<1>1. ASSUME CliInv, CliNext, \E name \in EXPECTED : card[name] # "expected"
      PROVE  hw' = hw /\ call' = NoCall
  <2>1. /\ pc[Main] \in {"idle", "identity", "leaving"}
        /\ armed[Main] = 0 /\ call = NoCall
    BY <1>1 DEF CliInv, Refusal, Accepts
  <2>2. CASE \E j \in Job : Run(j)
    <3>1. PICK j \in Job : Run(j)
      BY <2>2
    <3>2. call' = call
      BY <3>1 DEF Run, Start, device
    <3>3. hw' = hw
      BY <1>1, <3>1, LaunchEnds, ProcessKept DEF Run, CliInv
    <3> QED
      BY <2>1, <3>2, <3>3
  <2>3. CASE DryProbeEnds \/ Leaves
    <3>1. hw' = hw
      BY <1>1, <2>3, ExitEnds, ProcessKept DEF DryProbeEnds, Leaves, CliInv
    <3> QED
      BY <2>3, <3>1 DEF DryProbeEnds, Leaves, Over, EndSession
  <2>4. CASE Entering
    BY <1>1, <2>1, <2>4, EnterEnds, CommandKept, Places DEF Entering, CliInv
  <2>5. CASE Calls \/ Answers
    BY <2>1, <2>5 DEF Calls, Answers, InCommand
  <2>6. CASE Drives \/ Raises \/ Returns \/ CleansUp
    <3>1. pc[Main] \in Process!BodyPc \cup Process!CleanupPc
      BY <1>1, <2>6, DriveEnds, ReturnEnds, CleanupEnds, Places
         DEF Drives, Raises, Returns, CleansUp, CliInv
    <3> QED
      BY <2>1, <3>1, Places
  <2>7. CASE DeviceStores
    BY <2>1, <2>7, ProcessKept DEF DeviceStores, Stored, Store
  <2>8. CASE Interrupted
    <3>1. PICK s \in Process!HANDLED : Process!Signal(Main, s)
      BY <2>8 DEF Interrupted
    <3>2. pc'[Main] = "idle" /\ hw' = hw
      BY <1>1, <2>1, <3>1, SignalEnds DEF CliInv
    <3> QED
      BY <2>8, <3>2 DEF Interrupted, Over, EndSession
  <2> QED
    BY <1>1, <2>2, <2>3, <2>4, <2>5, <2>6, <2>7, <2>8 DEF CliNext, Goes
<1>2. CliInv /\ [CliNext]_system =>
        [(\E name \in EXPECTED : card[name] # "expected")
           => hw' = hw /\ call' = NoCall]_system
  BY <1>1
<1>3. CliSpec => [][CliNext]_system
  BY PTL DEF CliSpec
<1> QED
  BY <1>2, <1>3, CliInvHolds, PTL DEF ForeignCardUntouched

\* When the tool exits with success or with a verdict of the probe, the
\* registers are as its session found them.
THEOREM VerdictsAreClean == CliSpec => VerdictMeansRestored
<1>1. ASSUME CliInv, Leaves, status' \in {EXIT_OK, EXIT_LINES_LOW, EXIT_NACK}
      PROVE  hw = saved[Main]
  <2>1. pc[Main] = "leaving"
    BY <1>1, ExitEnds DEF Leaves, CliInv
  <2>2. status' = StatusOf(exc[Main])
    BY <1>1 DEF Leaves, Over
  <2>3. exc[Main] = "none"
    BY <1>1, <2>2 DEF StatusOf, EXIT_OK, EXIT_LINES_LOW, EXIT_NACK, EXIT_IDENTITY,
                      EXIT_ACCESS, SIGNALLED, FAILURE
  <2> QED
    BY <1>1, <2>1, <2>3 DEF CliInv, Quiet, LastCleanup
<1>2. CliInv /\ [CliNext]_system =>
        [Leaves /\ ~DryProbe(job) /\ status' \in {EXIT_OK, EXIT_LINES_LOW, EXIT_NACK}
           => hw = saved[Main]]_system
  BY <1>1
<1>3. CliSpec => [][CliNext]_system
  BY PTL DEF CliSpec
<1> QED
  BY <1>2, <1>3, CliInvHolds, PTL DEF VerdictMeansRestored

\* The status at the end of a process is one that the command may end with.
LEMMA LeaveEnds ==
  ASSUME CliInv, Leaves
  PROVE  CommandNext
<1>1. pc[Main] = "leaving" /\ Over(StatusOf(exc[Main]))
  BY ExitEnds DEF Leaves, CliInv
<1>2. job # NoJob /\ ~DryProbe(job)
  BY <1>1 DEF CliInv, Phases
<1>3. ASSUME StatusOf(exc[Main]) \in {FAILURE, EXIT_ACCESS, SIGNALLED}
      PROVE  Signal
  BY <1>1, <1>2, <1>3 DEF Signal, Ends
<1>4. CASE exc[Main] = "none"
  <2>1. AtReturn
    BY <1>1, <1>4 DEF CliInv, Quiet
  <2>2. StatusOf(exc[Main]) = Returned
    BY <1>4 DEF StatusOf
  <2>3. CASE Unusable(job)
    <3>1. result \in {"none", "ok"}
      BY <2>1, <2>3 DEF AtReturn, Unusable
    <3>2. Returned = FAILURE
      BY <2>3, <3>1 DEF Returned
    <3> QED
      BY <1>3, <2>2, <3>2 DEF CommandNext
  <2>4. CASE ~Unusable(job) /\ result = "nack"
    <3>1. Returned = EXIT_NACK
      BY <2>4 DEF Returned
    <3>2. call = NoCall /\ job.name = "probe"
      BY <2>1, <2>4 DEF AtReturn, InCall
    <3> QED
      BY <1>1, <1>2, <2>2, <2>4, <3>1, <3>2 DEF CommandNext, CallFailed, Ends
  <2>5. CASE ~Unusable(job) /\ result = "lines_low"
    <3>1. Returned = EXIT_LINES_LOW
      BY <2>5 DEF Returned
    <3>2. call = NoCall
      BY <2>1 DEF AtReturn, InCall
    <3> QED
      BY <1>1, <1>2, <2>2, <2>5, <3>1, <3>2 DEF CommandNext, CallFailed, Ends
  <2>6. CASE ~Unusable(job) /\ result \notin {"nack", "lines_low"}
    <3>1. Returned = EXIT_OK
      BY <2>6 DEF Returned
    <3>2. call = NoCall /\ result \in {"none", "ok"} /\ ~HasNext
      BY <2>1, <2>6 DEF AtReturn, InCall
    <3> QED
      BY <1>1, <1>2, <2>2, <2>6, <3>1, <3>2 DEF CommandNext, Finish, Ends
  <2> QED
    BY <2>3, <2>4, <2>5, <2>6
<1>5. CASE exc[Main] = "IdentityError"
  <2>1. Untouched /\ StatusOf(exc[Main]) = EXIT_IDENTITY
    BY <1>5 DEF CliInv, Phases, StatusOf
  <2> QED
    BY <1>1, <1>2, <2>1 DEF CommandNext, EntryFails, Ends, Untouched
<1>6. CASE exc[Main] \notin {"none", "IdentityError"}
  <2>1. StatusOf(exc[Main]) \in {FAILURE, EXIT_ACCESS, SIGNALLED}
    BY <1>6 DEF StatusOf
  <2> QED
    BY <1>3, <2>1 DEF CommandNext
<1> QED
  BY <1>4, <1>5, <1>6

\* The tool carries its commands out as Commands says they are carried out:
\* every step of the process is a step of the command or none.
THEOREM ToolImplementsCommands == CliSpec => RefinesCommands
<1>1. CliInit => CommandInit
  BY DEF CliInit
<1>2. ASSUME CliInv, CliNext
      PROVE  CommandNext \/ UNCHANGED vars
  <2>1. CASE \E j \in Job : Run(j)
    BY <2>1 DEF Run, CommandNext
  <2>2. CASE DryProbeEnds
    <3>1. /\ job # NoJob /\ job.name = "probe" /\ job.dry
          /\ Over(EXIT_OK) /\ Untouched
      BY <1>2, <2>2 DEF DryProbeEnds, DryProbe, CliInv, Phases
    <3>2. Ops(job) = << >> /\ ~Unusable(job)
      BY <3>1 DEF Ops, Unusable
    <3>3. ~HasNext
      BY <3>1, <3>2 DEF HasNext, Untouched
    <3> QED
      BY <3>1, <3>2, <3>3 DEF CommandNext, Finish, Ends, Untouched
  <2>3. CASE Entering \/ Drives \/ Raises \/ Returns \/ CleansUp
    BY <2>3 DEF Entering, Drives, Raises, Returns, CleansUp, command
  <2>4. CASE Calls \/ Answers
    BY <2>4 DEF Calls, Answers, CommandNext
  <2>5. CASE Leaves
    BY <1>2, <2>5, LeaveEnds
  <2>6. CASE DeviceStores
    BY <2>6 DEF DeviceStores, CommandNext
  <2>7. CASE Interrupted
    <3>1. PICK s \in Process!HANDLED : Process!Signal(Main, s)
      BY <2>7 DEF Interrupted
    <3>2. job # NoJob
      BY <1>2, <3>1, SignalEnds DEF CliInv, Phases
    <3> QED
      BY <2>7, <3>2 DEF Interrupted, CommandNext, Signal, Ends, command
  <2> QED
    BY <1>2, <2>1, <2>2, <2>3, <2>4, <2>5, <2>6, <2>7 DEF CliNext, Goes
<1>3. ASSUME UNCHANGED system
      PROVE  UNCHANGED vars
  BY <1>3 DEF system, command
<1>4. CliInv /\ [CliNext]_system => [CommandNext]_vars
  BY <1>2, <1>3
<1>5. CliSpec => CliInit /\ [][CliNext]_system
  BY PTL DEF CliSpec
<1> QED
  BY <1>1, <1>4, <1>5, CliInvHolds, PTL DEF RefinesCommands, CommandSpec
=============================================================================
