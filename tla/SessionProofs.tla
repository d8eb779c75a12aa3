-------------------------- MODULE SessionProofs --------------------------
(***************************************************************************)
(* Machine-checked proofs about Session, for every set of processes, every *)
(* baseline and every bound.                                               *)
(***************************************************************************)
EXTENDS SessionInvariant, TLAPS

\* What an exception that leaves an activity does to the control state.
LEMMA UnwindType ==
  ASSUME TypeOK, NEW p \in Proc, NEW e \in Exception \cup {"none"}, Unwind(p, e)
  PROVE  /\ pc' \in [Proc -> RunningPc \cup {"idle"}]
         /\ fins' \in [Proc -> Nat]
         /\ block' \in [Proc -> {"none", "with", "stop"}]
         /\ exc' \in [Proc -> Exception \cup {"none"}]
BY DEF TypeOK, Unwind, Goto, RunningPc, BodyPc, ReleasePc, FinallyPc

\* The process that is gone is back in its initial state.
LEMMA GoneType ==
  ASSUME TypeOK, NEW p \in Proc, NEW e \in Exception \cup {"none"}, Gone(p, e),
         lost' \in BOOLEAN, kills' \in 0..MaxKills
  PROVE  TypeOK'
BY NoSaveAssumption, BoundAssumption
   DEF TypeOK, Gone, Goto, NoDict, Contents, NHandled

\* A step to another place keeps the types of what Step assigns.
LEMMA StepType ==
  ASSUME TypeOK, NEW p \in Proc, NEW a, NEW b \in RunningPc, Step(p, a, b)
  PROVE  /\ pc' \in [Proc -> RunningPc \cup {"idle"}]
         /\ UNCHANGED <<fins, block, exc>>
BY DEF TypeOK, Step, Goto

\* So does a register access that raises.
LEMMA AccessFailsType ==
  ASSUME TypeOK, NEW p \in Proc, AccessFails(p)
  PROVE  /\ pc' \in [Proc -> RunningPc \cup {"idle"}]
         /\ fins' \in [Proc -> Nat]
         /\ block' \in [Proc -> {"none", "with", "stop"}]
         /\ exc' \in [Proc -> Exception \cup {"none"}]
         /\ faults' \in 0..MaxFaults
         /\ lost' \in BOOLEAN
<1>1. \E e \in Exception : Unwind(p, e)
  BY DEF AccessFails, Exception
<1>2. faults' \in 0..MaxFaults
  BY BoundAssumption DEF AccessFails, TypeOK
<1>3. lost' \in BOOLEAN
  BY Zenon DEF AccessFails, TypeOK
<1> QED
  BY <1>1, <1>2, <1>3, UnwindType

\* write32 keeps every type, whether the write succeeds or raises.
LEMMA Write32Type ==
  ASSUME TypeOK, NEW p \in Proc, NEW reg \in Reg, NEW value \in SUBSET Bit,
         NEW a, NEW b \in RunningPc,
         Write32(p, reg, value, Step(p, a, b))
  PROVE  TypeOK'
<1>1. hw' \in Contents
  BY DEF Write32, TypeOK, Contents
<1>2. CASE Step(p, a, b) /\ UNCHANGED <<faults, lost>>
  BY <1>1, <1>2, StepType DEF TypeOK, Write32, fds, data, setup
<1>3. CASE AccessFails(p)
  BY <1>1, <1>3, AccessFailsType DEF TypeOK, Write32, fds, data, setup
<1> QED
  BY <1>2, <1>3 DEF Write32

\* read32 keeps every type, whether the read succeeds or raises.
LEMMA Read32Type ==
  ASSUME TypeOK, NEW p \in Proc, NEW value \in SUBSET Bit,
         NEW a, NEW b \in RunningPc, ops' \in [Proc -> 0..MaxBusOps],
         Read32(p, value, Step(p, a, b))
  PROVE  TypeOK'
<1>1. tmp' \in [Proc -> SUBSET Bit]
  BY DEF Read32, TypeOK
<1>2. CASE Step(p, a, b) /\ UNCHANGED <<faults, lost>>
  BY <1>1, <1>2, StepType DEF TypeOK, Read32, fds, setup
<1>3. CASE AccessFails(p)
  BY <1>1, <1>3, AccessFailsType DEF TypeOK, Read32, fds, setup
<1> QED
  BY <1>2, <1>3 DEF Read32

\* Every action keeps the types.
LEMMA TypeStep ==
  ASSUME TypeOK, Control, Descriptors, Next
  PROVE  TypeOK'
<1> USE DEF RunningPc, EnterPc, BodyPc, ReleasePc, RestorePc, FinallyPc, Exception
<1>1. ASSUME NEW p \in Proc, Launch(p) PROVE TypeOK'
  BY <1>1, CommandAssumption DEF TypeOK, Launch, Goto, fds, data, env
<1>2. ASSUME NEW p \in Proc, CheckIdentity(p) PROVE TypeOK'
  BY <1>2, UnwindType, StepType
     DEF TypeOK, CheckIdentity, fds, data, setup, env
<1>3. ASSUME NEW p \in Proc, OpenLock(p) PROVE TypeOK'
  BY <1>3, UnwindType, StepType DEF TypeOK, OpenLock, data, setup, env
<1>4. ASSUME NEW p \in Proc, Flock(p) PROVE TypeOK'
  BY <1>4, UnwindType, StepType DEF TypeOK, Flock, data, setup, env
<1>5. ASSUME NEW p \in Proc, OpenRegs(p) PROVE TypeOK'
  BY <1>5, UnwindType, StepType DEF TypeOK, OpenRegs, data, setup, env
<1>6. ASSUME NEW p \in Proc, NEW from \in RunningPc, NEW reg \in Reg,
             NEW to \in RunningPc, SaveRead(p, from, reg, to)
      PROVE  TypeOK'
  <2>1. dict' \in [Proc -> Contents]
    <3>1. hw[reg] \in SUBSET Bit /\ dict[p] \in Contents
      BY DEF TypeOK, Contents
    <3>2. [dict[p] EXCEPT ![reg] = hw[reg]] \in Contents
      BY <3>1 DEF Contents
    <3> QED
      BY <1>6, <3>2 DEF SaveRead, TypeOK
  <2>2. CASE AccessFails(p)
    BY <1>6, <2>1, <2>2, AccessFailsType DEF TypeOK, SaveRead, fds, setup
  <2>3. CASE Step(p, from, to) /\ UNCHANGED <<faults, lost>>
    BY <1>6, <2>1, <2>3, StepType DEF TypeOK, SaveRead, fds, setup
  <2> QED
    BY <1>6, <2>2, <2>3 DEF SaveRead
<1>7. ASSUME NEW p \in Proc, SaveDone(p) PROVE TypeOK'
  <2>1. saved' \in [Proc -> Contents \cup {NoSave}]
    BY <1>7 DEF SaveDone, TypeOK
  <2>2. CASE AccessFails(p)
    BY <1>7, <2>1, <2>2, AccessFailsType DEF TypeOK, SaveDone, fds, setup
  <2>3. CASE Step(p, "save_y", "arm") /\ UNCHANGED <<faults, lost>>
    BY <1>7, <2>1, <2>3, StepType DEF TypeOK, SaveDone, fds, setup
  <2> QED
    BY <1>7, <2>2, <2>3 DEF SaveDone
<1>8. ASSUME NEW p \in Proc, Save(p) PROVE TypeOK'
  BY <1>6, <1>7, <1>8 DEF Save, Reg
<1>9. ASSUME NEW p \in Proc, Arm(p) PROVE TypeOK'
  BY <1>9, StepType DEF TypeOK, Arm, Control, NHandled, fds, data, env
<1>10. ASSUME NEW p \in Proc, ClaimRead(p) PROVE TypeOK'
  <2>1. Claimed(hw["MASK"]) \in SUBSET Bit
    BY DEF TypeOK, Contents, Claimed, Line, Bit, Reg
  <2> QED
    BY <1>10, <2>1, Read32Type DEF ClaimRead, TypeOK
<1>11. ASSUME NEW p \in Proc, ClaimMask(p) PROVE TypeOK'
  BY <1>11, Write32Type DEF ClaimMask, TypeOK, Reg
<1>12. ASSUME NEW p \in Proc, ClaimA(p) PROVE TypeOK'
  BY <1>12, Write32Type DEF ClaimA, TypeOK, Reg
<1>13. ASSUME NEW p \in Proc, ClaimEn(p) PROVE TypeOK'
  BY <1>13, Write32Type DEF ClaimEn, TypeOK, Reg
<1>14. ASSUME NEW p \in Proc, EnterBlock(p) PROVE TypeOK'
  BY <1>14 DEF TypeOK, EnterBlock, Goto, fds, data, setup, env
<1>15. ASSUME NEW p \in Proc, LineRead(p) PROVE TypeOK'
  <2>1. ops' \in [Proc -> 0..MaxBusOps]
    BY <1>15, BoundAssumption DEF LineRead, TypeOK
  <2>2. \A bit \in Line, high \in BOOLEAN : LineSet(hw["EN"], bit, high) \in SUBSET Bit
    BY DEF TypeOK, Contents, LineSet, Line, Bit, Reg
  <2> QED
    BY <1>15, <2>1, <2>2, Read32Type DEF LineRead
<1>16. ASSUME NEW p \in Proc, LineWrite(p) PROVE TypeOK'
  BY <1>16, Write32Type DEF LineWrite, TypeOK, Reg
<1>17. ASSUME NEW p \in Proc, BeginTransaction(p) \/ EndTransaction(p) PROVE TypeOK'
  BY <1>17, BoundAssumption
     DEF TypeOK, BeginTransaction, EndTransaction, fds, data, setup, env
<1>18. ASSUME NEW p \in Proc, CommandFails(p) \/ CommandEnds(p) PROVE TypeOK'
  <2>1. exc[p] \in Exception \cup {"none"}
    BY DEF TypeOK
  <2>2. CASE CommandFails(p)
    BY <1>18, <2>1, <2>2, UnwindType DEF TypeOK, CommandFails, fds, data, setup, env
  <2>3. CASE CommandEnds(p)
    BY <1>18, <2>1, <2>3, UnwindType DEF TypeOK, CommandEnds, fds, data, setup, env
  <2> QED
    BY <1>18, <2>2, <2>3
<1>19. ASSUME NEW p \in Proc, ReleaseEn(p) PROVE TypeOK'
  BY <1>19, Write32Type DEF ReleaseEn, TypeOK, Reg
<1>20. ASSUME NEW p \in Proc, ReleaseRead(p) PROVE TypeOK'
  <2>1. Released(hw["MASK"]) \in SUBSET Bit
    BY DEF TypeOK, Contents, Released, Reg
  <2> QED
    BY <1>20, <2>1, Read32Type DEF ReleaseRead, TypeOK
<1>21. ASSUME NEW p \in Proc, ReleaseMask(p) PROVE TypeOK'
  BY <1>21, Write32Type DEF ReleaseMask, TypeOK, Reg
<1>22. ASSUME NEW p \in Proc, RestoreEn(p) PROVE TypeOK'
  <2>1. CASE saved[p] = NoSave
    BY <1>22, <2>1, UnwindType DEF RestoreEn, TypeOK, fds, data, setup, env
  <2>2. CASE saved[p] # NoSave
    BY <1>22, <2>2, Write32Type DEF RestoreEn, TypeOK, Contents, Reg
  <2> QED
    BY <2>1, <2>2
<1>23. ASSUME NEW p \in Proc, RestoreA(p) PROVE TypeOK'
  <2>1. saved[p]["A"] \in SUBSET Bit
    BY <1>23 DEF RestoreA, Descriptors, CleanupPc, TypeOK, Contents, Reg
  <2> QED
    BY <1>23, <2>1, Write32Type DEF RestoreA, Reg
<1>24. ASSUME NEW p \in Proc, RestoreMask(p) PROVE TypeOK'
  <2>1. saved[p]["MASK"] \in SUBSET Bit
    BY <1>24 DEF RestoreMask, Descriptors, CleanupPc, TypeOK, Contents, Reg
  <2>2. hw' \in Contents
    BY <1>24, <2>1 DEF RestoreMask, Write32, TypeOK, Contents
  <2>3. CASE AccessFails(p)
    BY <1>24, <2>2, <2>3, AccessFailsType
       DEF TypeOK, RestoreMask, Write32, fds, data, setup
  <2>4. CASE EnterFinally(p) /\ UNCHANGED <<faults, lost>>
    <3>1. fins' \in [Proc -> Nat]
      BY <1>24, <2>4 DEF EnterFinally, RestoreMask, Control, TypeOK
    <3> QED
      BY <1>24, <2>2, <2>4, <3>1
         DEF TypeOK, RestoreMask, Write32, EnterFinally, Goto, fds, data, setup
  <2> QED
    BY <1>24, <2>3, <2>4 DEF RestoreMask, Write32
<1>25. ASSUME NEW p \in Proc, CloseRegs(p) \/ ForgetRegs(p) PROVE TypeOK'
  <2>1. CASE CloseRegs(p)
    BY <1>25, <2>1, UnwindType, StepType
       DEF TypeOK, CloseRegs, data, setup, env
  <2>2. CASE ForgetRegs(p)
    BY <1>25, <2>2, UnwindType, StepType
       DEF TypeOK, ForgetRegs, data, setup, env
  <2> QED
    BY <1>25, <2>1, <2>2
<1>26. ASSUME NEW p \in Proc, CloseLock(p) PROVE TypeOK'
  <2>1. exc[p] \in Exception \cup {"none"}
    BY DEF TypeOK
  <2> QED
    BY <1>26, <2>1, UnwindType DEF TypeOK, CloseLock, data, setup, env
<1>27. ASSUME NEW p \in Proc, Exit(p) PROVE TypeOK'
  BY <1>27, GoneType DEF TypeOK, Exit
<1>28. ASSUME NEW p \in Proc, Dies(p), kills' \in 0..MaxKills PROVE TypeOK'
  <2>1. lost' \in BOOLEAN
    BY <1>28, Zenon DEF Dies, TypeOK
  <2> QED
    BY <1>28, <2>1, GoneType DEF Dies
<1>29. ASSUME NEW p \in Proc, NEW s \in HANDLED, Signal(p, s) PROVE TypeOK'
  <2>1. CASE Dies(p)
    BY <1>28, <1>29, <2>1 DEF Signal, TypeOK
  <2>2. CASE Handler(p) /\ sigs' = [sigs EXCEPT ![p] = @ + 1] /\ UNCHANGED lost
    BY <1>29, <2>2, BoundAssumption
       DEF Signal, TypeOK, Handler, Goto, fds, data, setup
  <2> QED
    BY <1>29, <2>1, <2>2 DEF Signal
<1>30. ASSUME NEW p \in Proc, Kill(p) PROVE TypeOK'
  BY <1>28, <1>30, BoundAssumption DEF TypeOK, Kill
<1> QED
  BY <1>1, <1>2, <1>3, <1>4, <1>5, <1>8, <1>9, <1>10, <1>11, <1>12, <1>13, <1>14,
     <1>15, <1>16, <1>17, <1>18, <1>19, <1>20, <1>21, <1>22, <1>23, <1>24, <1>25,
     <1>26, <1>27, <1>29, <1>30
     DEF Next, Run, Enter, Body, Cleanup

\* An exception in __enter__ leaves the program: nothing is pending yet.
LEMMA UnwindEnter ==
  ASSUME TypeOK, Control, NEW p \in Proc, NEW e, pc[p] \in EnterPc, Unwind(p, e)
  PROVE  /\ pc' = [pc EXCEPT ![p] = "leaving"]
         /\ exc' = [exc EXCEPT ![p] = e]
         /\ UNCHANGED <<fins, block>>
BY DEF TypeOK, Control, Unwind, Goto

\* Exceptions and calls leave the pending clauses as Python has them.
LEMMA ControlStep ==
  ASSUME TypeOK, Control, Next
  PROVE  Control'
<1> USE DEF RunningPc, EnterPc, BodyPc, ReleasePc, RestorePc, FinallyPc, CleanupPc,
            OpenedPc, UnarmedPc, TypeOK, Control, Step, Goto, Unwind
<1>1. ASSUME NEW p \in Proc, Launch(p) PROVE Control'
  BY <1>1 DEF Launch, fds, data, env
<1>2. ASSUME NEW p \in Proc, CheckIdentity(p) PROVE Control'
  BY <1>2 DEF CheckIdentity, fds, data, setup, env
<1>3. ASSUME NEW p \in Proc, OpenLock(p) PROVE Control'
  BY <1>3 DEF OpenLock, data, setup, env
<1>4. ASSUME NEW p \in Proc, Flock(p) PROVE Control'
  BY <1>4 DEF Flock, data, setup, env
<1>5. ASSUME NEW p \in Proc, OpenRegs(p) PROVE Control'
  BY <1>5 DEF OpenRegs, data, setup, env
<1>6. ASSUME NEW p \in Proc, Save(p) PROVE Control'
  <2> HIDE DEF Unwind
  <2>1. ASSUME NEW from \in {"save_mask", "save_a", "save_en"}, NEW reg,
               NEW to \in {"save_a", "save_en", "save_y"}, SaveRead(p, from, reg, to)
        PROVE  Control'
    <3>1. CASE Step(p, from, to)
      BY <2>1, <3>1 DEF SaveRead, fds, setup
    <3>2. CASE \E e \in Exception : Unwind(p, e)
      BY <2>1, <3>2, UnwindEnter DEF SaveRead, fds, setup
    <3> QED
      BY <2>1, <3>1, <3>2 DEF SaveRead, AccessFails, Exception
  <2>2. ASSUME SaveDone(p) PROVE Control'
    <3>1. CASE Step(p, "save_y", "arm") /\ saved' = [saved EXCEPT ![p] = dict[p]]
      BY <2>2, <3>1, NoSaveAssumption DEF NHandled, SaveDone, fds, setup
    <3>2. CASE UNCHANGED saved /\ \E e \in Exception : Unwind(p, e)
      BY <2>2, <3>2, UnwindEnter DEF SaveDone, fds, setup
    <3> QED
      BY <2>2, <3>1, <3>2 DEF SaveDone, AccessFails, Exception
  <2> QED
    BY <1>6, <2>1, <2>2 DEF Save
<1>7. ASSUME NEW p \in Proc, Arm(p) PROVE Control'
  BY <1>7 DEF Arm, fds, data, env, NHandled
<1>8. ASSUME NEW p \in Proc, ClaimRead(p) PROVE Control'
  BY <1>8 DEF ClaimRead, Read32, AccessFails, fds, setup
<1>9. ASSUME NEW p \in Proc, ClaimMask(p) PROVE Control'
  BY <1>9 DEF ClaimMask, Write32, AccessFails, fds, data, setup
<1>10. ASSUME NEW p \in Proc, ClaimA(p) PROVE Control'
  BY <1>10 DEF ClaimA, Write32, AccessFails, fds, data, setup
<1>11. ASSUME NEW p \in Proc, ClaimEn(p) PROVE Control'
  BY <1>11 DEF ClaimEn, Write32, AccessFails, fds, data, setup
<1>12. ASSUME NEW p \in Proc, EnterBlock(p) PROVE Control'
  BY <1>12 DEF EnterBlock, fds, data, setup, env
<1>13. ASSUME NEW p \in Proc, LineRead(p) PROVE Control'
  BY <1>13 DEF LineRead, Read32, AccessFails, fds, setup
<1>14. ASSUME NEW p \in Proc, LineWrite(p) PROVE Control'
  BY <1>14 DEF LineWrite, Write32, AccessFails, fds, data, setup
<1>15. ASSUME NEW p \in Proc, BeginTransaction(p) PROVE Control'
  BY <1>15 DEF BeginTransaction, fds, data, setup, env
<1>16. ASSUME NEW p \in Proc, EndTransaction(p) PROVE Control'
  BY <1>16 DEF EndTransaction, fds, data, setup, env
<1>17. ASSUME NEW p \in Proc, CommandFails(p) PROVE Control'
  BY <1>17 DEF CommandFails, fds, data, setup, env
<1>18. ASSUME NEW p \in Proc, CommandEnds(p) PROVE Control'
  BY <1>18 DEF CommandEnds, fds, data, setup, env
<1>19. ASSUME NEW p \in Proc, ReleaseEn(p) PROVE Control'
  BY <1>19 DEF ReleaseEn, Write32, AccessFails, fds, data, setup
<1>20. ASSUME NEW p \in Proc, ReleaseRead(p) PROVE Control'
  BY <1>20 DEF ReleaseRead, Read32, AccessFails, fds, setup
<1>21. ASSUME NEW p \in Proc, ReleaseMask(p) PROVE Control'
  BY <1>21 DEF ReleaseMask, Write32, AccessFails, fds, data, setup
<1>22. ASSUME NEW p \in Proc, RestoreEn(p) PROVE Control'
  BY <1>22 DEF RestoreEn, Write32, AccessFails, fds, data, setup, env
<1>23. ASSUME NEW p \in Proc, RestoreA(p) PROVE Control'
  BY <1>23 DEF RestoreA, Write32, AccessFails, fds, data, setup
<1>24. ASSUME NEW p \in Proc, RestoreMask(p) PROVE Control'
  BY <1>24 DEF RestoreMask, Write32, AccessFails, EnterFinally, fds, data, setup
<1>25. ASSUME NEW p \in Proc, CloseRegs(p) PROVE Control'
  BY <1>25 DEF CloseRegs, data, setup, env
<1>26. ASSUME NEW p \in Proc, ForgetRegs(p) PROVE Control'
  BY <1>26 DEF ForgetRegs, data, setup, env
<1>27. ASSUME NEW p \in Proc, CloseLock(p) PROVE Control'
  BY <1>27 DEF CloseLock, data, setup, env
<1>28. ASSUME NEW p \in Proc, Exit(p) PROVE Control'
  BY <1>28 DEF Exit, Gone, NHandled
<1>29. ASSUME NEW p \in Proc, NEW s \in HANDLED, Signal(p, s) PROVE Control'
  BY <1>29 DEF Signal, Handler, Dies, Gone, HANDLED, fds, data, setup
<1>30. ASSUME NEW p \in Proc, Kill(p) PROVE Control'
  BY <1>30 DEF Kill, Dies, Gone
<1> HIDE DEF RunningPc, EnterPc, BodyPc, ReleasePc, RestorePc, FinallyPc, CleanupPc,
             OpenedPc, UnarmedPc, TypeOK, Control, Step, Goto, Unwind
<1> QED
  BY <1>1, <1>2, <1>3, <1>4, <1>5, <1>6, <1>7, <1>8, <1>9, <1>10, <1>11, <1>12, <1>13, <1>14, <1>15, <1>16, <1>17, <1>18, <1>19, <1>20, <1>21, <1>22, <1>23, <1>24, <1>25, <1>26, <1>27, <1>28, <1>29, <1>30
     DEF Next, Run, Enter, Body, Cleanup

\* Descriptors are opened, closed and inherited by nobody else.
LEMMA DescriptorsStep ==
  ASSUME TypeOK, Control, Descriptors, Next
  PROVE  Descriptors'
<1> USE DEF RunningPc, EnterPc, BodyPc, ReleasePc, RestorePc, FinallyPc, CleanupPc,
            OpenedPc, UnarmedPc, TypeOK, Descriptors, Step, Goto, Unwind
<1>1. ASSUME NEW p \in Proc, Launch(p) PROVE Descriptors'
  BY <1>1 DEF Launch, fds, data, env
<1>2. ASSUME NEW p \in Proc, CheckIdentity(p) PROVE Descriptors'
  <2> HIDE DEF Unwind
  <2>1. CASE Step(p, "identity", "open_lock")
    BY <1>2, <2>1 DEF CheckIdentity, fds, data, setup
  <2>2. CASE UNCHANGED fds /\ \E e \in Exception : Unwind(p, e)
    BY <1>2, <2>2, UnwindEnter DEF CheckIdentity, fds, fds, data, setup
  <2> QED
    BY <1>2, <2>1, <2>2 DEF CheckIdentity, Exception, fds
<1>3. ASSUME NEW p \in Proc, OpenLock(p) PROVE Descriptors'
  <2> HIDE DEF Unwind
  <2>1. CASE /\ lockFd' = [lockFd EXCEPT ![p] = "open"]
            /\ Step(p, "open_lock", "flock")
    BY <1>3, <2>1 DEF OpenLock, data, setup
  <2>2. CASE UNCHANGED fds /\ \E e \in Exception : Unwind(p, e)
    BY <1>3, <2>2, UnwindEnter DEF OpenLock, fds, data, setup
  <2> QED
    BY <1>3, <2>1, <2>2 DEF OpenLock, Exception, fds
<1>4. ASSUME NEW p \in Proc, Flock(p) PROVE Descriptors'
  <2> HIDE DEF Unwind
  <2>1. CASE /\ lock = NoProc
            /\ lock' = p
            /\ Step(p, "flock", "open_regs")
    BY <1>4, <2>1, NoProcAssumption DEF Flock, data, setup
  <2>2. CASE UNCHANGED fds /\ \E e \in Exception : Unwind(p, e)
    BY <1>4, <2>2, UnwindEnter DEF Flock, fds, data, setup
  <2> QED
    BY <1>4, <2>1, <2>2 DEF Flock, Exception, fds
<1>5. ASSUME NEW p \in Proc, OpenRegs(p) PROVE Descriptors'
  <2> HIDE DEF Unwind
  <2>1. CASE /\ regFd' = [regFd EXCEPT ![p] = "open"]
            /\ Step(p, "open_regs", "save_mask")
    BY <1>5, <2>1 DEF OpenRegs, data, setup
  <2>2. CASE UNCHANGED fds /\ \E e \in Exception : Unwind(p, e)
    BY <1>5, <2>2, UnwindEnter DEF OpenRegs, fds, data, setup
  <2> QED
    BY <1>5, <2>1, <2>2 DEF OpenRegs, Exception, fds
<1>6. ASSUME NEW p \in Proc, Save(p) PROVE Descriptors'
  <2> HIDE DEF Unwind
  <2>1. ASSUME NEW from \in {"save_mask", "save_a", "save_en"}, NEW reg,
               NEW to \in {"save_a", "save_en", "save_y"}, SaveRead(p, from, reg, to)
        PROVE  Descriptors'
    <3>1. CASE Step(p, from, to)
      BY <2>1, <3>1 DEF SaveRead, fds, setup
    <3>2. CASE \E e \in Exception : Unwind(p, e)
      BY <2>1, <3>2, UnwindEnter DEF SaveRead, fds, setup
    <3> QED
      BY <2>1, <3>1, <3>2 DEF SaveRead, AccessFails, Exception
  <2>2. ASSUME SaveDone(p) PROVE Descriptors'
    <3>1. CASE Step(p, "save_y", "arm") /\ saved' = [saved EXCEPT ![p] = dict[p]]
      BY <2>2, <3>1, NoSaveAssumption DEF SaveDone, fds, setup
    <3>2. CASE UNCHANGED saved /\ \E e \in Exception : Unwind(p, e)
      BY <2>2, <3>2, UnwindEnter DEF SaveDone, fds, setup
    <3> QED
      BY <2>2, <3>1, <3>2 DEF SaveDone, AccessFails, Exception
  <2> QED
    BY <1>6, <2>1, <2>2 DEF Save
<1>7. ASSUME NEW p \in Proc, Arm(p) PROVE Descriptors'
  BY <1>7 DEF Arm, fds, data, env, NHandled
<1>8. ASSUME NEW p \in Proc, ClaimRead(p) PROVE Descriptors'
  BY <1>8 DEF ClaimRead, Read32, AccessFails, fds, setup
<1>9. ASSUME NEW p \in Proc, ClaimMask(p) PROVE Descriptors'
  BY <1>9 DEF ClaimMask, Write32, AccessFails, fds, data, setup
<1>10. ASSUME NEW p \in Proc, ClaimA(p) PROVE Descriptors'
  BY <1>10 DEF ClaimA, Write32, AccessFails, fds, data, setup
<1>11. ASSUME NEW p \in Proc, ClaimEn(p) PROVE Descriptors'
  BY <1>11 DEF ClaimEn, Write32, AccessFails, fds, data, setup
<1>12. ASSUME NEW p \in Proc, EnterBlock(p) PROVE Descriptors'
  BY <1>12 DEF EnterBlock, fds, data, setup, env
<1>13. ASSUME NEW p \in Proc, LineRead(p) PROVE Descriptors'
  BY <1>13 DEF LineRead, Read32, AccessFails, fds, setup
<1>14. ASSUME NEW p \in Proc, LineWrite(p) PROVE Descriptors'
  BY <1>14 DEF LineWrite, Write32, AccessFails, fds, data, setup
<1>15. ASSUME NEW p \in Proc, BeginTransaction(p) PROVE Descriptors'
  BY <1>15 DEF BeginTransaction, fds, data, setup, env
<1>16. ASSUME NEW p \in Proc, EndTransaction(p) PROVE Descriptors'
  BY <1>16 DEF EndTransaction, fds, data, setup, env
<1>17. ASSUME NEW p \in Proc, CommandFails(p) PROVE Descriptors'
  BY <1>17 DEF CommandFails, fds, data, setup, env
<1>18. ASSUME NEW p \in Proc, CommandEnds(p) PROVE Descriptors'
  BY <1>18 DEF CommandEnds, fds, data, setup, env
<1>19. ASSUME NEW p \in Proc, ReleaseEn(p) PROVE Descriptors'
  BY <1>19 DEF ReleaseEn, Write32, AccessFails, fds, data, setup
<1>20. ASSUME NEW p \in Proc, ReleaseRead(p) PROVE Descriptors'
  BY <1>20 DEF ReleaseRead, Read32, AccessFails, fds, setup
<1>21. ASSUME NEW p \in Proc, ReleaseMask(p) PROVE Descriptors'
  BY <1>21 DEF ReleaseMask, Write32, AccessFails, fds, data, setup
<1>22. ASSUME NEW p \in Proc, RestoreEn(p) PROVE Descriptors'
  BY <1>22 DEF RestoreEn, Write32, AccessFails, fds, data, setup, env
<1>23. ASSUME NEW p \in Proc, RestoreA(p) PROVE Descriptors'
  BY <1>23 DEF RestoreA, Write32, AccessFails, fds, data, setup
<1>24. ASSUME NEW p \in Proc, RestoreMask(p) PROVE Descriptors'
  BY <1>24 DEF RestoreMask, Write32, AccessFails, EnterFinally, fds, data, setup
<1>25. ASSUME NEW p \in Proc, CloseRegs(p) PROVE Descriptors'
  BY <1>25 DEF CloseRegs, data, setup, env
<1>26. ASSUME NEW p \in Proc, ForgetRegs(p) PROVE Descriptors'
  BY <1>26 DEF ForgetRegs, data, setup, env
<1>27. ASSUME NEW p \in Proc, CloseLock(p) PROVE Descriptors'
  BY <1>27, NoProcAssumption DEF CloseLock, data, setup, env
<1>28. ASSUME NEW p \in Proc, Exit(p) PROVE Descriptors'
  BY <1>28, NoProcAssumption DEF Exit, Gone, NHandled
<1>29. ASSUME NEW p \in Proc, NEW s \in HANDLED, Signal(p, s) PROVE Descriptors'
  BY <1>29, NoProcAssumption DEF Signal, Handler, Dies, Gone, HANDLED, fds, data, setup
<1>30. ASSUME NEW p \in Proc, Kill(p) PROVE Descriptors'
  BY <1>30, NoProcAssumption DEF Kill, Dies, Gone
<1> HIDE DEF RunningPc, EnterPc, BodyPc, ReleasePc, RestorePc, FinallyPc, CleanupPc,
             OpenedPc, UnarmedPc, TypeOK, Descriptors, Step, Goto, Unwind
<1> QED
  BY <1>1, <1>2, <1>3, <1>4, <1>5, <1>6, <1>7, <1>8, <1>9, <1>10, <1>11, <1>12, <1>13, <1>14, <1>15, <1>16, <1>17, <1>18, <1>19, <1>20, <1>21, <1>22, <1>23, <1>24, <1>25, <1>26, <1>27, <1>28, <1>29, <1>30
     DEF Next, Run, Enter, Body, Cleanup

-----------------------------------------------------------------------------
(* Register accesses                                                       *)

\* Where a failing access leads, by where it was made.
LEMMA AccessFailsEffect ==
  ASSUME TypeOK, Control, NEW p \in Proc, AccessFails(p),
         pc[p] \in OpenedPc \cup BodyPc \cup ReleasePc \cup RestorePc
  PROVE  \E e \in {"RegError", "TypeError"}, to \in {"leaving", "body", "release_en", "close_regs"} :
           /\ pc' = [pc EXCEPT ![p] = to]
           /\ exc' = [exc EXCEPT ![p] = e]
           /\ pc[p] \in OpenedPc => to = "leaving"
           /\ pc[p] \in BodyPc => to \in {"body", "release_en"}
           /\ pc[p] \in ReleasePc \cup RestorePc => to = "close_regs"
<1>1. PICK e \in {"RegError", "TypeError"} : Unwind(p, e)
  BY DEF AccessFails
<1>2. CASE pc[p] \in OpenedPc
  <2>1. /\ pc' = [pc EXCEPT ![p] = "leaving"]
        /\ exc' = [exc EXCEPT ![p] = e]
    BY <1>1, <1>2, UnwindEnter DEF OpenedPc, EnterPc
  <2> QED
    BY <1>2, <2>1 DEF OpenedPc, BodyPc, ReleasePc, RestorePc
<1>3. CASE pc[p] \in BodyPc
  <2>1. /\ pc' = [pc EXCEPT ![p] = "body"] \/ pc' = [pc EXCEPT ![p] = "release_en"]
        /\ exc' = [exc EXCEPT ![p] = e]
    BY <1>1, <1>3 DEF Unwind, Goto, Control, TypeOK
  <2> QED
    BY <1>3, <2>1 DEF OpenedPc, BodyPc, ReleasePc, RestorePc
<1>4. CASE pc[p] \in ReleasePc \cup RestorePc
  <2>1. /\ pc' = [pc EXCEPT ![p] = "close_regs"]
        /\ exc' = [exc EXCEPT ![p] = e]
    BY <1>1, <1>4 DEF Unwind, Goto, Control, TypeOK
  <2> QED
    BY <1>4, <2>1 DEF OpenedPc, BodyPc, ReleasePc, RestorePc
<1> QED
  BY <1>2, <1>3, <1>4

\* A failing access can lose something only where no clause restores it.
LEMMA AccessFailsLoses ==
  ASSUME TypeOK, NEW p \in Proc, AccessFails(p), ~lost'
  PROVE  ~lost /\ (regFd[p] = "open" /\ pc[p] \in Exposed => hw = Baseline)
<1> DEFINE Bites == pc[p] \in Exposed /\ hw # Baseline
<1>1. CASE regFd[p] = "open"
  <2>1. lost' = (lost \/ Bites)
    BY <1>1, Zenon DEF AccessFails
  <2> HIDE DEF Bites
  <2>2. ~lost /\ ~Bites
    BY <2>1, Zenon
  <2> QED
    BY <2>2 DEF Bites
<1>2. CASE regFd[p] # "open"
  BY <1>2 DEF AccessFails
<1> QED
  BY <1>1, <1>2

\* A process that dies without a loss leaves the registers to the driver.
LEMMA DiesLoses ==
  ASSUME NEW p \in Proc, Dies(p), ~lost'
  PROVE  ~lost /\ (lock = p => hw = Baseline)
<1>1. lost' = (lost \/ (lock = p /\ hw # Baseline))
  BY Zenon DEF Dies
<1> QED
  BY <1>1, Zenon

\* Contents are equal when the three registers are.
LEMMA SameContents ==
  ASSUME NEW c \in Contents, NEW d \in Contents,
         c["MASK"] = d["MASK"], c["A"] = d["A"], c["EN"] = d["EN"]
  PROVE  c = d
<1>1. \A reg \in Reg : c[reg] = d[reg]
  BY DEF Reg
<1> QED
  BY <1>1 DEF Contents

\* The three ways a write can go.
LEMMA WriteEffect ==
  ASSUME TypeOK, Descriptors, NEW p \in Proc, NEW reg \in Reg, NEW value,
         NEW ACTION Then, Write32(p, reg, value, Then)
  PROVE  \/ /\ Then
            /\ UNCHANGED <<faults, lost>>
            /\ ~dry[p] /\ lock = p /\ regFd[p] = "open"
            /\ hw' = [hw EXCEPT ![reg] = value]
         \/ /\ Then
            /\ UNCHANGED <<faults, lost>>
            /\ dry[p] /\ hw' = hw
         \/ AccessFails(p) /\ ~dry[p] /\ hw' = hw
BY DEF TypeOK, Descriptors, Write32

\* A failing access leaves the registers alone, so they relate to what was
\* saved as before, and its exception is not an honest outcome.
LEMMA TracksFails ==
  ASSUME TypeOK, Control, Descriptors, Tracks, NEW p \in Proc, AccessFails(p),
         pc[p] \in OpenedPc \cup BodyPc \cup ReleasePc \cup RestorePc,
         UNCHANGED <<hw, lock, regFd, dict, saved, tmp, dry>>
  PROVE  Tracks'
BY AccessFailsEffect
   DEF TypeOK, Control, Descriptors, Tracks, OpenedPc, BodyPc, ReleasePc, RestorePc,
       FinallyPc, Honest

\* A register access that raises without a loss leaves the driver's contents.
LEMMA UndamagedFails ==
  ASSUME TypeOK, Control, Descriptors, Tracks, Undamaged, ~lost',
         NEW p \in Proc, AccessFails(p),
         pc[p] \in (OpenedPc \ {"entered"}) \cup BodyPc \cup ReleasePc \cup RestorePc,
         UNCHANGED <<hw, lock, regFd, saved>>
  PROVE  Undamaged'
<1>1. regFd[p] = "open" /\ pc[p] \in Exposed => hw = Baseline
  BY AccessFailsLoses
<1> QED
  BY <1>1, AccessFailsEffect
     DEF TypeOK, Control, Descriptors, Tracks, Undamaged, Exposed, OpenedPc, BodyPc,
         ReleasePc, RestorePc, FinallyPc, UnarmedPc

\* A write by the holder is the only thing that moves the registers.
LEMMA TracksStep ==
  ASSUME TypeOK, Control, Descriptors, Tracks, Next
  PROVE  Tracks'
<1> USE DEF RunningPc, EnterPc, BodyPc, ReleasePc, RestorePc, FinallyPc, CleanupPc,
            OpenedPc, UnarmedPc, TypeOK, Control, Descriptors, Tracks, Honest, Line, Contents, Reg, Step, Goto, Unwind
<1>1. ASSUME NEW p \in Proc, Launch(p) PROVE Tracks'
  BY <1>1 DEF Launch, fds, data, env
<1>2. ASSUME NEW p \in Proc, CheckIdentity(p) PROVE Tracks'
  BY <1>2 DEF CheckIdentity, fds, data, setup, env
<1>3. ASSUME NEW p \in Proc, OpenLock(p) PROVE Tracks'
  BY <1>3 DEF OpenLock, data, setup, env
<1>4. ASSUME NEW p \in Proc, Flock(p) PROVE Tracks'
  BY <1>4 DEF Flock, data, setup, env
<1>5. ASSUME NEW p \in Proc, OpenRegs(p) PROVE Tracks'
  BY <1>5 DEF OpenRegs, data, setup, env
<1>6. ASSUME NEW p \in Proc, Save(p) PROVE Tracks'
  <2>1. ASSUME NEW from \in {"save_mask", "save_a", "save_en"}, NEW reg \in Reg,
               NEW to \in RunningPc, SaveRead(p, from, reg, to),
               <<from, reg, to>> \in {<<"save_mask", "MASK", "save_a">>,
                                     <<"save_a", "A", "save_en">>,
                                     <<"save_en", "EN", "save_y">>}
        PROVE  Tracks'
    <3>1. CASE dict' = [dict EXCEPT ![p][reg] = hw[reg]] /\ Step(p, from, to)
      BY <2>1, <3>1 DEF SaveRead, fds, setup
    <3>2. CASE AccessFails(p) /\ UNCHANGED dict
      BY <2>1, <3>2, TracksFails DEF SaveRead, fds, setup
    <3> QED
      BY <2>1, <3>1, <3>2 DEF SaveRead
  <2>2. ASSUME SaveDone(p) PROVE Tracks'
    <3>1. CASE saved' = [saved EXCEPT ![p] = dict[p]] /\ Step(p, "save_y", "arm")
      <4>1. lock = p
        BY <2>2 DEF SaveDone
      <4>2. dict[p] = hw
        <5>1. dict[p] \in Contents /\ hw \in Contents
          BY DEF TypeOK
        <5>2. /\ dict[p]["MASK"] = hw["MASK"] /\ dict[p]["A"] = hw["A"]
              /\ dict[p]["EN"] = hw["EN"]
          BY <2>2, <4>1 DEF SaveDone
        <5> HIDE DEF TypeOK, Contents, Tracks, Step
        <5> QED
          BY <5>1, <5>2, SameContents
      <4> QED
        BY <2>2, <3>1, <4>1, <4>2, NoSaveAssumption, NoProcAssumption DEF SaveDone, fds, setup
    <3>2. CASE AccessFails(p) /\ UNCHANGED saved
      BY <2>2, <3>2, TracksFails DEF SaveDone, fds, setup
    <3> QED
      BY <2>2, <3>1, <3>2 DEF SaveDone
  <2> QED
    BY <1>6, <2>1, <2>2 DEF Save, Reg
<1>7. ASSUME NEW p \in Proc, Arm(p) PROVE Tracks'
  BY <1>7 DEF Arm, fds, data, env, NHandled
<1>8. ASSUME NEW p \in Proc, ClaimRead(p) PROVE Tracks'
  <2>1. CASE tmp' = [tmp EXCEPT ![p] = Claimed(hw["MASK"])]
             /\ Step(p, "claim_read", "claim_mask")
    <3>1. Line \subseteq tmp'[p] /\ DATA_PD_EN \notin tmp'[p]
      BY <2>1 DEF Claimed, CLK_BIT, DATA_BIT, DATA_PD_EN
    <3> QED
      BY <1>8, <2>1, <3>1 DEF ClaimRead, Read32, fds, setup
  <2>2. CASE AccessFails(p) /\ UNCHANGED tmp
    BY <1>8, <2>2, TracksFails DEF ClaimRead, Read32, fds, setup
  <2> QED
    BY <1>8, <2>1, <2>2 DEF ClaimRead, Read32
<1>9. ASSUME NEW p \in Proc, ClaimMask(p) PROVE Tracks'
  BY <1>9 DEF ClaimMask, Write32, AccessFails, fds, data, setup
<1>10. ASSUME NEW p \in Proc, ClaimA(p) PROVE Tracks'
  <2>1. CASE Step(p, "claim_a", "claim_en") /\ ~dry[p] /\ lock = p /\ regFd[p] = "open"
             /\ hw' = [hw EXCEPT !["A"] = {}]
    BY <1>10, <2>1 DEF ClaimA, Write32, fds, data, setup
  <2>2. CASE Step(p, "claim_a", "claim_en") /\ dry[p] /\ hw' = hw
    BY <1>10, <2>2 DEF ClaimA, Write32, fds, data, setup
  <2>3. CASE AccessFails(p) /\ ~dry[p] /\ hw' = hw
    BY <1>10, <2>3, TracksFails DEF ClaimA, Write32, fds, data, setup
  <2> HIDE DEF TypeOK, Control, Descriptors, Tracks, Contents, Step, Unwind
  <2> QED
    BY <1>10, <2>1, <2>2, <2>3, WriteEffect DEF ClaimA, Reg
<1>11. ASSUME NEW p \in Proc, ClaimEn(p) PROVE Tracks'
  <2>1. CASE Step(p, "claim_en", "entered") /\ ~dry[p] /\ lock = p /\ regFd[p] = "open"
             /\ hw' = [hw EXCEPT !["EN"] = {}]
    BY <1>11, <2>1 DEF ClaimEn, Write32, fds, data, setup
  <2>2. CASE Step(p, "claim_en", "entered") /\ dry[p] /\ hw' = hw
    BY <1>11, <2>2 DEF ClaimEn, Write32, fds, data, setup
  <2>3. CASE AccessFails(p) /\ ~dry[p] /\ hw' = hw
    BY <1>11, <2>3, TracksFails DEF ClaimEn, Write32, fds, data, setup
  <2> HIDE DEF TypeOK, Control, Descriptors, Tracks, Contents, Step, Unwind
  <2> QED
    BY <1>11, <2>1, <2>2, <2>3, WriteEffect DEF ClaimEn, Reg
<1>12. ASSUME NEW p \in Proc, EnterBlock(p) PROVE Tracks'
  BY <1>12 DEF EnterBlock, fds, data, setup, env
<1>13. ASSUME NEW p \in Proc, LineRead(p) PROVE Tracks'
  BY <1>13 DEF LineRead, Read32, AccessFails, fds, setup
<1>14. ASSUME NEW p \in Proc, LineWrite(p) PROVE Tracks'
  <2>1. CASE Step(p, "line", "body") /\ ~dry[p] /\ lock = p /\ regFd[p] = "open"
             /\ hw' = [hw EXCEPT !["EN"] = tmp[p]]
    BY <1>14, <2>1 DEF LineWrite, Write32, fds, data, setup
  <2>2. CASE Step(p, "line", "body") /\ dry[p] /\ hw' = hw
    BY <1>14, <2>2 DEF LineWrite, Write32, fds, data, setup
  <2>3. CASE AccessFails(p) /\ ~dry[p] /\ hw' = hw
    BY <1>14, <2>3, TracksFails DEF LineWrite, Write32, fds, data, setup
  <2> QED
    <3> HIDE DEF TypeOK, Control, Descriptors, Tracks, Contents, Step, Unwind
    <3> QED
      BY <1>14, <2>1, <2>2, <2>3, WriteEffect DEF LineWrite, Reg
<1>15. ASSUME NEW p \in Proc, BeginTransaction(p) PROVE Tracks'
  BY <1>15 DEF BeginTransaction, fds, data, setup, env
<1>16. ASSUME NEW p \in Proc, EndTransaction(p) PROVE Tracks'
  BY <1>16 DEF EndTransaction, fds, data, setup, env
<1>17. ASSUME NEW p \in Proc, CommandFails(p) PROVE Tracks'
  BY <1>17 DEF CommandFails, fds, data, setup, env
<1>18. ASSUME NEW p \in Proc, CommandEnds(p) PROVE Tracks'
  BY <1>18 DEF CommandEnds, fds, data, setup, env
<1>19. ASSUME NEW p \in Proc, ReleaseEn(p) PROVE Tracks'
  BY <1>19 DEF ReleaseEn, Write32, AccessFails, fds, data, setup
<1>20. ASSUME NEW p \in Proc, ReleaseRead(p) PROVE Tracks'
  <2>1. CASE tmp' = [tmp EXCEPT ![p] = Released(hw["MASK"])]
             /\ Step(p, "release_read", "release_mask")
    <3>1. CLK_BIT \notin tmp'[p] /\ DATA_BIT \notin tmp'[p]
      BY <2>1 DEF Released
    <3> QED
      BY <1>20, <2>1, <3>1 DEF ReleaseRead, Read32, fds, setup
  <2>2. CASE AccessFails(p) /\ UNCHANGED tmp
    BY <1>20, <2>2, TracksFails DEF ReleaseRead, Read32, fds, setup
  <2> QED
    BY <1>20, <2>1, <2>2 DEF ReleaseRead, Read32
<1>21. ASSUME NEW p \in Proc, ReleaseMask(p) PROVE Tracks'
  <2>1. CASE Step(p, "release_mask", "restore_en") /\ ~dry[p] /\ lock = p /\ regFd[p] = "open"
             /\ hw' = [hw EXCEPT !["MASK"] = tmp[p]]
    BY <1>21, <2>1 DEF ReleaseMask, Write32, fds, data, setup
  <2>2. CASE Step(p, "release_mask", "restore_en") /\ dry[p] /\ hw' = hw
    BY <1>21, <2>2 DEF ReleaseMask, Write32, fds, data, setup
  <2>3. CASE AccessFails(p) /\ ~dry[p] /\ hw' = hw
    BY <1>21, <2>3, TracksFails DEF ReleaseMask, Write32, fds, data, setup
  <2> HIDE DEF TypeOK, Control, Descriptors, Tracks, Contents, Step, Unwind
  <2> QED
    BY <1>21, <2>1, <2>2, <2>3, WriteEffect DEF ReleaseMask, Reg
<1>22. ASSUME NEW p \in Proc, RestoreEn(p) PROVE Tracks'
  <2>0. saved[p] # NoSave
    BY <1>22 DEF RestoreEn
  <2>1. CASE Step(p, "restore_en", "restore_a") /\ ~dry[p] /\ lock = p /\ regFd[p] = "open"
             /\ hw' = [hw EXCEPT !["EN"] = saved[p]["EN"]]
    BY <1>22, <2>0, <2>1 DEF RestoreEn, Write32, fds, data, setup
  <2>2. CASE Step(p, "restore_en", "restore_a") /\ dry[p] /\ hw' = hw
    BY <1>22, <2>0, <2>2 DEF RestoreEn, Write32, fds, data, setup
  <2>3. CASE AccessFails(p) /\ ~dry[p] /\ hw' = hw
    BY <1>22, <2>0, <2>3, TracksFails DEF RestoreEn, Write32, fds, data, setup
  <2> HIDE DEF TypeOK, Control, Descriptors, Tracks, Contents, Step, Unwind
  <2> QED
    BY <1>22, <2>0, <2>1, <2>2, <2>3, WriteEffect DEF RestoreEn, Reg
<1>23. ASSUME NEW p \in Proc, RestoreA(p) PROVE Tracks'
  BY <1>23 DEF RestoreA, Write32, AccessFails, fds, data, setup
<1>24. ASSUME NEW p \in Proc, RestoreMask(p) PROVE Tracks'
  <2>1. CASE EnterFinally(p) /\ ~dry[p] /\ lock = p /\ regFd[p] = "open"
             /\ hw' = [hw EXCEPT !["MASK"] = saved[p]["MASK"]]
    BY <1>24, <2>1 DEF RestoreMask, Write32, fds, data, setup, EnterFinally
  <2>2. CASE EnterFinally(p) /\ dry[p] /\ hw' = hw
    BY <1>24, <2>2 DEF RestoreMask, Write32, fds, data, setup, EnterFinally
  <2>3. CASE AccessFails(p) /\ ~dry[p] /\ hw' = hw
    BY <1>24, <2>3, TracksFails DEF RestoreMask, Write32, fds, data, setup
  <2> HIDE DEF TypeOK, Control, Descriptors, Tracks, Contents, Step, Unwind
  <2> QED
    BY <1>24, <2>1, <2>2, <2>3, WriteEffect DEF RestoreMask, Reg
<1>25. ASSUME NEW p \in Proc, CloseRegs(p) PROVE Tracks'
  BY <1>25 DEF CloseRegs, data, setup, env
<1>26. ASSUME NEW p \in Proc, ForgetRegs(p) PROVE Tracks'
  BY <1>26 DEF ForgetRegs, data, setup, env
<1>27. ASSUME NEW p \in Proc, CloseLock(p) PROVE Tracks'
  BY <1>27, NoProcAssumption DEF CloseLock, data, setup, env
<1>28. ASSUME NEW p \in Proc, Exit(p) PROVE Tracks'
  BY <1>28, NoProcAssumption DEF Exit, Gone, NHandled
<1>29. ASSUME NEW p \in Proc, NEW s \in HANDLED, Signal(p, s) PROVE Tracks'
  BY <1>29, NoProcAssumption DEF Signal, Handler, Dies, Gone, HANDLED, fds, data, setup
<1>30. ASSUME NEW p \in Proc, Kill(p) PROVE Tracks'
  BY <1>30, NoProcAssumption DEF Kill, Dies, Gone
<1> HIDE DEF RunningPc, EnterPc, BodyPc, ReleasePc, RestorePc, FinallyPc, CleanupPc,
             OpenedPc, UnarmedPc, TypeOK, Control, Descriptors, Tracks, Contents, Step, Goto, Unwind
<1> QED
  BY <1>1, <1>2, <1>3, <1>4, <1>5, <1>6, <1>7, <1>8, <1>9, <1>10, <1>11, <1>12, <1>13, <1>14, <1>15, <1>16, <1>17, <1>18, <1>19, <1>20, <1>21, <1>22, <1>23, <1>24, <1>25, <1>26, <1>27, <1>28, <1>29, <1>30
     DEF Next, Run, Enter, Body, Cleanup

\* Nothing but a lost event can keep a session from leaving the baseline.
LEMMA UndamagedStep ==
  ASSUME TypeOK, Control, Descriptors, Tracks, Undamaged, ~lost', Next
  PROVE  Undamaged'
<1> USE DEF RunningPc, EnterPc, BodyPc, ReleasePc, RestorePc, FinallyPc, CleanupPc,
            OpenedPc, UnarmedPc, TypeOK, Control, Descriptors, Tracks, Undamaged, Exposed, Honest, Contents, Reg, Step, Goto, Unwind
<1>1. ASSUME NEW p \in Proc, Launch(p) PROVE Undamaged'
  BY <1>1 DEF Launch, fds, data, env
<1>2. ASSUME NEW p \in Proc, CheckIdentity(p) PROVE Undamaged'
  BY <1>2 DEF CheckIdentity, fds, data, setup, env
<1>3. ASSUME NEW p \in Proc, OpenLock(p) PROVE Undamaged'
  BY <1>3 DEF OpenLock, data, setup, env
<1>4. ASSUME NEW p \in Proc, Flock(p) PROVE Undamaged'
  BY <1>4 DEF Flock, data, setup, env
<1>5. ASSUME NEW p \in Proc, OpenRegs(p) PROVE Undamaged'
  BY <1>5 DEF OpenRegs, data, setup, env
<1>6. ASSUME NEW p \in Proc, Save(p) PROVE Undamaged'
  <2>1. ASSUME NEW from \in {"save_mask", "save_a", "save_en"}, NEW reg \in Reg,
               NEW to \in RunningPc, SaveRead(p, from, reg, to),
               <<from, reg, to>> \in {<<"save_mask", "MASK", "save_a">>,
                                     <<"save_a", "A", "save_en">>,
                                     <<"save_en", "EN", "save_y">>}
        PROVE  Undamaged'
    <3>1. CASE dict' = [dict EXCEPT ![p][reg] = hw[reg]] /\ Step(p, from, to)
      BY <2>1, <3>1 DEF SaveRead, fds, setup
    <3>2. CASE AccessFails(p) /\ UNCHANGED dict
      BY <2>1, <3>2, UndamagedFails DEF SaveRead, fds, setup
    <3> QED
      BY <2>1, <3>1, <3>2 DEF SaveRead
  <2>2. ASSUME SaveDone(p) PROVE Undamaged'
    <3>1. CASE saved' = [saved EXCEPT ![p] = dict[p]] /\ Step(p, "save_y", "arm")
      <4>1. lock = p
        BY <2>2 DEF SaveDone
      <4>2. dict[p] = hw
        <5>1. dict[p] \in Contents /\ hw \in Contents
          BY DEF TypeOK
        <5>2. /\ dict[p]["MASK"] = hw["MASK"] /\ dict[p]["A"] = hw["A"]
              /\ dict[p]["EN"] = hw["EN"]
          BY <2>2, <4>1 DEF SaveDone
        <5> HIDE DEF TypeOK, Contents, Tracks, Step
        <5> QED
          BY <5>1, <5>2, SameContents
      <4> QED
        BY <2>2, <3>1, <4>1, <4>2, NoSaveAssumption, NoProcAssumption DEF SaveDone, fds, setup
    <3>2. CASE AccessFails(p) /\ UNCHANGED saved
      BY <2>2, <3>2, UndamagedFails DEF SaveDone, fds, setup
    <3> QED
      BY <2>2, <3>1, <3>2 DEF SaveDone
  <2> QED
    BY <1>6, <2>1, <2>2 DEF Save, Reg
<1>7. ASSUME NEW p \in Proc, Arm(p) PROVE Undamaged'
  BY <1>7 DEF Arm, fds, data, env, NHandled
<1>8. ASSUME NEW p \in Proc, ClaimRead(p) PROVE Undamaged'
  BY <1>8 DEF ClaimRead, Read32, AccessFails, fds, setup
<1>9. ASSUME NEW p \in Proc, ClaimMask(p) PROVE Undamaged'
  <2>1. CASE Step(p, "claim_mask", "claim_a") /\ ~dry[p] /\ lock = p /\ regFd[p] = "open"
             /\ hw' = [hw EXCEPT !["MASK"] = tmp[p]]
    BY <1>9, <2>1, NoProcAssumption DEF ClaimMask, Write32, fds, data, setup
  <2>2. CASE Step(p, "claim_mask", "claim_a") /\ dry[p] /\ hw' = hw
    BY <1>9, <2>2 DEF ClaimMask, Write32, fds, data, setup
  <2>3. CASE AccessFails(p) /\ ~dry[p] /\ hw' = hw
    BY <1>9, <2>3, UndamagedFails DEF ClaimMask, Write32, fds, data, setup
  <2> HIDE DEF TypeOK, Control, Descriptors, Tracks, Undamaged, Contents, Step, Unwind
  <2> QED
    BY <1>9, <2>1, <2>2, <2>3, WriteEffect DEF ClaimMask, Reg
<1>10. ASSUME NEW p \in Proc, ClaimA(p) PROVE Undamaged'
  <2>1. CASE Step(p, "claim_a", "claim_en") /\ ~dry[p] /\ lock = p /\ regFd[p] = "open"
             /\ hw' = [hw EXCEPT !["A"] = {}]
    BY <1>10, <2>1, NoProcAssumption DEF ClaimA, Write32, fds, data, setup
  <2>2. CASE Step(p, "claim_a", "claim_en") /\ dry[p] /\ hw' = hw
    BY <1>10, <2>2 DEF ClaimA, Write32, fds, data, setup
  <2>3. CASE AccessFails(p) /\ ~dry[p] /\ hw' = hw
    BY <1>10, <2>3, UndamagedFails DEF ClaimA, Write32, fds, data, setup
  <2> HIDE DEF TypeOK, Control, Descriptors, Tracks, Undamaged, Contents, Step, Unwind
  <2> QED
    BY <1>10, <2>1, <2>2, <2>3, WriteEffect DEF ClaimA, Reg
<1>11. ASSUME NEW p \in Proc, ClaimEn(p) PROVE Undamaged'
  <2>1. CASE Step(p, "claim_en", "entered") /\ ~dry[p] /\ lock = p /\ regFd[p] = "open"
             /\ hw' = [hw EXCEPT !["EN"] = {}]
    BY <1>11, <2>1, NoProcAssumption DEF ClaimEn, Write32, fds, data, setup
  <2>2. CASE Step(p, "claim_en", "entered") /\ dry[p] /\ hw' = hw
    BY <1>11, <2>2 DEF ClaimEn, Write32, fds, data, setup
  <2>3. CASE AccessFails(p) /\ ~dry[p] /\ hw' = hw
    BY <1>11, <2>3, UndamagedFails DEF ClaimEn, Write32, fds, data, setup
  <2> HIDE DEF TypeOK, Control, Descriptors, Tracks, Undamaged, Contents, Step, Unwind
  <2> QED
    BY <1>11, <2>1, <2>2, <2>3, WriteEffect DEF ClaimEn, Reg
<1>12. ASSUME NEW p \in Proc, EnterBlock(p) PROVE Undamaged'
  BY <1>12 DEF EnterBlock, fds, data, setup, env
<1>13. ASSUME NEW p \in Proc, LineRead(p) PROVE Undamaged'
  BY <1>13 DEF LineRead, Read32, AccessFails, fds, setup
<1>14. ASSUME NEW p \in Proc, LineWrite(p) PROVE Undamaged'
  <2>1. CASE Step(p, "line", "body") /\ ~dry[p] /\ lock = p /\ regFd[p] = "open"
             /\ hw' = [hw EXCEPT !["EN"] = tmp[p]]
    BY <1>14, <2>1, NoProcAssumption DEF LineWrite, Write32, fds, data, setup
  <2>2. CASE Step(p, "line", "body") /\ dry[p] /\ hw' = hw
    BY <1>14, <2>2 DEF LineWrite, Write32, fds, data, setup
  <2>3. CASE AccessFails(p) /\ ~dry[p] /\ hw' = hw
    BY <1>14, <2>3, UndamagedFails DEF LineWrite, Write32, fds, data, setup
  <2> HIDE DEF TypeOK, Control, Descriptors, Tracks, Undamaged, Contents, Step, Unwind
  <2> QED
    BY <1>14, <2>1, <2>2, <2>3, WriteEffect DEF LineWrite, Reg
<1>15. ASSUME NEW p \in Proc, BeginTransaction(p) PROVE Undamaged'
  BY <1>15 DEF BeginTransaction, fds, data, setup, env
<1>16. ASSUME NEW p \in Proc, EndTransaction(p) PROVE Undamaged'
  BY <1>16 DEF EndTransaction, fds, data, setup, env
<1>17. ASSUME NEW p \in Proc, CommandFails(p) PROVE Undamaged'
  BY <1>17 DEF CommandFails, fds, data, setup, env
<1>18. ASSUME NEW p \in Proc, CommandEnds(p) PROVE Undamaged'
  BY <1>18 DEF CommandEnds, fds, data, setup, env
<1>19. ASSUME NEW p \in Proc, ReleaseEn(p) PROVE Undamaged'
  <2>1. CASE Step(p, "release_en", "release_read") /\ ~dry[p] /\ lock = p /\ regFd[p] = "open"
             /\ hw' = [hw EXCEPT !["EN"] = {}]
    BY <1>19, <2>1, NoProcAssumption DEF ReleaseEn, Write32, fds, data, setup
  <2>2. CASE Step(p, "release_en", "release_read") /\ dry[p] /\ hw' = hw
    BY <1>19, <2>2 DEF ReleaseEn, Write32, fds, data, setup
  <2>3. CASE AccessFails(p) /\ ~dry[p] /\ hw' = hw
    BY <1>19, <2>3, UndamagedFails DEF ReleaseEn, Write32, fds, data, setup
  <2> HIDE DEF TypeOK, Control, Descriptors, Tracks, Undamaged, Contents, Step, Unwind
  <2> QED
    BY <1>19, <2>1, <2>2, <2>3, WriteEffect DEF ReleaseEn, Reg
<1>20. ASSUME NEW p \in Proc, ReleaseRead(p) PROVE Undamaged'
  <2>1. CASE Step(p, "release_read", "release_mask")
    BY <1>20, <2>1 DEF ReleaseRead, Read32, fds, setup
  <2>2. CASE AccessFails(p)
    BY <1>20, <2>2, UndamagedFails DEF ReleaseRead, Read32, fds, setup
  <2> QED
    BY <1>20, <2>1, <2>2 DEF ReleaseRead, Read32
<1>21. ASSUME NEW p \in Proc, ReleaseMask(p) PROVE Undamaged'
  <2>1. CASE Step(p, "release_mask", "restore_en") /\ ~dry[p] /\ lock = p /\ regFd[p] = "open"
             /\ hw' = [hw EXCEPT !["MASK"] = tmp[p]]
    BY <1>21, <2>1, NoProcAssumption DEF ReleaseMask, Write32, fds, data, setup
  <2>2. CASE Step(p, "release_mask", "restore_en") /\ dry[p] /\ hw' = hw
    BY <1>21, <2>2 DEF ReleaseMask, Write32, fds, data, setup
  <2>3. CASE AccessFails(p) /\ ~dry[p] /\ hw' = hw
    BY <1>21, <2>3, UndamagedFails DEF ReleaseMask, Write32, fds, data, setup
  <2> HIDE DEF TypeOK, Control, Descriptors, Tracks, Undamaged, Contents, Step, Unwind
  <2> QED
    BY <1>21, <2>1, <2>2, <2>3, WriteEffect DEF ReleaseMask, Reg
<1>22. ASSUME NEW p \in Proc, RestoreEn(p) PROVE Undamaged'
  <2>1. CASE Step(p, "restore_en", "restore_a") /\ ~dry[p] /\ lock = p /\ regFd[p] = "open"
             /\ hw' = [hw EXCEPT !["EN"] = saved[p]["EN"]]
    BY <1>22, <2>1, NoProcAssumption DEF RestoreEn, Write32, fds, data, setup
  <2>2. CASE Step(p, "restore_en", "restore_a") /\ dry[p] /\ hw' = hw
    BY <1>22, <2>2 DEF RestoreEn, Write32, fds, data, setup
  <2>3. CASE AccessFails(p) /\ ~dry[p] /\ hw' = hw
    BY <1>22, <2>3, UndamagedFails DEF RestoreEn, Write32, fds, data, setup
  <2>4. saved[p] # NoSave
    BY <1>22 DEF RestoreEn
  <2> HIDE DEF TypeOK, Control, Descriptors, Tracks, Undamaged, Contents, Step, Unwind
  <2> QED
    BY <1>22, <2>1, <2>2, <2>3, <2>4, WriteEffect DEF RestoreEn, Reg
<1>23. ASSUME NEW p \in Proc, RestoreA(p) PROVE Undamaged'
  <2>1. CASE Step(p, "restore_a", "restore_mask") /\ ~dry[p] /\ lock = p /\ regFd[p] = "open"
             /\ hw' = [hw EXCEPT !["A"] = saved[p]["A"]]
    BY <1>23, <2>1, NoProcAssumption DEF RestoreA, Write32, fds, data, setup
  <2>2. CASE Step(p, "restore_a", "restore_mask") /\ dry[p] /\ hw' = hw
    BY <1>23, <2>2 DEF RestoreA, Write32, fds, data, setup
  <2>3. CASE AccessFails(p) /\ ~dry[p] /\ hw' = hw
    BY <1>23, <2>3, UndamagedFails DEF RestoreA, Write32, fds, data, setup
  <2> HIDE DEF TypeOK, Control, Descriptors, Tracks, Undamaged, Contents, Step, Unwind
  <2> QED
    BY <1>23, <2>1, <2>2, <2>3, WriteEffect DEF RestoreA, Reg
<1>24. ASSUME NEW p \in Proc, RestoreMask(p) PROVE Undamaged'
  <2>1. CASE EnterFinally(p) /\ ~dry[p] /\ lock = p /\ regFd[p] = "open"
             /\ hw' = [hw EXCEPT !["MASK"] = saved[p]["MASK"]]
    BY <1>24, <2>1, NoProcAssumption DEF RestoreMask, Write32, fds, data, setup, EnterFinally
  <2>2. CASE EnterFinally(p) /\ dry[p] /\ hw' = hw
    BY <1>24, <2>2 DEF RestoreMask, Write32, fds, data, setup, EnterFinally
  <2>3. CASE AccessFails(p) /\ ~dry[p] /\ hw' = hw
    BY <1>24, <2>3, UndamagedFails DEF RestoreMask, Write32, fds, data, setup
  <2> HIDE DEF TypeOK, Control, Descriptors, Tracks, Undamaged, Contents, Step, Unwind
  <2> QED
    BY <1>24, <2>1, <2>2, <2>3, WriteEffect DEF RestoreMask, Reg
<1>25. ASSUME NEW p \in Proc, CloseRegs(p) PROVE Undamaged'
  BY <1>25 DEF CloseRegs, data, setup, env
<1>26. ASSUME NEW p \in Proc, ForgetRegs(p) PROVE Undamaged'
  BY <1>26 DEF ForgetRegs, data, setup, env
<1>27. ASSUME NEW p \in Proc, CloseLock(p) PROVE Undamaged'
  BY <1>27, NoProcAssumption DEF CloseLock, data, setup, env
<1>28. ASSUME NEW p \in Proc, Exit(p) PROVE Undamaged'
  BY <1>28, NoProcAssumption DEF Exit, Gone, NHandled
<1>29. ASSUME NEW p \in Proc, NEW s \in HANDLED, Signal(p, s) PROVE Undamaged'
  <2>1. CASE Dies(p)
    <3>1. Gone(p, "killed") /\ (lock = p => hw = Baseline)
      BY <2>1, DiesLoses DEF Dies
    <3> QED
      BY <3>1, NoProcAssumption DEF Gone
  <2>2. CASE Handler(p)
    BY <1>29, <2>2 DEF Signal, Handler, fds, data, setup
  <2> QED
    BY <1>29, <2>1, <2>2 DEF Signal
<1>30. ASSUME NEW p \in Proc, Kill(p) PROVE Undamaged'
  <2>1. Gone(p, "killed") /\ (lock = p => hw = Baseline)
    BY <1>30, DiesLoses DEF Kill, Dies
  <2> QED
    BY <2>1, NoProcAssumption DEF Gone
<1> HIDE DEF RunningPc, EnterPc, BodyPc, ReleasePc, RestorePc, FinallyPc, CleanupPc,
             OpenedPc, UnarmedPc, TypeOK, Control, Descriptors, Tracks, Undamaged, Contents, Step, Goto, Unwind
<1> QED
  BY <1>1, <1>2, <1>3, <1>4, <1>5, <1>6, <1>7, <1>8, <1>9, <1>10, <1>11, <1>12, <1>13, <1>14, <1>15, <1>16, <1>17, <1>18, <1>19, <1>20, <1>21, <1>22, <1>23, <1>24, <1>25, <1>26, <1>27, <1>28, <1>29, <1>30
     DEF Next, Run, Enter, Body, Cleanup

-----------------------------------------------------------------------------
(* Theorems                                                                *)

\* Nobody has the lock at first, and the registers are the driver's.
LEMMA InitIInv == Init => IInv
<1> SUFFICES ASSUME Init PROVE IInv
  OBVIOUS
<1>1. TypeOK
  <2>1. lost \in BOOLEAN /\ dry \in [Proc -> BOOLEAN]
    BY Zenon DEF Init
  <2>2. armed \in [Proc -> 0..NHandled] /\ dict \in [Proc -> Contents]
    BY DEF Init, NHandled, NoDict, Contents
  <2>3. /\ ops \in [Proc -> 0..MaxBusOps] /\ sigs \in [Proc -> 0..MaxSignals]
        /\ faults \in 0..MaxFaults /\ kills \in 0..MaxKills
    BY BoundAssumption DEF Init
  <2> QED
    BY <2>1, <2>2, <2>3, BaselineAssumption DEF Init, TypeOK
<1>2. Control /\ Descriptors /\ Tracks /\ Undamaged
  BY NoProcAssumption
     DEF Init, Control, Descriptors, Tracks, Undamaged, EnterPc, BodyPc, ReleasePc,
         RestorePc, FinallyPc, CleanupPc, OpenedPc, UnarmedPc
<1> QED
  BY <1>1, <1>2 DEF IInv, Clean

\* What was lost stays lost.
LEMMA LostStays ==
  ASSUME TypeOK, Next, ~lost'
  PROVE  ~lost
<1>1. ASSUME NEW p \in Proc, AccessFails(p) PROVE ~lost
  BY <1>1, AccessFailsLoses
<1>2. ASSUME NEW p \in Proc, Dies(p) PROVE ~lost
  BY <1>2, DiesLoses
<1>3. ASSUME NEW p \in Proc, Enter(p) PROVE ~lost
  BY <1>1, <1>3 DEF Enter, CheckIdentity, OpenLock, Flock, OpenRegs, Save, SaveRead,
     SaveDone, Arm, ClaimRead, ClaimMask, ClaimA, ClaimEn, EnterBlock, Read32, Write32, env
<1>4. ASSUME NEW p \in Proc, Body(p) PROVE ~lost
  BY <1>1, <1>4 DEF Body, LineRead, LineWrite, BeginTransaction, EndTransaction,
     CommandFails, CommandEnds, Read32, Write32, env
<1>5. ASSUME NEW p \in Proc, Cleanup(p) PROVE ~lost
  BY <1>1, <1>5 DEF Cleanup, ReleaseEn, ReleaseRead, ReleaseMask, RestoreEn, RestoreA,
     RestoreMask, CloseRegs, ForgetRegs, CloseLock, Read32, Write32, env
<1>6. ASSUME NEW p \in Proc, Launch(p) \/ Exit(p) PROVE ~lost
  BY <1>6 DEF Launch, Exit, env
<1>7. ASSUME NEW p \in Proc, Kill(p) \/ \E n \in HANDLED : Signal(p, n) PROVE ~lost
  BY <1>2, <1>7 DEF Kill, Signal
<1> QED
  BY <1>3, <1>4, <1>5, <1>6, <1>7 DEF Next, Run

\* The invariant is inductive.
LEMMA NextIInv == IInv /\ [Next]_vars => IInv'
<1> SUFFICES ASSUME IInv, [Next]_vars PROVE IInv'
  OBVIOUS
<1>1. CASE Next
  <2>1. TypeOK' /\ Control' /\ Descriptors' /\ Tracks'
    BY <1>1, TypeStep, ControlStep, DescriptorsStep, TracksStep DEF IInv
  <2>2. ASSUME ~lost' PROVE Undamaged'
    BY <1>1, <2>2, LostStays, UndamagedStep DEF IInv, Clean
  <2> QED
    BY <2>1, <2>2 DEF IInv, Clean
<1>2. CASE UNCHANGED vars
  BY <1>2 DEF IInv, TypeOK, Control, Descriptors, Tracks, Clean, Undamaged,
              vars, control, fds, data, setup, env
<1> QED
  BY <1>1, <1>2

\* Everything the steps preserve holds throughout.
THEOREM Invariance == Spec => []IInv
BY InitIInv, NextIInv, PTL DEF Spec

\* Every variable of a session keeps its type, for any number of processes and
\* any bounds on signals, faults and kills.
THEOREM TypeCorrect == Spec => []TypeOK
<1>1. IInv => TypeOK
  BY DEF IInv
<1> QED
  BY <1>1, Invariance, PTL

\* _Session restores: while the lock is free and nothing was lost, the
\* registers hold what the driver left in them.
THEOREM Restored == Spec => []RestoredWhenFree
<1>1. IInv => RestoredWhenFree
  BY DEF IInv, Clean, Undamaged, RestoredWhenFree
<1> QED
  BY <1>1, Invariance, PTL

\* Pad._set_line() works on claimed pads without the pull-down, always.
THEOREM Driven == Spec => []DrivenWhileClaimed
<1>1. IInv => DrivenWhileClaimed
  BY DEF IInv, Descriptors, Tracks, DrivenWhileClaimed, BodyPc
<1> QED
  BY <1>1, Invariance, PTL
\* A step that changes the registers is a write by the holder of the lock.
LEMMA WriterStep ==
  ASSUME IInv, Next, hw' # hw
  PROVE  /\ lock \in Proc
         /\ pc[lock] \in BodyPc \cup ReleasePc \cup RestorePc
                         \cup {"claim_mask", "claim_a", "claim_en"}
         /\ pc'[lock] # pc[lock]
         /\ ~dry[lock]
<1> DEFINE Writes(p) == \/ ClaimMask(p) \/ ClaimA(p) \/ ClaimEn(p) \/ LineWrite(p)
                       \/ ReleaseEn(p) \/ ReleaseMask(p)
                       \/ RestoreEn(p) \/ RestoreA(p) \/ RestoreMask(p)
<1>1. TypeOK /\ Descriptors
  BY DEF IInv
<1>2. PICK p \in Proc : Writes(p)
  <2>1. ASSUME NEW p \in Proc, Enter(p), ~Writes(p) PROVE UNCHANGED hw
    BY <2>1 DEF Enter, CheckIdentity, OpenLock, Flock, OpenRegs, Save, SaveRead, SaveDone,
       Arm, ClaimRead, EnterBlock, Read32
  <2>2. ASSUME NEW p \in Proc, Body(p), ~Writes(p) PROVE UNCHANGED hw
    BY <2>2 DEF Body, LineRead, BeginTransaction, EndTransaction, CommandFails,
       CommandEnds, Read32
  <2>3. ASSUME NEW p \in Proc, Cleanup(p), ~Writes(p) PROVE UNCHANGED hw
    BY <2>3 DEF Cleanup, ReleaseRead, CloseRegs, ForgetRegs, CloseLock, Read32
  <2>4. ASSUME NEW p \in Proc,
               Launch(p) \/ Exit(p) \/ Kill(p) \/ \E n \in HANDLED : Signal(p, n)
        PROVE  UNCHANGED hw
    BY <2>4 DEF Launch, Exit, Kill, Signal, Handler, Dies, Gone
  <2> QED
    BY <2>1, <2>2, <2>3, <2>4 DEF Next, Run
<1>3. ASSUME NEW from, NEW to, NEW reg \in Reg, NEW value, from # to, pc[p] = from,
             Write32(p, reg, value, Step(p, from, to))
      PROVE  lock = p /\ ~dry[p] /\ pc'[p] # pc[p]
  <2>1. lock = p /\ ~dry[p] /\ Step(p, from, to)
    BY <1>1, <1>3, WriteEffect
  <2> QED
    BY <1>1, <1>3, <2>1 DEF Step, Goto, TypeOK
<1>4. CASE RestoreMask(p)
  <2>1. lock = p /\ ~dry[p] /\ EnterFinally(p)
    BY <1>1, <1>4, WriteEffect DEF RestoreMask, Reg
  <2> QED
    BY <1>1, <1>4, <2>1 DEF RestoreMask, EnterFinally, Goto, TypeOK, RestorePc
<1>5. CASE RestoreEn(p)
  BY <1>3, <1>5 DEF RestoreEn, Reg, RestorePc
<1>6. CASE LineWrite(p)
  BY <1>3, <1>6 DEF LineWrite, Reg, BodyPc
<1>7. CASE ClaimMask(p) \/ ClaimA(p) \/ ClaimEn(p)
  BY <1>3, <1>7 DEF ClaimMask, ClaimA, ClaimEn, Reg
<1>8. CASE ReleaseEn(p) \/ ReleaseMask(p) \/ RestoreA(p)
  BY <1>3, <1>8 DEF ReleaseEn, ReleaseMask, RestoreA, Reg, ReleasePc, RestorePc
<1> QED
  BY <1>2, <1>4, <1>5, <1>6, <1>7, <1>8

\* The flock guards the registers: they change only by a step of its holder,
\* and a dry run changes nothing.
THEOREM HolderWrites == Spec => OnlyHolderWrites
<1>1. IInv /\ [Next]_vars =>
        [hw' # hw => /\ lock \in Proc
                     /\ pc[lock] \in BodyPc \cup ReleasePc \cup RestorePc
                                      \cup {"claim_mask", "claim_a", "claim_en"}
                     /\ pc'[lock] # pc[lock]
                     /\ ~dry[lock]]_vars
  BY WriterStep
<1> QED
  BY <1>1, Invariance, PTL DEF Spec, OnlyHolderWrites

\* How the lock can be given up.
LEMMA GiveUp ==
  ASSUME TypeOK, Next, NEW p \in Proc, lock = p, lock' # p
  PROVE  CloseLock(p) \/ Exit(p) \/ exc'[p] = "killed"
<1>1. PICK q \in Proc : Launch(q) \/ Run(q) \/ Kill(q) \/ \E n \in HANDLED : Signal(q, n)
  BY DEF Next
<1>2. CASE Enter(q)
  BY <1>2, NoProcAssumption
     DEF Enter, CheckIdentity, OpenLock, Flock, OpenRegs, Save, SaveRead, SaveDone, Arm,
         ClaimRead, ClaimMask, ClaimA, ClaimEn, EnterBlock, Read32, Write32, fds
<1>3. CASE Body(q)
  BY <1>3 DEF Body, LineRead, LineWrite, BeginTransaction, EndTransaction, CommandFails,
              CommandEnds, Read32, Write32, fds
<1>4. CASE Cleanup(q) /\ ~CloseLock(q)
  BY <1>4 DEF Cleanup, ReleaseEn, ReleaseRead, ReleaseMask, RestoreEn, RestoreA,
              RestoreMask, CloseRegs, ForgetRegs, Read32, Write32, fds
<1>5. CASE CloseLock(q)
  BY <1>5 DEF CloseLock
<1>6. CASE Exit(q)
  BY <1>6 DEF Exit, Gone
<1>7. CASE Launch(q)
  BY <1>7 DEF Launch, fds
<1>8. CASE Kill(q) \/ \E n \in HANDLED : Signal(q, n)
  BY <1>8 DEF Kill, Signal, Handler, Dies, Gone, fds, TypeOK
<1> QED
  BY <1>1, <1>2, <1>3, <1>4, <1>5, <1>6, <1>7, <1>8 DEF Run

\* An exit status that reports no register error is true: the registers are
\* back to what the session saved.
THEOREM Honesty == Spec => HonestExit
<1>1. ASSUME IInv, Next, NEW p \in Proc, lock = p, lock' # p, exc'[p] \in Honest
      PROVE  hw' = saved[p]
  <2>1. TypeOK /\ Tracks
    BY <1>1 DEF IInv
  <2>2. CASE CloseLock(p)
    <3>1. exc'[p] = exc[p] /\ hw' = hw /\ pc[p] = "close_lock"
      BY <1>1, <2>1, <2>2 DEF CloseLock, Unwind, TypeOK
    <3> QED
      BY <1>1, <2>1, <3>1 DEF Tracks, FinallyPc
  <2>3. CASE Exit(p)
    BY <1>1, <2>1, <2>3 DEF Exit, Gone, TypeOK, Tracks
  <2>4. CASE exc'[p] = "killed"
    BY <1>1, <2>4 DEF Honest
  <2> QED
    BY <1>1, <2>1, <2>2, <2>3, <2>4, GiveUp
<1>2. IInv /\ [Next]_vars =>
        [\A p \in Proc : /\ lock = p /\ lock' # p
                         /\ exc'[p] \in {"none", "CommandError", "SystemExit"}
                         => hw' = saved[p]]_vars
  BY <1>1 DEF Honest
<1> QED
  BY <1>2, Invariance, PTL DEF Spec, HonestExit

-----------------------------------------------------------------------------
(* The refinement of PadCustody                                            *)

\* What a step may do to the three variables of the custody at once.
LEMMA CustodyEffect ==
  ASSUME TypeOK, Next
  PROVE  /\ hw' # hw => UNCHANGED <<lock, lost>>
         /\ \/ lock' = lock
            \/ lock' = NoProc
            \/ lock = NoProc /\ lock' \in Proc /\ UNCHANGED lost
         /\ lost' => lost \/ hw # Baseline
<1> DEFINE Effect == /\ hw' # hw => UNCHANGED <<lock, lost>>
                     /\ \/ lock' = lock
                        \/ lock' = NoProc
                        \/ lock = NoProc /\ lock' \in Proc /\ UNCHANGED lost
                     /\ lost' => lost \/ hw # Baseline
<1>1. ASSUME NEW p \in Proc, AccessFails(p) PROVE lost' => lost \/ hw # Baseline
  BY <1>1, Zenon DEF AccessFails
<1>2. ASSUME NEW p \in Proc, Dies(p) PROVE Effect
  <2>1. lost' => lost \/ hw # Baseline
    BY <1>2, Zenon DEF Dies
  <2> QED
    BY <1>2, <2>1 DEF Dies, Gone
<1>3. ASSUME NEW p \in Proc, Enter(p) PROVE Effect
  BY <1>1, <1>3 DEF Enter, CheckIdentity, OpenLock, Flock, OpenRegs, Save, SaveRead,
     SaveDone, Arm, ClaimRead, ClaimMask, ClaimA, ClaimEn, EnterBlock, Read32, Write32,
     fds, env
<1>4. ASSUME NEW p \in Proc, Body(p) PROVE Effect
  BY <1>1, <1>4 DEF Body, LineRead, LineWrite, BeginTransaction, EndTransaction,
     CommandFails, CommandEnds, Read32, Write32, fds, env
<1>5. ASSUME NEW p \in Proc, Cleanup(p) PROVE Effect
  BY <1>1, <1>5 DEF Cleanup, ReleaseEn, ReleaseRead, ReleaseMask, RestoreEn, RestoreA,
     RestoreMask, CloseRegs, ForgetRegs, CloseLock, Read32, Write32, fds, env
<1>6. ASSUME NEW p \in Proc, Launch(p) \/ Exit(p) PROVE Effect
  BY <1>6 DEF Launch, Exit, Gone, fds, env
<1>7. ASSUME NEW p \in Proc, Kill(p) \/ \E n \in HANDLED : Signal(p, n) PROVE Effect
  <2>1. CASE Dies(p)
    BY <1>2, <2>1
  <2>2. CASE Handler(p) /\ UNCHANGED lost
    BY <2>2 DEF Handler, fds
  <2> QED
    BY <1>7, <2>1, <2>2 DEF Kill, Signal
<1> QED
  BY <1>3, <1>4, <1>5, <1>6, <1>7 DEF Next, Run

\* A step of a session is a step of the custody, or none.
LEMMA CustodyStep ==
  ASSUME IInv, IInv', Next
  PROVE  [Custody!Next]_(Custody!custody)
<1> USE DEF Custody!custody
<1>1. TypeOK /\ TypeOK'
  BY DEF IInv
<1>2. /\ lock = NoProc /\ ~lost => hw = Baseline
      /\ lock' = NoProc /\ ~lost' => hw' = Baseline
  BY DEF IInv, Clean, Undamaged
<1>3. ~lost' => ~lost
  BY <1>1, LostStays
<1>4. CASE hw' # hw
  <2>1. lock # NoProc /\ hw' \in Contents /\ UNCHANGED <<lock, lost>>
    BY <1>1, <1>4, CustodyEffect, WriterStep, NoProcAssumption DEF TypeOK
  <2> QED
    BY <2>1 DEF Custody!Next, Custody!Change, Custody!Contents, Custody!Reg, Custody!Bit,
                Custody!CLK_BIT, Custody!DATA_BIT, Custody!DATA_PD_EN, Contents, Reg, Bit,
                CLK_BIT, DATA_BIT, DATA_PD_EN
<1>5. CASE hw' = hw /\ lock' = lock
  <2>1. CASE lost' /\ ~lost
    <3>1. lock # NoProc
      BY <1>1, <1>2, <2>1, CustodyEffect
    <3>2. lost' = TRUE
      BY <2>1
    <3> QED
      BY <1>5, <3>1, <3>2 DEF Custody!Next, Custody!Accident
  <2>2. CASE lost' <=> lost
    <3>1. lost' = lost
      BY <1>1, <2>2, Zenon DEF TypeOK
    <3> QED
      BY <1>5, <3>1
  <2> QED
    BY <1>3, <2>1, <2>2
<1>6. CASE hw' = hw /\ lock' # lock /\ lock' # NoProc
  BY <1>1, <1>6, CustodyEffect DEF Custody!Next, Custody!Take
<1>7. CASE hw' = hw /\ lock' # lock /\ lock' = NoProc
  <2>1. CASE lost' /\ ~lost
    <3>1. lost' = TRUE
      BY <2>1
    <3> QED
      BY <1>7, <3>1 DEF Custody!Next, Custody!Accident
  <2>2. CASE lost' <=> lost
    <3>1. lost' = lost
      BY <1>1, <2>2, Zenon DEF TypeOK
    <3>2. hw = Baseline \/ lost
      BY <1>2, <1>7, <2>2
    <3> QED
      BY <1>7, <3>1, <3>2 DEF Custody!Next, Custody!GiveBack
  <2> QED
    BY <1>3, <2>1, <2>2
<1> QED
  BY <1>4, <1>5, <1>6, <1>7

\* The sessions implement the custody of the pads: one holder, who alone changes
\* the registers and gives them back as the driver left them unless an accident hit.
THEOREM KeepsCustody == Spec => RefinesCustody
<1>1. Init => Custody!Init
  BY Zenon DEF Init, Custody!Init
<1>2. IInv /\ IInv' /\ [Next]_vars => [Custody!Next]_(Custody!custody)
  <2>1. CASE Next
    BY <2>1, CustodyStep
  <2>2. CASE UNCHANGED vars
    BY <2>2 DEF vars, fds, env, Custody!custody
  <2> QED
    BY <2>1, <2>2
<1> QED
  BY <1>1, <1>2, Invariance, PTL DEF Spec, RefinesCustody, Custody!Spec
-----------------------------------------------------------------------------
(* Open drain                                                              *)

\* The writes a session makes.
LEMMA WriteKinds ==
  ASSUME IInv, Next, hw' # hw
  PROVE  \E p \in Proc :
           /\ lock = p /\ ~dry[p] /\ regFd[p] = "open" /\ saved[p] # NoSave
           /\ UNCHANGED <<lock, saved>>
           /\ \/ \E value : hw' = [hw EXCEPT !["MASK"] = value]
              \/ hw' = [hw EXCEPT !["A"] = {}]
              \/ hw' = [hw EXCEPT !["EN"] = {}]
              \/ pc[p] = "line" /\ \E value : hw' = [hw EXCEPT !["EN"] = value]
              \/ hw' = [hw EXCEPT !["EN"] = saved[p]["EN"]]
              \/ pc[p] = "restore_a" /\ hw' = [hw EXCEPT !["A"] = saved[p]["A"]]
<1> DEFINE Writes(p) == \/ ClaimMask(p) \/ ClaimA(p) \/ ClaimEn(p) \/ LineWrite(p)
                       \/ ReleaseEn(p) \/ ReleaseMask(p)
                       \/ RestoreEn(p) \/ RestoreA(p) \/ RestoreMask(p)
<1>1. TypeOK /\ Descriptors
  BY DEF IInv
<1>2. PICK p \in Proc : Writes(p)
  <2>1. ASSUME NEW p \in Proc, Enter(p), ~Writes(p) PROVE UNCHANGED hw
    BY <2>1 DEF Enter, CheckIdentity, OpenLock, Flock, OpenRegs, Save, SaveRead, SaveDone,
       Arm, ClaimRead, EnterBlock, Read32
  <2>2. ASSUME NEW p \in Proc, Body(p), ~Writes(p) PROVE UNCHANGED hw
    BY <2>2 DEF Body, LineRead, BeginTransaction, EndTransaction, CommandFails,
       CommandEnds, Read32
  <2>3. ASSUME NEW p \in Proc, Cleanup(p), ~Writes(p) PROVE UNCHANGED hw
    BY <2>3 DEF Cleanup, ReleaseRead, CloseRegs, ForgetRegs, CloseLock, Read32
  <2>4. ASSUME NEW p \in Proc,
               Launch(p) \/ Exit(p) \/ Kill(p) \/ \E n \in HANDLED : Signal(p, n)
        PROVE  UNCHANGED hw
    BY <2>4 DEF Launch, Exit, Kill, Signal, Handler, Dies, Gone
  <2> QED
    BY <2>1, <2>2, <2>3, <2>4 DEF Next, Run
<1>3. ASSUME NEW reg \in Reg, NEW value, NEW ACTION Then, Write32(p, reg, value, Then)
      PROVE  /\ lock = p /\ ~dry[p] /\ regFd[p] = "open" /\ UNCHANGED <<lock, saved>>
             /\ hw' = [hw EXCEPT ![reg] = value]
  BY <1>1, <1>3, WriteEffect DEF Write32, fds, data
<1>4. saved[p] # NoSave
  BY <1>1, <1>2 DEF Descriptors, ClaimMask, ClaimA, ClaimEn, LineWrite, ReleaseEn, ReleaseMask,
     RestoreEn, RestoreA, RestoreMask, BodyPc, CleanupPc, ReleasePc, RestorePc
<1>5. CASE ClaimMask(p) \/ ReleaseMask(p) \/ RestoreMask(p)
  BY <1>3, <1>4, <1>5 DEF ClaimMask, ReleaseMask, RestoreMask, Reg
<1>6. CASE ClaimA(p)
  BY <1>3, <1>4, <1>6 DEF ClaimA, Reg
<1>7. CASE ClaimEn(p) \/ ReleaseEn(p)
  BY <1>3, <1>4, <1>7 DEF ClaimEn, ReleaseEn, Reg
<1>8. CASE LineWrite(p)
  BY <1>3, <1>4, <1>8 DEF LineWrite, Reg
<1>9. CASE RestoreEn(p)
  BY <1>3, <1>4, <1>9 DEF RestoreEn, Reg
<1>10. CASE RestoreA(p)
  BY <1>3, <1>4, <1>10 DEF RestoreA, Reg
<1> QED
  BY <1>2, <1>5, <1>6, <1>7, <1>8, <1>9, <1>10

\* Contents are saved as they are, or forgotten with the process.
LEMMA SavedIsRead ==
  ASSUME IInv, Next, NEW p \in Proc, saved'[p] # saved[p]
  PROVE  saved'[p] = NoSave \/ (saved'[p] = hw /\ hw' = hw)
<1>1. ASSUME NEW q \in Proc, SaveDone(q)
      PROVE  saved' = saved \/ (saved' = [saved EXCEPT ![q] = hw] /\ hw' = hw)
  <2>1. CASE saved' = saved
    BY <2>1
  <2>2. CASE saved' = [saved EXCEPT ![q] = dict[q]] /\ hw' = hw
    <3>1. lock = q /\ pc[q] = "save_y"
      BY <1>1 DEF SaveDone, IInv, Descriptors, OpenedPc
    <3>2. dict[q] \in Contents /\ hw \in Contents
      BY DEF IInv, TypeOK
    <3>3. dict[q]["MASK"] = hw["MASK"] /\ dict[q]["A"] = hw["A"] /\ dict[q]["EN"] = hw["EN"]
      BY <3>1 DEF IInv, Tracks
    <3>4. dict[q] = hw
      BY <3>2, <3>3, SameContents
    <3> QED
      BY <2>2, <3>4
  <2> QED
    BY <1>1, <2>1, <2>2 DEF SaveDone
<1>2. ASSUME NEW q \in Proc, Enter(q), ~SaveDone(q) PROVE saved' = saved
  BY <1>2 DEF Enter, CheckIdentity, OpenLock, Flock, OpenRegs, Save, SaveRead, Arm, ClaimRead,
     ClaimMask, ClaimA, ClaimEn, EnterBlock, Read32, Write32, data
<1>3. ASSUME NEW q \in Proc, Body(q) PROVE saved' = saved
  BY <1>3 DEF Body, LineRead, LineWrite, BeginTransaction, EndTransaction, CommandFails,
     CommandEnds, Read32, Write32, data
<1>4. ASSUME NEW q \in Proc, Cleanup(q) PROVE saved' = saved
  BY <1>4 DEF Cleanup, ReleaseEn, ReleaseRead, ReleaseMask, RestoreEn, RestoreA, RestoreMask,
     CloseRegs, ForgetRegs, CloseLock, Read32, Write32, data
<1>5. ASSUME NEW q \in Proc,
             Launch(q) \/ Exit(q) \/ Kill(q) \/ \E n \in HANDLED : Signal(q, n)
      PROVE  saved' = saved \/ saved' = [saved EXCEPT ![q] = NoSave]
  BY <1>5 DEF Launch, Exit, Kill, Signal, Handler, Dies, Gone, data
<1>6. \E q \in Proc : \/ saved' = saved
                      \/ saved' = [saved EXCEPT ![q] = NoSave]
                      \/ saved' = [saved EXCEPT ![q] = hw] /\ hw' = hw
  BY <1>1, <1>2, <1>3, <1>4, <1>5 DEF Next, Run
<1> QED
  BY <1>6 DEF IInv, TypeOK

\* The lock is taken before anything is saved.
LEMMA TakenUnsaved ==
  ASSUME IInv, Next, NEW p \in Proc, lock' = p, lock # p
  PROVE  saved[p] = NoSave /\ hw' = hw
<1>1. Flock(p)
  <2>1. ASSUME NEW q \in Proc, Enter(q), ~Flock(q) PROVE lock' = lock
    BY <2>1 DEF Enter, CheckIdentity, OpenLock, OpenRegs, Save, SaveRead, SaveDone, Arm,
       ClaimRead, ClaimMask, ClaimA, ClaimEn, EnterBlock, Read32, Write32, fds
  <2>2. ASSUME NEW q \in Proc, Body(q) PROVE lock' = lock
    BY <2>2 DEF Body, LineRead, LineWrite, BeginTransaction, EndTransaction, CommandFails,
       CommandEnds, Read32, Write32, fds
  <2>3. ASSUME NEW q \in Proc, Cleanup(q) PROVE lock' \in {lock, NoProc}
    BY <2>3 DEF Cleanup, ReleaseEn, ReleaseRead, ReleaseMask, RestoreEn, RestoreA,
       RestoreMask, CloseRegs, ForgetRegs, CloseLock, Read32, Write32, fds
  <2>4. ASSUME NEW q \in Proc,
               Launch(q) \/ Exit(q) \/ Kill(q) \/ \E n \in HANDLED : Signal(q, n)
        PROVE  lock' \in {lock, NoProc}
    BY <2>4 DEF Launch, Exit, Kill, Signal, Handler, Dies, Gone, fds
  <2>5. ASSUME NEW q \in Proc, Flock(q) PROVE lock' \in {lock, q}
    BY <2>5 DEF Flock
  <2> QED
    BY <2>1, <2>2, <2>3, <2>4, <2>5, NoProcAssumption DEF Next, Run
<1> QED
  BY <1>1 DEF Flock, IInv, Descriptors, UnarmedPc

\* Every step keeps Drains.
LEMMA DrainsStep ==
  ASSUME IInv, Drains, [Next]_vars
  PROVE  Drains'
<1>1. hw \in Contents /\ \A p \in Proc : saved[p] # NoSave => saved[p] \in Contents
  BY DEF IInv, TypeOK
<1>2. CASE Next /\ hw' = hw
  <2>1. ASSUME NEW p \in Proc, saved'[p] # NoSave
        PROVE  Inherited(saved'[p])
    BY <1>2, <2>1, SavedIsRead DEF Drains
  <2>2. ASSUME NEW p \in Proc, lock' = p, saved'[p] # NoSave
        PROVE  hw["A"] \in {{}, saved'[p]["A"]}
    BY <1>2, <2>2, SavedIsRead, TakenUnsaved DEF Drains
  <2> QED
    BY <1>2, <2>1, <2>2 DEF Drains
<1>3. CASE Next /\ hw' # hw
  <2>1. PICK p \in Proc :
           /\ lock = p /\ ~dry[p] /\ regFd[p] = "open" /\ saved[p] # NoSave
           /\ UNCHANGED <<lock, saved>>
           /\ \/ \E value : hw' = [hw EXCEPT !["MASK"] = value]
              \/ hw' = [hw EXCEPT !["A"] = {}]
              \/ hw' = [hw EXCEPT !["EN"] = {}]
              \/ pc[p] = "line" /\ \E value : hw' = [hw EXCEPT !["EN"] = value]
              \/ hw' = [hw EXCEPT !["EN"] = saved[p]["EN"]]
              \/ pc[p] = "restore_a" /\ hw' = [hw EXCEPT !["A"] = saved[p]["A"]]
    BY <1>3, WriteKinds
  <2>2. Inherited(saved[p]) /\ hw["A"] \in {{}, saved[p]["A"]} /\ Inherited(hw)
    BY <2>1 DEF Drains
  <2>3. pc[p] = "line" => hw["A"] = {}
    BY <2>1 DEF IInv, Tracks, BodyPc
  <2>4. pc[p] = "restore_a" => hw["EN"] = saved[p]["EN"]
    BY <2>1 DEF IInv, Tracks
  <2>5. Inherited(hw') /\ hw'["A"] \in {{}, saved[p]["A"]}
    BY <1>1, <2>1, <2>2, <2>3, <2>4 DEF Inherited, Contents, Reg
  <2> QED
    BY <2>1, <2>5 DEF Drains
<1>4. CASE UNCHANGED vars
  BY <1>4 DEF vars, fds, data, Drains
<1> QED
  BY <1>2, <1>3, <1>4

\* Software never drives a line high that the driver had not left so, in any
\* interleaving of claim, line updates and cleanups; and such a line not either
\* from the second write of claim() to the last one of restore(), whatever the
\* driver's contents are: A is 0 while the lines are used, EN is 0 before MASK
\* gives them up, and restore() writes MASK last.
THEOREM NeverDrivenHigh == Spec => []OpenDrain
<1>1. Init => Drains
  BY DEF Init, Drains, Inherited
<1>2. IInv /\ Drains /\ [Next]_vars => Drains'
  BY DrainsStep
<1>3. IInv /\ Drains => OpenDrain
  <2> SUFFICES ASSUME IInv, Drains
               PROVE  OpenDrain
    OBVIOUS
  <2>1. DrivenHigh \subseteq Baseline["A"] \cap Baseline["EN"]
    BY DEF Drains, Inherited, DrivenHigh
  <2>2. ASSUME NEW p \in Proc, lock = p, regFd[p] = "open", ~dry[p],
               pc[p] \in {"claim_en", "entered"} \cup BodyPc
        PROVE  hw["A"] = {}
    BY <2>2 DEF IInv, Tracks
  <2>3. ASSUME NEW p \in Proc, lock = p, ~dry[p],
               pc[p] \in {"release_read", "release_mask"}
        PROVE  hw["EN"] = {}
    BY <2>3 DEF IInv, Tracks
  <2>4. ASSUME NEW p \in Proc, lock = p, ~dry[p], pc[p] \in RestorePc
        PROVE  Line \cap hw["MASK"] = {}
    BY <2>4 DEF IInv, Tracks
  <2> QED
    BY <2>1, <2>2, <2>3, <2>4 DEF OpenDrain, DrivenHigh
<1> QED
  BY <1>1, <1>2, <1>3, Invariance, PTL DEF Spec

=============================================================================
