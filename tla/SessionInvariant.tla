------------------------ MODULE SessionInvariant ------------------------
(***************************************************************************)
(* The inductive invariant of Session.  It has four layers: what is        *)
(* pending where (Control), which descriptors are open where               *)
(* (Descriptors), how the registers relate to what the holder of the lock  *)
(* saved, whatever has happened before (Tracks), and what the saved        *)
(* contents are as long as nothing was lost (Clean).                       *)
(***************************************************************************)
EXTENDS Session

\* The part of __enter__ that has the register file open.
OpenedPc == {"save_mask", "save_a", "save_en", "save_y", "arm", "claim_read",
             "claim_mask", "claim_a", "claim_en", "entered"}
UnarmedPc == {"idle", "identity", "open_lock", "flock", "open_regs",
              "save_mask", "save_a", "save_en", "save_y"}
CleanupPc == ReleasePc \cup RestorePc \cup FinallyPc

\* Clauses are pending exactly where Python has them pending.
Control ==
  \A p \in Proc :
    /\ pc[p] \in EnterPc \cup {"idle"} => fins[p] = 0 /\ block[p] = "none"
    /\ pc[p] \in BodyPc => fins[p] = 0 /\ block[p] \in {"with", "stop"}
    /\ pc[p] \in ReleasePc \cup RestorePc => fins[p] > 0
    /\ pc[p] = "leaving" => fins[p] = 0 /\ block[p] = "none"
    /\ pc[p] \in EnterPc => exc[p] = "none"
    /\ pc[p] \in UnarmedPc => armed[p] = 0
    /\ pc[p] = "arm" => armed[p] < NHandled

\* Only the holder of the lock has the register file open, and save() has run
\* before anything that writes.
Descriptors ==
  \A p \in Proc :
    /\ lock = p => lockFd[p] = "open"
    /\ regFd[p] \in {"open", "stale"} => lock = p
    /\ pc[p] \in {"idle", "identity", "open_lock", "flock"}
         => lock # p /\ regFd[p] = "unset"
    /\ pc[p] = "flock" => lockFd[p] = "open"
    /\ pc[p] = "open_regs" => lock = p /\ regFd[p] = "unset"
    /\ pc[p] \in OpenedPc \cup {"release_mask"} \cup RestorePc => regFd[p] = "open"
    /\ pc[p] \in BodyPc \cup CleanupPc => regFd[p] # "unset" /\ lockFd[p] # "unset"
    /\ pc[p] = "forget_regs" => regFd[p] = "stale"
    /\ pc[p] = "close_lock" => regFd[p] = "closed"
    /\ armed[p] > 0 => regFd[p] # "unset" /\ lockFd[p] # "unset"
    /\ pc[p] \in {"arm", "claim_read", "claim_mask", "claim_a", "claim_en", "entered"}
                 \cup BodyPc \cup CleanupPc
         => saved[p] # NoSave
    /\ armed[p] > 0 => saved[p] # NoSave
    /\ pc[p] \in UnarmedPc => saved[p] = NoSave

\* Outcomes that are not an error of the session itself.
Honest == {"none", "CommandError", "SystemExit"}

\* The registers against what their holder saved.
Tracks ==
  \A p \in Proc : lock = p =>
    /\ pc[p] \in {"save_a", "save_en", "save_y"} => dict[p]["MASK"] = hw["MASK"]
    /\ pc[p] \in {"save_en", "save_y"} => dict[p]["A"] = hw["A"]
    /\ pc[p] = "save_y" => dict[p]["EN"] = hw["EN"]
    /\ pc[p] \in {"arm", "claim_read", "claim_mask"} => hw = saved[p]
    /\ dry[p] /\ saved[p] # NoSave => hw = saved[p]
    /\ pc[p] = "claim_mask" => Line \subseteq tmp[p] /\ DATA_PD_EN \notin tmp[p]
    /\ pc[p] \in {"claim_a", "claim_en", "entered"} \cup BodyPc
         => dry[p] \/ regFd[p] # "open"
                   \/ (Line \subseteq hw["MASK"] /\ DATA_PD_EN \notin hw["MASK"])
    /\ pc[p] \in {"claim_en", "entered"} \cup BodyPc
         => dry[p] \/ regFd[p] # "open" \/ hw["A"] = {}
    /\ pc[p] \in {"release_read", "release_mask", "restore_en"} => dry[p] \/ hw["EN"] = {}
    /\ pc[p] = "release_mask" => dry[p] \/ Line \cap tmp[p] = {}
    /\ pc[p] \in RestorePc => dry[p] \/ Line \cap hw["MASK"] = {}
    /\ pc[p] \in {"restore_a", "restore_mask"} => hw["EN"] = saved[p]["EN"]
    /\ pc[p] = "restore_mask" => hw["A"] = saved[p]["A"]
    /\ pc[p] \in FinallyPc /\ exc[p] \in Honest => hw = saved[p]
    /\ pc[p] = "leaving" => exc[p] \notin Honest

\* Sessions save the baseline and leave it behind.
Undamaged ==
  /\ lock = NoProc => hw = Baseline
  /\ \A p \in Proc :
       /\ saved[p] # NoSave => saved[p] = Baseline
       /\ lock = p =>
            /\ saved[p] = NoSave => hw = Baseline
            /\ regFd[p] # "open" => hw = Baseline
            /\ pc[p] \in FinallyPc \cup {"leaving"} => hw = Baseline

\* ... until something is lost.
Clean == ~lost => Undamaged

\* Everything the steps preserve together.
IInv == TypeOK /\ Control /\ Descriptors /\ Tracks /\ Clean

\* A line at 1 in A and enabled at once is one the driver left so, whether or not
\* MASK has claimed it.
Inherited(h) == Line \cap h["A"] \cap h["EN"] \subseteq Baseline["A"] \cap Baseline["EN"]

\* A is 0 or as saved whenever EN may be written, so no mix of the two writes
\* sets both bits of a line if the saved contents did not.
Drains ==
  /\ Inherited(hw)
  /\ \A p \in Proc : saved[p] # NoSave => Inherited(saved[p])
  /\ \A p \in Proc : lock = p /\ saved[p] # NoSave => hw["A"] \in {{}, saved[p]["A"]}

============================================================================
