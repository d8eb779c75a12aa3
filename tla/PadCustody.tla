----------------------------- MODULE PadCustody -----------------------------
(***************************************************************************)
(* What the sessions of nitroglow owe the display driver: the pad          *)
(* registers are in the custody of one process at a time, only that one    *)
(* changes them, and when it gives them back they are as the driver left   *)
(* them.  The debt can be lost by an accident while somebody has them, and *)
(* stays lost: no session knows better than what it finds.                 *)
(***************************************************************************)
EXTENDS PadRegs

CONSTANTS Client, Nobody, Baseline

VARIABLES
  pads,    \* the registers
  holder,  \* who has custody of them
  lost     \* an accident has hit

custody == <<pads, holder, lost>>

Init ==
  /\ pads = Baseline
  /\ holder = Nobody
  /\ lost = FALSE

Take(c) ==
  /\ holder = Nobody
  /\ holder' = c
  /\ UNCHANGED <<pads, lost>>

Change ==
  /\ holder # Nobody
  /\ pads' \in Contents
  /\ UNCHANGED <<holder, lost>>

GiveBack ==
  /\ holder # Nobody
  /\ pads = Baseline \/ lost
  /\ holder' = Nobody
  /\ UNCHANGED <<pads, lost>>

\* The holder is stopped from restoring, and may be gone.
Accident ==
  /\ holder # Nobody
  /\ lost' = TRUE
  /\ holder' \in {holder, Nobody}
  /\ UNCHANGED pads

Next == (\E c \in Client : Take(c)) \/ Change \/ GiveBack \/ Accident

Spec == Init /\ [][Next]_custody

=============================================================================
