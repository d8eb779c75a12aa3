---------------------------- MODULE MCSession ----------------------------
(***************************************************************************)
(* Session for TLC: two register contents a driver may have left, and the  *)
(* symmetry of the process slots, for runs that check no liveness.         *)
(***************************************************************************)
EXTENDS SessionInvariant, TLC

\* What the driver leaves on the card: 0xCF401000 in MASK, A and EN at 0.
DriverContents == [MASK |-> {DATA_PD_EN, "REST"}, A |-> {}, EN |-> {}]

\* A line handed over in the middle of a transfer, with stale bits everywhere,
\* both that would drive SDA high once it is claimed among them.
MidTransferContents == [MASK |-> {CLK_BIT, DATA_PD_EN, "REST"},
                        A    |-> {DATA_BIT},
                        EN   |-> {CLK_BIT, DATA_BIT}]

ProcSymmetry == Permutations(Proc)
===========================================================================
