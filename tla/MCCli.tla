------------------------------- MODULE MCCli -------------------------------
(***************************************************************************)
(* Cli for TLC: one command of every kind, and a card that is right or     *)
(* wrong in one attribute.                                                 *)
(***************************************************************************)
EXTENDS Cli

Registers == GlowRegister
Values    == Level \cup Mode

DriverContents == [MASK |-> {"DATA_PD_EN", "REST"}, A |-> {}, EN |-> {}]

Plain(name) == [name |-> name, dry |-> FALSE]

Apply(color, brightness, mode) ==
  [name |-> "apply", color |-> color, brightness |-> brightness, mode |-> mode,
   dry |-> FALSE]

Jobs == {Plain("off"), [name |-> "off", dry |-> TRUE], Plain("probe"),
         [name |-> "probe", dry |-> TRUE], Plain("restore"),
         Apply(Absent, "full", Bad), Apply(Absent, "full", "custom"),
         Apply(Bad, Absent, Absent), Apply(Absent, Absent, Absent)}

Supported == [name \in EXPECTED |-> "expected"]

Cards == {Supported, [Supported EXCEPT !["revision"] = "other"],
          [Supported EXCEPT !["subsystem_device"] = "unreadable"]}
============================================================================
