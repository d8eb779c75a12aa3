---------------------------- MODULE MCCommands ----------------------------
(***************************************************************************)
(* Commands for TLC: two levels per register, two modes, and jobs that give some, all   *)
(* or none of their options, usable or not.                                *)
(***************************************************************************)
EXTENDS Commands

Registers == GlowRegister
Values    == Level \cup Mode

Bluish == <<"dim", "dim", "full">>

Apply(color, brightness, mode) ==
  [name |-> "apply", color |-> color, brightness |-> brightness, mode |-> mode,
   dry |-> FALSE]
Set(color, brightness, mode, dry) ==
  [name |-> "set", color |-> color, brightness |-> brightness, mode |-> mode,
   dry |-> dry]
Plain(name) == [name |-> name, dry |-> FALSE]

Jobs == {Set(Bluish, "full", "custom", FALSE), Set(Bluish, "full", "custom", TRUE),
         Set(Bluish, Bad, "custom", FALSE), Set(Absent, Absent, Absent, FALSE),
         Apply(Bluish, "full", Bad), Apply(Absent, "dim", "custom"),
         Apply(Bad, "full", "custom"), Plain("get"), Plain("off"),
         Plain("restore"), Plain("probe"), [name |-> "probe", dry |-> TRUE]}
===========================================================================
