----------------------------- MODULE MCAtomI2c -----------------------------
(***************************************************************************)
(* AtomI2c for TLC: every content of a short stretch of bytes, below a few *)
(* tables that refer to it, and images cut in every stage.                 *)
(***************************************************************************)
EXTENDS AtomI2c

CONSTANT Longest   \* bytes of the longest stretch

\* Ends, empty sizes, i2c records and ids that are and are not a pin's.
SomeBytes == {0, 1, 4, 255}
Stretches == UNION {[1..n -> SomeBytes] : n \in 0..Longest}

OemPresent == [known |-> TRUE, feature |-> 2, gpio |-> 4]
OemOld     == [known |-> FALSE, feature |-> 2, gpio |-> 1]

Tables(bytes, pins, fw, paths, volt, cut) ==
  [bytes |-> bytes, pins |-> pins, fw |-> fw, paths |-> paths, volt |-> volt,
   cut |-> cut]
Paths(cont, lists) == [cont |-> cont, lists |-> lists]
Region(first, end) == [first |-> first, end |-> end]

Shared  == {Tables(b, <<4, 1, 4>>, OemPresent, Paths(4, <<0, Absent, 1>>),
                   Region(0, Longest), "nowhere") : b \in Stretches}
Partial == {Tables(b, p, OemOld, q, v, "nowhere") :
              b \in [1..4 -> SomeBytes], p \in {<<0>>, Absent},
              q \in {Paths(5, <<0, 9>>), Paths(6, <<0>>), Absent},
              v \in {Region(0, 9), Region(2, 0), Absent}}
Cut     == {Tables(<< >>, <<4>>, OemPresent, Paths(4, << >>), Region(0, 4), c) :
              c \in {"rom_header", "gpio_pin_lut", "firmwareinfo",
                     "displayobjectinfo", "voltageobject_info"}}

Images == Shared \cup Partial \cup Cut
============================================================================
