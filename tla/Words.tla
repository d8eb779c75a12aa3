------------------------------- MODULE Words -------------------------------
(***************************************************************************)
(* The numbers the vendor's program is made of: bytes, and integers of a   *)
(* fixed width.  Of the exclusive or nothing is used but that it is        *)
(* symmetric, undoes itself and keeps the width of its operands.           *)
(***************************************************************************)
EXTENDS Integers

CONSTANTS
  Byte,      \* 0..255
  Wide,      \* integers are taken modulo this, 2^32 in the script
  Exor(_, _)

Num == 0..Wide - 1

ASSUME WideAssumption == Wide \in Nat \ {0}
ASSUME ExorAssumption ==
  /\ 0 \in Byte
  /\ \A a, b \in Byte : /\ Exor(a, b) \in Byte
                        /\ Exor(a, b) = Exor(b, a)
                        /\ Exor(Exor(a, b), b) = a
  /\ \A a, b \in Num : Exor(a, b) \in Num
  /\ \A a \in 0..Wide * Wide, b \in Num : Exor(a, b) \in Nat

============================================================================
