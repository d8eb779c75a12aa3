---------------------------- MODULE MCSmbusWire ----------------------------
(***************************************************************************)
(* SmbusWire for TLC: bytes of three bits, so that an address byte has two *)
(* for the address, and a few calls of every kind.                         *)
(***************************************************************************)
EXTENDS SmbusWire

OurAddress == <<TRUE, FALSE>>

\* Neither is the other reversed or shifted.
SomeByte  == <<TRUE, FALSE, FALSE>>
OtherByte == <<FALSE, TRUE, TRUE>>

Write(r, v) == [op |-> "write", reg |-> r, value |-> v, dry |-> FALSE]
Read(op, r) == [op |-> op, reg |-> r, dry |-> FALSE]
DryRun(c)   == [c EXCEPT !.dry = TRUE]

OneOfEach == {Write(SomeByte, OtherByte), Read("read", SomeByte),
              Read("probe", OtherByte)}
DryRuns   == {DryRun(Write(SomeByte, OtherByte))}
Calls     == OneOfEach \cup DryRuns \cup {Write(OtherByte, SomeByte), Write(SomeByte, SomeByte)}
============================================================================
