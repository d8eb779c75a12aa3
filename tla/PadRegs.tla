------------------------------ MODULE PadRegs ------------------------------
(***************************************************************************)
(* The three writable DC_GPIO_DDCVGA registers and what nitroglow.pad does *)
(* to their contents.  A register value is the set of the bits that are    *)
(* set in it; the bits the tool never names (0xCF400000 of MASK on the     *)
(* supported card) are the single element "REST", so that a lost or        *)
(* invented bit shows.                                                     *)
(***************************************************************************)

\* The registers restore() writes; Y only reports the lines and is never written.
Reg == {"MASK", "A", "EN"}

CLK_BIT    == "CLK"
DATA_BIT   == "DATA"
DATA_PD_EN == "DATA_PD_EN"

Bit  == {CLK_BIT, DATA_BIT, DATA_PD_EN, "REST"}
Line == {CLK_BIT, DATA_BIT}

\* The contents of the three writable registers.
Contents == [Reg -> SUBSET Bit]

\* claim(): take both pads for software and drop the stuck SDA pull-down.
Claimed(mask) == (mask \ {DATA_PD_EN}) \cup Line

\* release(): hand both pads back; the pull-down bit is left as it is.
Released(mask) == mask \ Line

\* _set_line(): EN is inverted, a set bit pulls the line low.
LineSet(en, bit, high) == IF high THEN en \ {bit} ELSE en \cup {bit}

=============================================================================
