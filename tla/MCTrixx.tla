------------------------------ MODULE MCTrixx ------------------------------
(***************************************************************************)
(* Trixx for TLC: bytes of two bits under a header of six, keys of up to   *)
(* six bytes; programs of three cases over three-bit integers.             *)
(***************************************************************************)
EXTENDS TrixxInvariant, Bitwise

\* The exclusive or of Python and C#.
BitXor(a, b) == a ^^ b

Blobs == <<"b98", "b132">>

Header == <<1, 0, 3, 0, 0, 2>>

Keys == UNION {[1..n -> {1, 2}] : n \in 1..6}

Sources ==
  {[b98 |-> [plain |-> p, key |-> k], b132 |-> [plain |-> q, key |-> <<1, 3>>]] :
     p \in {Header \o <<3, 1>>, <<1, 0, 3>>}, q \in {Header \o <<3>>, << >>}, k \in Keys}

---------------------------------------------------------------------------

Const(v)  == [mul |-> 0, xor |-> v, known |-> TRUE]
Mixed     == [mul |-> 3, xor |-> 5, known |-> TRUE]
Unhandled == [mul |-> 0, xor |-> 6, known |-> FALSE]

Assign(e) == [kind |-> "assign", e |-> e]
If(eq)    == [kind |-> "if", var |-> "num10", val |-> "0xE409", eq |-> eq]
Pick(c)   == [kind |-> "pick", c |-> c]
Return    == << [kind |-> "return"] >>
New       == << [kind |-> "descriptor"] >>

Texts ==
  {Return, New, << Assign(Const(0)) >>, << Assign(Mixed) >>, << Assign(Unhandled) >>,
   << If(TRUE), Assign(Const(3)), Assign(Mixed) >>,
   << If(TRUE), Assign(Const(7)), Assign(Unhandled) >>,
   << If(FALSE), Pick(1), Pick(6), [kind |-> "xor", e |-> Mixed] >>,
   << If(TRUE), Pick(0), Pick(4), [kind |-> "xor", e |-> Unhandled] >>,
   << Assign(Mixed) >> \o New, << If(FALSE), Pick(1), Pick(6) >> \o Return}

Program(init, cases, rest) == [init |-> init, cases |-> cases, last |-> 1, rest |-> rest]

Programs == {Program(i, c, << >>) : i \in Num, c \in [0..2 -> Texts \cup {Absent}]}
            \cup {Program(Absent, [i \in 0..2 |-> Return], << >>)}

\* The hypothesis of the theorem about the trace holds of these programs.
ASSUME ProgramsAssumption == \A t \in Programs : Legible(t)

\* Another method follows the one with the switch, and returns.
FollowedPrograms == {Program(i, c, Return) : i \in Num, c \in [0..2 -> Texts]}

Cards == {[num10 |-> "0xE409"], [num10 |-> "0xE411"]}
\* Every source with one program, every program with one source.
Scenarios ==
  LET Case(s, t, d) == [source |-> s, table |-> t, device |-> d]
      plain == [plain |-> Header, key |-> <<1>>]
  IN {Case(s, Program(2, [i \in 0..2 |-> New], << >>), [num10 |-> "0xE409"]) : s \in Sources}
     \cup {Case([b98 |-> plain, b132 |-> plain], t, d) : t \in Programs, d \in Cards}

FollowedScenarios ==
  {[source |-> [name \in {"b98", "b132"} |-> [plain |-> Header, key |-> <<1>>]],
    table |-> t, device |-> d] : t \in FollowedPrograms, d \in Cards}
============================================================================
