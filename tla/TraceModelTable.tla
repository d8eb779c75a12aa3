-------------------------- MODULE TraceModelTable --------------------------
(***************************************************************************)
(* scripts/trace_model_table.py: which model descriptor a decompiled,      *)
(* control-flow-flattened method returns for a card.  The method is a loop *)
(* around a switch on (num3 ^ XOR_K) % MOD, and every case that does not   *)
(* return computes the next num3.  The script reads the cases as text: a   *)
(* text is the sequence of the statements its patterns can match, and the  *)
(* script asks what occurs in it, not what is executed.                    *)
(***************************************************************************)
EXTENDS Words, Sequences, FiniteSets, FiniteSetsExt

CONSTANTS
  XOR_K,
  MOD,     \* number of cases, 414
  Limit,   \* steps before the script gives up, 4000
  Absent   \* no initial num3, or no such case

ASSUME TraceAssumption ==
  /\ XOR_K \in Num /\ MOD \in Nat \ {0}
  /\ Limit \in Nat /\ Limit <= Wide
  /\ Absent \notin Num

\* An expression of num4, and whether eval_expr knows its form.
Expression == [mul : Num, xor : Num, known : BOOLEAN]

Statement ==
  [kind : {"assign", "xor"}, e : Expression]
  \cup [kind : {"pick"}, c : Num]
  \cup [kind : {"if"}, var : {"num", "num2", "num10", "num5"}, val : STRING, eq : BOOLEAN]
  \cup [kind : {"return", "descriptor"}]

\* A decompiled file: initial num3, the cases, the last of them, what follows.
ProgramSet ==
  [init  : Num \cup {Absent},
   cases : [0..MOD - 1 -> Seq(Statement) \cup {Absent}],
   last  : 0..MOD - 1,
   rest  : Seq(Statement)]

VARIABLES
  table,    \* the file
  device,   \* the card asked for: the values of num, num2, num10 and num5
  num3,
  seen,     \* the pairs (num3, case) met so far
  step,
  verdict   \* what the script prints

tracing == <<table, device, num3, seen, step, verdict>>

Found(text, kinds) == {i \in DOMAIN text : text[i].kind \in kinds}
Occurs(text, kind) == Found(text, {kind}) # {}

Num4(n)   == Exor(n, XOR_K)
CaseOf(n) == Num4(n) % MOD
Holds(if) == (device[if.var] = if.val) = if.eq

-----------------------------------------------------------------------------
(* The method                                                              *)

\* What an expression of num4 comes to in the program.
Value(e, n) == Exor(e.mul * Num4(n), e.xor) % Wide

\* A condition governs the two statements after it, of which one is executed.
Executed(text) ==
  {i \in DOMAIN text : ~ \E j \in Found(text, {"if"}) : i = j + (IF Holds(text[j]) THEN 2 ELSE 1)}

\* Where the case leaves the method: at the first of these.
Ends(text) == Executed(text) \cap Found(text, {"descriptor", "return"})

\* The num3 after a case: "num3 = E", "if (C) num3 = E1 else num3 = E2", or
\* "if (C) numX = C1 else numX = C2" with "num3 = numX ^ E".
After(text, n) ==
  LET branch == IF Holds(text[1]) THEN 2 ELSE 3 IN
  CASE Len(text) = 1 -> Value(text[1].e, n)
    [] Len(text) = 3 -> Value(text[branch].e, n)
    [] Len(text) = 4 -> Exor(text[branch].c, Value(text[4].e, n))

\* num3 after k turns, until a case returns or does not exist.
Course ==
  LET f[k \in 0..Wide] ==
        IF k = 0 THEN table.init
        ELSE LET n == f[k - 1]
                 text == table.cases[CaseOf(n)]
             IN IF text = Absent \/ Ends(text) # {} THEN n ELSE After(text, n)
  IN f

\* There are Wide values: after as many turns the method returns or never does.
Method ==
  LET text == table.cases[CaseOf(Course[Wide])] IN
  IF text = Absent THEN "no case"
  ELSE IF Ends(text) # {} THEN text[Min(Ends(text))].kind
  ELSE "loop"

-----------------------------------------------------------------------------
(* The script                                                              *)

TraceInit ==
  /\ num3 = table.init
  /\ seen = {}
  /\ step = 0
  /\ verdict = "none yet"

\* load_cases: a case runs to the next one, the last one to the end of the file.
Text(c) ==
  IF c = table.last THEN table.cases[c] \o table.rest ELSE table.cases[c]

Returns(text) == Occurs(text, "descriptor") \/ Occurs(text, "return")

\* Mutant: Python's integers do not wrap.
EvalUnbounded(e, n) == IF e.known THEN {Exor(e.mul * Num4(n), e.xor)} ELSE {}

\* eval_expr: a value, or none for an expression the pattern does not allow.
Eval(e, n) == IF e.known THEN {Value(e, n)} ELSE {}

\* The next num3 by the condition, if there is one and its branch can be evaluated.
Taken(text, n) ==
  LET ifs     == Found(text, {"if"})
      assigns == Found(text, {"assign", "xor"})
      picks   == Found(text, {"pick"})
      final   == Found(text, {"xor"})
      Branch(S) == text[IF Holds(text[Min(ifs)]) THEN Min(S) ELSE Min(S \ {Min(S)})]
  IN IF ifs = {} THEN {}
     ELSE IF Cardinality(assigns) >= 2
            THEN IF Branch(assigns).kind = "assign" THEN Eval(Branch(assigns).e, n) ELSE {}
     ELSE IF Cardinality(picks) >= 2 /\ final # {}
            THEN {Exor(Branch(picks).c, v) : v \in Eval(text[Min(final)].e, n)}
     ELSE {}

\* Otherwise the last assignment in the text, whatever it belongs to.
NewNum3(text, n) ==
  LET assigns == Found(text, {"assign", "xor"}) IN
  IF Taken(text, n) # {} THEN Taken(text, n)
  ELSE IF assigns # {} /\ text[Max(assigns)].kind = "assign"
         THEN Eval(text[Max(assigns)].e, n)
  ELSE {}

Stop(v) == verdict' = v /\ UNCHANGED <<table, device, num3, seen, step>>

Tracing == verdict = "none yet"

NoInitial == Tracing /\ num3 = Absent /\ Stop("no num3")

StepLimit == Tracing /\ num3 # Absent /\ step = Limit /\ Stop("step limit")

\* Mutant: a case that comes again counts as a loop, with another num3 too.
MetCase == \E pair \in seen : pair[2] = CaseOf(num3)

Met == <<num3, CaseOf(num3)>> \in seen

Turn == Tracing /\ num3 # Absent /\ step < Limit

LoopFound == Turn /\ Met /\ Stop("loop")

NoCase == Turn /\ ~Met /\ table.cases[CaseOf(num3)] = Absent /\ Stop("no case")

\* The case is looked at, and its text searched for a return first.
LookUp ==
  LET c == CaseOf(num3)
      text == Text(c)
      new  == NewNum3(text, num3)
  IN
  /\ Turn /\ ~Met /\ table.cases[c] # Absent
  /\ seen' = seen \cup {<<num3, c>>}
  /\ \/ /\ Occurs(text, "descriptor")
        /\ verdict' = "descriptor"
        /\ UNCHANGED <<num3, step>>
     \/ /\ ~Occurs(text, "descriptor") /\ Occurs(text, "return")
        /\ verdict' = "return"
        /\ UNCHANGED <<num3, step>>
     \/ /\ ~Returns(text) /\ new = {}
        /\ verdict' = "stuck"
        /\ UNCHANGED <<num3, step>>
     \/ /\ ~Returns(text) /\ num3' \in new
        /\ step' = step + 1
        /\ UNCHANGED verdict
  /\ UNCHANGED <<table, device>>

TraceNext == NoInitial \/ StepLimit \/ LoopFound \/ NoCase \/ LookUp

-----------------------------------------------------------------------------
(* Properties                                                              *)

\* What the script reports of a card is what the method does with it: the
\* descriptor it reaches is the one that is returned, a plain return or a
\* missing case is reached, a loop is one the method never leaves.
VerdictIsTheMethods ==
  /\ verdict \in {"descriptor", "return", "loop", "no case"} => verdict = Method
  /\ verdict \in {"descriptor", "return", "no case"} => num3 = Course[Wide]

=============================================================================
