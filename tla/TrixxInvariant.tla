--------------------------- MODULE TrixxInvariant ---------------------------
(***************************************************************************)
(* What both scripts rely on from one turn to the next.                    *)
(***************************************************************************)
EXTENDS Trixx

\* recover_key has tried every shorter length, and stops at the header's at the
\* latest; the script has written the plaintexts of the blobs it is through with.
KeySearch ==
  /\ source \in SourceSet
  /\ index \in 1..Len(Names) + 1
  /\ length \in 1..Len(MZ)
  /\ written \in Seq(Seq(Byte)) /\ Len(written) = index - 1
  /\ halted \in {"no", "done", "IndexError", "FileNotFoundError"}
  /\ halted # "done" => index <= Len(Names)
  /\ halted = "no" =>
       \A L \in 1..length - 1 : ~Repeats(Raw(Blob(Names[index])), L)
  /\ PlaintextComesBack
  /\ EveryBlobAnswered

-----------------------------------------------------------------------------

\* Nothing but where the trace is.
Tracked ==
  /\ table \in ProgramSet
  /\ num3 \in Num \cup {Absent}
  /\ step \in 0..Limit
  /\ seen \subseteq Num \X (0..MOD - 1)

\* The three forms of a case that goes on.  In the second a branch the script
\* cannot evaluate must not be followed by one it can, which it would take instead.
GoesOnForm(text) ==
  LET Assigns(i) == text[i].kind = "assign"
      Picks(i)   == text[i].kind = "pick"
  IN \/ Len(text) = 1 /\ Assigns(1)
     \/ /\ Len(text) = 3 /\ text[1].kind = "if" /\ Assigns(2) /\ Assigns(3)
        /\ text[3].e.known => text[2].e.known
     \/ /\ Len(text) = 4 /\ text[1].kind = "if" /\ Picks(2) /\ Picks(3)
        /\ text[4].kind = "xor"

\* A case that returns for every card, and has returns of one kind: the script asks
\* whether a return occurs, not whether it is reached.
ReturnForm(text) ==
  /\ \E i \in Found(text, {"descriptor", "return"}) :
       \A j \in Found(text, {"if"}) : i # j + 1 /\ i # j + 2
  /\ ~(Occurs(text, "descriptor") /\ Occurs(text, "return"))

\* A file the script reads as it is meant: nothing follows the switch, and a
\* case returns or goes on in one of these forms.
Legible(t) ==
  /\ t.rest = << >>
  /\ \A c \in 0..MOD - 1 :
       LET text == t.cases[c] IN text = Absent \/ ReturnForm(text) \/ GoesOnForm(text)

\* The method goes on after it has met the number n.
GoesOn(n) ==
  LET text == table.cases[CaseOf(n)] IN n \in Num /\ text # Absent /\ Ends(text) = {}

\* As long as the program is legible the script has gone the method's way.
Followed ==
  Legible(table) =>
    /\ num3 = Course[step]
    /\ \A k \in 0..step - 1 : GoesOn(Course[k])
    /\ verdict = "none yet" => \A pair \in seen : \E k \in 0..step - 1 : pair[1] = Course[k]
    /\ VerdictIsTheMethods

TrixxInv == KeySearch /\ Tracked /\ Followed

=============================================================================
