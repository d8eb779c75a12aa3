------------------------- MODULE CommandsInvariant -------------------------
(***************************************************************************)
(* The inductive invariant of Commands: the call under way is the next one *)
(* of the command (Course), what has been read is what the registers hold  *)
(* (Reads), and the registers are those of before with the calls that      *)
(* succeeded, and at most the one under way, applied (Applied).            *)
(***************************************************************************)
EXTENDS Commands

Writes(j) == j.name \in {"set", "apply", "off"}

\* Between commands nothing is left of the last one; a command makes the calls
\* of Ops in their order and has not been given an exit status.
Course ==
  /\ job = NoJob => done = 0 /\ read = << >> /\ call = NoCall /\ result = "none"
  /\ job # NoJob => status = "running" /\ done <= Len(Ops(job))
  /\ call # NoCall => job # NoJob /\ HasNext /\ call = NextOp /\ result = "none"

\* The values read are those of the registers asked for, which nobody has
\* changed since.
Reads ==
  job # NoJob =>
    /\ Len(read) = IF job.name \in {"get", "probe"} THEN done ELSE 0
    /\ Live /\ job.name = "get" =>
         \A i \in 1..done : read[i] = regs[Ops(job)[i].reg]

\* A call that has not returned "ok" may have been applied or not.
Applied ==
  IF Live /\ Writes(job)
    THEN \/ regs = AfterOps(before, Ops(job), done)
         \/ /\ HasNext /\ (call # NoCall \/ result \notin {"none", "ok"})
            /\ regs = AfterOps(before, Ops(job), done + 1)
    ELSE regs = before

\* Everything the steps preserve together.
CInv == TypeOK /\ Course /\ Reads /\ Applied

============================================================================
