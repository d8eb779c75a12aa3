------------------------------- MODULE Trixx -------------------------------
(***************************************************************************)
(* The analysis of the vendor's program: decrypt_res.py writes the blobs   *)
(* as files, a decompiler turns the one it can read into source, and       *)
(* trace_model_table.py follows the model table in that source.            *)
(***************************************************************************)
EXTENDS DecryptRes, TraceModelTable

CONSTANTS
  Model,    \* the position in Names of the program with the model table
  Scenario  \* what the vendor's program may be, and the cards asked for

ASSUME ScenarioAssumption ==
  \A s \in Scenario : s.source \in SourceSet /\ s.table \in ProgramSet

analysis == <<decrypting, tracing>>

AnalysisInit ==
  /\ \E s \in Scenario : source = s.source /\ table = s.table /\ device = s.device
  /\ DecryptInit
  /\ TraceInit

\* Nothing can be decompiled that was not decrypted to what the vendor wrote.
Decompiled == Model \in DOMAIN written /\ written[Model] = source[Names[Model]].plain

Decrypt == DecryptNext /\ UNCHANGED tracing

Trace == halted # "no" /\ Decompiled /\ TraceNext /\ UNCHANGED decrypting

AnalysisSpec == AnalysisInit /\ [][Decrypt \/ Trace]_analysis

-----------------------------------------------------------------------------
(* Properties                                                              *)

\* Every variable stays in its type.
TypeOK ==
  /\ index \in 1..Len(Names) + 1
  /\ length \in 1..MaxLen
  /\ Len(written) \in 0..Len(Names)
  /\ halted \in {"no", "done", "IndexError", "FileNotFoundError"}
  /\ num3 \in Num \cup {Absent}
  /\ step \in 0..Limit
  /\ seen \subseteq Num \X (0..MOD - 1)

============================================================================
