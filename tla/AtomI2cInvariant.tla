-------------------------- MODULE AtomI2cInvariant --------------------------
(***************************************************************************)
(* The inductive invariant of AtomI2c: how far the script is (Stages),     *)
(* that every list read so far is a beginning of the list in the image and *)
(* ends only where it may (Walk), that the objects follow each other       *)
(* (ObjectWalk), and that the report is made of the lists read (Reported). *)
(***************************************************************************)
EXTENDS AtomI2c

\* The stages before the display paths, and those after them.
Early == {"rom_header", "gpio_pin_lut", "firmwareinfo", "displayobjectinfo"}
Late  == {"voltageobject_info", "objects", "cross_reference", "done"}

\* Where the cursor of the list at o is when r has been read of it.
After(r, o) == IF r = << >> THEN o ELSE r[Len(r)] + ByteAt(r[Len(r)] + 1)

\* r are the first records of the list at o.
Begins(r, o) ==
  /\ \A k \in 1..Len(r) : IsRecord(r[k])
  /\ Len(r) > 0 => r[1] = o
  /\ \A k \in 1..Len(r) - 1 : r[k + 1] = r[k] + ByteAt(r[k] + 1)
  /\ \A j, k \in 1..Len(r) : j < k => r[j] < r[k]
  /\ Elements(r) \subseteq Chain(o)

\* What has been read, by how far the script is.
Stages ==
  /\ records \in Seq(Seq(0..FileEnd))
  /\ pc \in Early => records = << >>
  /\ pc \in Late => Len(records) = Len(Lists)
  /\ pc \in Early \cup {"path", "records", "voltageobject_info"} => objects = << >>
  /\ pc = "records" =>
       /\ Len(records) > 0 /\ Lists[Len(records)] # Absent
       /\ off = After(records[Len(records)], Lists[Len(records)])

\* A list that is done is full, or there is no further record.
Walk ==
  \A i \in 1..Len(records) :
    IF Lists[i] = Absent THEN records[i] = << >>
    ELSE /\ Begins(records[i], Lists[i])
         /\ i < Len(records) \/ pc \notin {"records", "raised"}
              => Full(records[i]) \/ ~IsRecord(After(records[i], Lists[i]))

\* Every object has a size, and the cursor is at the end of the last one.
ObjectWalk ==
  /\ \A i \in 1..Len(objects) : objects[i] + 4 <= FileEnd /\ U16At(objects[i] + 2) # 0
  /\ ObjectsFollow
  /\ pc = "objects" /\ Len(objects) > 0 =>
       off = objects[Len(objects)] + U16At(objects[Len(objects)] + 2)

Reported ==
  report = IF pc # "done" THEN NoReport
           ELSE [pins    |-> [i \in DOMAIN Pins |-> {c \in Consumers : c.id = Pins[i]}],
                 orphans |-> {c.id : c \in Consumers} \ Elements(Pins)]

\* Everything the steps preserve together.
AInv == TypeOK /\ Stages /\ Walk /\ ObjectWalk /\ Reported

============================================================================
