------------------------------ MODULE AtomI2c ------------------------------
(***************************************************************************)
(* scripts/atom_i2c_parse.py: the walk over the tables of a VBIOS image,   *)
(* and the cross reference of every i2c id with the pins that carry it.    *)
(* It is what says which pads of the card no display connector uses.       *)
(*                                                                         *)
(* An image is what its tables hold.  The record lists and the voltage     *)
(* objects, whose layout the walk follows byte by byte, lie in "bytes",    *)
(* the end of the file; an offset counts from the start of it.             *)
(***************************************************************************)
EXTENDS Integers, Sequences, FiniteSets

CONSTANTS
  Image,                \* the images considered
  Absent,               \* a table with offset 0 or beyond the master list
  BIOS_MAX_NUM_RECORD   \* records read of one list

ATOM_I2C_RECORD_TYPE == 1
ATOM_RECORD_END_TYPE == 255
BoardI2cFeature      == 2   \* board_i2c_feature_id of an OEM bus

ByteValue == 0..255

\* "cut" is the stage in which the file ends too early, or is no image at all.
ImageSet ==
  [bytes : Seq(ByteValue),
   pins  : Seq(ByteValue) \cup {Absent},              \* the gpio_id of each
   fw    : [known : BOOLEAN, feature : ByteValue, gpio : ByteValue] \cup {Absent},
   paths : [cont : Nat, lists : Seq(Nat \cup {Absent})] \cup {Absent},
   volt  : [first : Nat, end : Nat] \cup {Absent},
   cut   : {"rom_header", "gpio_pin_lut", "firmwareinfo", "displayobjectinfo",
            "voltageobject_info", "nowhere"}]

ASSUME ImageAssumption == \A i \in Image : i \in ImageSet
ASSUME CapAssumption   == BIOS_MAX_NUM_RECORD \in Nat \ {0}

VARIABLES
  image,    \* the file, which nobody changes
  pc,       \* the table being read, "done" or "raised"
  off,      \* the cursor of the list or of the objects being read
  records,  \* one list for each display path so far
  objects,  \* the voltage objects so far
  report    \* the consumers of every pin and the orphans, once known

vars == <<image, pc, off, records, objects, report>>

NoReport == [pins |-> << >>, orphans |-> {}]

Init ==
  /\ image \in Image
  /\ pc = "rom_header"
  /\ off = 0
  /\ records = << >>
  /\ objects = << >>
  /\ report = NoReport

-----------------------------------------------------------------------------
(* The bytes                                                               *)

FileEnd   == Len(image.bytes)
ByteAt(o) == image.bytes[o + 1]
U16At(o)  == ByteAt(o) + 256 * ByteAt(o + 1)

Supported(paths) == paths # Absent /\ paths.cont \in {4, 5}

\* The offsets of the record lists: none when the table is not understood.
Lists == IF Supported(image.paths) THEN image.paths.lists ELSE << >>

-----------------------------------------------------------------------------
(* The course of the script                                                *)

\* One stage reads its table, or raises where the file is cut.
Read(stage, next) ==
  /\ pc = stage
  /\ pc' = IF image.cut = stage THEN "raised" ELSE next
  /\ UNCHANGED <<image, off, records, objects, report>>

\* Atom.__init__ and _parse_master_data, and the headers that main lists.
ReadHeader   == Read("rom_header", "gpio_pin_lut")
ReadPins     == Read("gpio_pin_lut", "firmwareinfo")
ReadFirmware == Read("firmwareinfo", "displayobjectinfo")
ReadPaths    == Read("displayobjectinfo", "path")

\* display_objects takes the next path; one without an offset has no records.
NextPath ==
  /\ pc = "path"
  /\ LET i == Len(records) + 1 IN
       IF i > Len(Lists) THEN /\ pc' = "voltageobject_info"
                              /\ UNCHANGED <<off, records>>
       ELSE /\ records' = Append(records, << >>)
            /\ IF Lists[i] = Absent THEN pc' = "path" /\ off' = off
               ELSE pc' = "records" /\ off' = Lists[i]
  /\ UNCHANGED <<image, objects, report>>

IsRecord(o) ==
  /\ o + 2 <= FileEnd
  /\ ByteAt(o) # ATOM_RECORD_END_TYPE
  /\ ByteAt(o + 1) # 0

IsI2c(o) == ByteAt(o) = ATOM_I2C_RECORD_TYPE /\ ByteAt(o + 1) >= 4

\* Mutant: one record more than the limit.
FullLate(list) == Len(list) > BIOS_MAX_NUM_RECORD

Full(list) == Len(list) = BIOS_MAX_NUM_RECORD

\* One turn of the loop in _records.
NextRecord ==
  /\ pc = "records"
  /\ LET i == Len(records) IN
       IF Full(records[i]) \/ ~IsRecord(off)
         THEN pc' = "path" /\ UNCHANGED <<off, records>>
       ELSE IF IsI2c(off) /\ off + 4 > FileEnd
         THEN pc' = "raised" /\ UNCHANGED <<off, records>>
       ELSE /\ records' = [records EXCEPT ![i] = Append(@, off)]
            /\ off' = off + ByteAt(off + 1)
            /\ pc' = pc
  /\ UNCHANGED <<image, objects, report>>

ReadVoltage ==
  /\ pc = "voltageobject_info"
  /\ IF image.cut = pc THEN pc' = "raised" /\ off' = off
     ELSE IF image.volt = Absent THEN pc' = "cross_reference" /\ off' = off
     ELSE pc' = "objects" /\ off' = image.volt.first
  /\ UNCHANGED <<image, records, objects, report>>

\* Mutant: only the end of the table ends the objects.
NoMoreObjectsAtZero == off + 4 > image.volt.end

NoMoreObjects ==
  \/ off + 4 > image.volt.end
  \/ off + 4 <= FileEnd /\ U16At(off + 2) = 0

\* Mutant: an object without a size is passed over.
NextObjectSkips ==
  /\ pc = "objects" /\ off + 4 <= image.volt.end
  /\ IF off + 4 > FileEnd THEN pc' = "raised" /\ UNCHANGED <<off, objects>>
     ELSE /\ objects' = IF U16At(off + 2) = 0 THEN objects ELSE Append(objects, off)
          /\ off' = off + U16At(off + 2)
          /\ pc' = pc
  /\ UNCHANGED <<image, records, report>>

\* One turn of the loop in voltage_objects.
NextObject ==
  /\ pc = "objects"
  /\ IF NoMoreObjects THEN pc' = "cross_reference" /\ UNCHANGED <<off, objects>>
     ELSE IF off + 4 > FileEnd THEN pc' = "raised" /\ UNCHANGED <<off, objects>>
     ELSE /\ objects' = Append(objects, off)
          /\ off' = off + U16At(off + 2)
          /\ pc' = pc
  /\ UNCHANGED <<image, records, report>>

-----------------------------------------------------------------------------
(* The cross reference                                                     *)

Elements(s) == {s[i] : i \in DOMAIN s}

Connector(i, o) == [kind |-> "connector", path |-> i, record |-> o,
                    id |-> ByteAt(o + 2), slave |-> ByteAt(o + 3)]
OemBoard        == [kind |-> "oem_board_i2c", id |-> image.fw.gpio]

OemI2cPresent ==
  image.fw # Absent /\ image.fw.known /\ image.fw.feature = BoardI2cFeature

Connectors == UNION {{Connector(i, o) : o \in {p \in Elements(records[i]) : IsI2c(p)}} :
                       i \in DOMAIN records}

\* Mutant: the OEM bus takes an id over from the connectors that use it.
ConsumersReplaced ==
  IF OemI2cPresent THEN {c \in Connectors : c.id # image.fw.gpio} \cup {OemBoard}
  ELSE Connectors

Consumers == Connectors \cup (IF OemI2cPresent THEN {OemBoard} ELSE {})

Pins == IF image.pins = Absent THEN << >> ELSE image.pins

CrossReference ==
  /\ pc = "cross_reference"
  /\ report' = [pins    |-> [i \in DOMAIN Pins |-> {c \in Consumers : c.id = Pins[i]}],
                orphans |-> {c.id : c \in Consumers} \ Elements(Pins)]
  /\ pc' = "done"
  /\ UNCHANGED <<image, off, records, objects>>

Next ==
  \/ ReadHeader \/ ReadPins \/ ReadFirmware \/ ReadPaths
  \/ NextPath \/ NextRecord
  \/ ReadVoltage \/ NextObject
  \/ CrossReference

Spec     == Init /\ [][Next]_vars
FairSpec == Spec /\ WF_vars(Next)

-----------------------------------------------------------------------------
(* Properties                                                              *)

\* Every variable stays in its type; a cursor may be anywhere, records are not.
TypeOK ==
  /\ image \in ImageSet
  /\ pc \in {"rom_header", "gpio_pin_lut", "firmwareinfo", "displayobjectinfo",
             "path", "records", "voltageobject_info", "objects",
             "cross_reference", "done", "raised"}
  /\ off \in Nat
  /\ Len(records) <= Len(Lists)
  /\ \A i \in DOMAIN records : /\ records[i] \in Seq(0..FileEnd)
                               /\ Len(records[i]) <= BIOS_MAX_NUM_RECORD
  /\ objects \in Seq(0..FileEnd)
  /\ DOMAIN report.pins \in {DOMAIN Pins, {}}

\* Sets with o, if it is in the file, and the successor of each record in them.
Closed(s, o) ==
  /\ o <= FileEnd => o \in s
  /\ \A h \in s : IsRecord(h) /\ h + ByteAt(h + 1) <= FileEnd => h + ByteAt(h + 1) \in s

\* The reference: the offsets of the records of the list that begins at o, which
\* are those in every closed set.
Chain(o) ==
  {h \in 0..FileEnd :
     IsRecord(h) /\ \A s \in SUBSET (0..FileEnd) : Closed(s, o) => h \in s}

\* The first BIOS_MAX_NUM_RECORD of them.
ChainRead(o) ==
  LET chain == Chain(o)
  IN  {h \in chain : Cardinality({g \in chain : g < h}) < BIOS_MAX_NUM_RECORD}

\* A report that is printed has, for every pin, exactly the connectors whose
\* record lists name its id and the OEM bus if that does, and as orphans the ids
\* without a pin: of what the parser undertakes to read, no consumer is lost on the
\* way and none made up.  Records beyond BIOS_MAX_NUM_RECORD and lists of a
\* revision that is not Supported are outside of it, and a consumer in them is
\* missing from the report without a word.
EveryConsumerAccounted ==
  pc = "done" =>
    LET listed(i) == IF Lists[i] = Absent THEN {} ELSE ChainRead(Lists[i])
        linked    == UNION {{Connector(i, h) : h \in {g \in listed(i) : IsI2c(g)}} :
                              i \in DOMAIN Lists}
        named     == linked \cup {c \in {OemBoard} : OemI2cPresent}
    IN  /\ \A i \in DOMAIN Pins : report.pins[i] = {c \in named : c.id = Pins[i]}
        /\ \A c \in named : c.id \in report.orphans <=> c.id \notin Elements(Pins)
        /\ report.orphans \subseteq {c.id : c \in named}

\* The objects follow one another without a gap and none begins where another
\* does, whatever sizes the image claims.
ObjectsFollow ==
  \A i \in 1..Len(objects) - 1 :
    /\ objects[i] < objects[i + 1]
    /\ objects[i + 1] = objects[i] + U16At(objects[i] + 2)

\* The script ends on every image, one whose sizes are nonsense included.
ScriptEnds == <>(pc \in {"done", "raised"})

=============================================================================
