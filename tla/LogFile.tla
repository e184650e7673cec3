------------------------------- MODULE LogFile -------------------------------
(***************************************************************************)
(* scripts/logs_parser/src: writing a log as CSV (LogFile.to_csv and its   *)
(* caller print_test_csv) with the columns of a metadata file, which       *)
(* LogMetadata.create, LogMetadataHeader.create, LogMetadataSensors.create *)
(* and CborParser read.  LogParser reads the log itself.                   *)
(*                                                                         *)
(* A metadata file is what the device listed in it and, where it was       *)
(* damaged, how.  The time column is left out of the header and the rows.  *)
(***************************************************************************)
EXTENDS LogParser

CONSTANTS
    Sensors,     \* sensors, named by their id_hash
    Lists,       \* the lists of sensors a metadata file may hold
    SensorOf,    \* the sensor of each record of the log
    MaxQty,      \* default_max_qty: as many sensors the parsed CDDL lets a list have
    None         \* no metadata

ASSUME LogFileAssumption ==
    /\ Lists \subseteq Seq(Sensors) /\ << >> \in Lists
    /\ SensorOf \in [1..MaxRecords -> Sensors]
    /\ MaxQty \in Nat
    /\ None \notin Lists

(* A file that is too short, has a file type that is not ASCII or another,  *)
(* version 0 or damaged CBOR is not read as a list; one whose damage only   *)
(* the checksum tells may be read as any.                                  *)
Unreadable == {"short", "binary", "type", "version", "cbor"}
Files ==
    [kind : {"good"}, listed : Lists, read : Lists]
      \cup [kind : {"crc"}, listed : Lists, read : Lists]
      \cup [kind : Unreadable \cup {"absent"}, listed : {<< >>}, read : {<< >>}]

VARIABLES
    file,       \* the metadata file
    metadata,   \* LogFile.metadata: the sensors it lists, or None
    columns,    \* the first line of the output: its columns
    rows,       \* the other lines
    step        \* "metadata", "columns", "rows", or why there is no output

csvVars == <<file, metadata, columns, rows, step>>

CsvInit ==
    /\ LogInit
    /\ file \in {f \in Files : f.kind = "good" => f.read = f.listed}
    /\ metadata = None
    /\ columns = << >> /\ rows = << >>
    /\ step = "metadata"

(* Mutant: an empty list of sensors is accepted.                           *)
RefusedUnlessEmpty(f) ==
    f.kind \in (Unreadable \ {"binary"}) \cup {"crc"} \/ Len(f.read) > MaxQty

(* Mutant: the checksum is read and not compared.                          *)
RefusedUnlessCrc(f) ==
    f.kind \in Unreadable \ {"binary"} \/ Len(f.read) \notin 1..MaxQty

(* create returns None: the file is too short or its header is wrong, its   *)
(* sensors do not parse, there are none or too many of them, or the         *)
(* checksum does not match.                                                *)
Refused(f) ==
    f.kind \in (Unreadable \ {"binary"}) \cup {"crc"} \/ Len(f.read) \notin 1..MaxQty

(* The file type is decoded before it is compared, which raises.  LogFile   *)
(* also works without metadata.                                            *)
LoadMetadata ==
    /\ step = "metadata"
    /\ \/ file.kind = "absent" /\ step' = "columns" /\ UNCHANGED metadata
       \/ file.kind = "binary" /\ step' = "raised" /\ UNCHANGED metadata
       \/ /\ file.kind \notin {"absent", "binary"} /\ Refused(file)
          /\ step' = "refused" /\ UNCHANGED metadata
       \/ /\ file.kind \notin {"absent", "binary"} /\ ~Refused(file)
          /\ metadata' = file.read
          /\ step' = "columns"
    /\ UNCHANGED <<logVars, file, columns, rows>>

(* The header line is written before the log is looked at.                 *)
WriteColumns ==
    /\ step = "columns"
    /\ columns' = IF metadata = None THEN <<"Value">> ELSE metadata
    /\ step' = "rows"
    /\ UNCHANGED <<logVars, file, metadata, rows>>

SensorIds == IF metadata = None THEN << >> ELSE metadata
Blank     == 0

(* The line of record k.  Whether its value stands alone is decided by the  *)
(* list of ids, and for the header line by the metadata itself.            *)
Row(k) ==
    IF SensorIds = << >> THEN <<k>>
    ELSE [c \in DOMAIN SensorIds |-> IF SensorIds[c] = SensorOf[k] THEN k ELSE Blank]

WriteRows ==
    /\ step = "rows"
    /\ ReadField
    /\ rows' = IF written' = written THEN rows ELSE Append(rows, Row(part))
    /\ UNCHANGED <<file, metadata, columns, step>>

Ended == (Finished \/ step \in {"refused", "raised"}) /\ UNCHANGED <<logVars, csvVars>>

CsvNext == LoadMetadata \/ WriteColumns \/ WriteRows \/ Ended

CsvSpec == CsvInit /\ [][CsvNext]_<<logVars, csvVars>>

-----------------------------------------------------------------------------
(* Every intact record has a line, in order, with the columns of the header *)
(* line: that one is made from the metadata and the others from the ids     *)
(* found in it, and refusing metadata without sensors keeps them together.  *)
(* Its reading stands in the column of its sensor and in no other, the      *)
(* columns being those that the device wrote into the metadata file; that   *)
(* of a sensor the file does not list is left out, and without metadata     *)
(* there is one column.                                                    *)
ReadingsInTheirColumns ==
    /\ Len(rows) = Len(written)
    /\ \A r \in 1..Len(rows) :
         /\ Len(rows[r]) = Len(columns)
         /\ IF metadata = None THEN rows[r] = <<written[r]>>
            ELSE /\ columns = file.listed
                 /\ \A c \in 1..Len(columns) :
                      rows[r][c] = written[r] <=> columns[c] = SensorOf[written[r]]
=============================================================================
