------------------------------ MODULE LogParser ------------------------------
(***************************************************************************)
(* scripts/logs_parser/src: reading a sensor log back (LogFile.to_json and *)
(* to_csv, LogDataHeader.create, LogDataRecord.create and                  *)
(* LogDataRecordAnalog).                                                   *)
(*                                                                         *)
(* A log is a 32 byte header and 21 byte records, and ends wherever the    *)
(* device stopped writing: at any byte (cut).  Contents matter only as far *)
(* as the parser tells them apart.  Each field is one read of the stream,  *)
(* which returns fewer bytes than asked for at the end of the file.  The   *)
(* two output formats share this loop and differ in what they write only.  *)
(***************************************************************************)
EXTENDS Naturals, Sequences, FiniteSetsExt

CONSTANT MaxRecords    \* bound: records in the log

ASSUME LogParserAssumption == MaxRecords \in Nat

(* What a part of the log may contain: a wrong mark or file type, a file    *)
(* type that is not ASCII, a data length other than 4, a checksum that does *)
(* not match, and a checksum that matches and is 0.                         *)
HeaderKinds == {"good", "mark", "binary", "crc", "zero"}
RecordKinds == {"good", "mark", "length", "crc", "zero"}

VARIABLES
    header, records, cut,   \* the file
    pos,                    \* the stream's position
    part,                   \* 0 in the header, k in the k-th record
    field,                  \* the field to read next
    written,                \* the records written to the output so far
    result                  \* "parsing", what was returned, or "raised"

logVars == <<header, records, cut, pos, part, field, written, result>>

(* The reads of the two create methods: the width, and what becomes of a    *)
(* read that returns no bytes (none) or too few (short).  struct.unpack     *)
(* raises on a wrong length; a short text or blob passes.                   *)
HeaderFields == <<
    [name |-> "mark",     width |-> 4, none |-> "None",  short |-> "None"],
    [name |-> "version",  width |-> 4, none |-> "None",  short |-> "raise"],
    [name |-> "metadata", width |-> 4, none |-> "None",  short |-> "pass"],
    [name |-> "start",    width |-> 8, none |-> "None",  short |-> "raise"],
    [name |-> "reserved", width |-> 8, none |-> "None",  short |-> "pass"],
    [name |-> "crc",      width |-> 4, none |-> "raise", short |-> "raise"] >>

(* Mutant: the end of the file is also tested before the checksum.         *)
RecordFieldsChecked == <<
    [name |-> "mark",   width |-> 4, none |-> "None", short |-> "None"],
    [name |-> "delta",  width |-> 4, none |-> "None", short |-> "raise"],
    [name |-> "sensor", width |-> 4, none |-> "None", short |-> "raise"],
    [name |-> "length", width |-> 1, none |-> "None", short |-> "pass"],
    [name |-> "data",   width |-> 4, none |-> "None", short |-> "pass"],
    [name |-> "crc",    width |-> 4, none |-> "None", short |-> "raise"] >>

RecordFields == <<
    [name |-> "mark",   width |-> 4, none |-> "None",  short |-> "None"],
    [name |-> "delta",  width |-> 4, none |-> "None",  short |-> "raise"],
    [name |-> "sensor", width |-> 4, none |-> "None",  short |-> "raise"],
    [name |-> "length", width |-> 1, none |-> "None",  short |-> "pass"],
    [name |-> "data",   width |-> 4, none |-> "None",  short |-> "pass"],
    [name |-> "crc",    width |-> 4, none |-> "raise", short |-> "raise"] >>

HeaderBytes == 32
RecordBytes == 21

Fields == IF part = 0 THEN HeaderFields ELSE RecordFields
Kind   == IF part = 0 THEN header ELSE records[part]

LogInit ==
    /\ header \in HeaderKinds
    /\ records \in UNION {[1..n -> RecordKinds] : n \in 0..MaxRecords}
    /\ cut \in 0 .. HeaderBytes + RecordBytes * Len(records)
    /\ pos = 0 /\ part = 0 /\ field = 1
    /\ written = << >>
    /\ result = "parsing"

(* Mutant: the checksum is read but not compared.                          *)
RejectsUnlessCrc(f) ==
    \/ f.name = "mark" /\ Kind = "mark"
    \/ f.name = "length" /\ Kind = "length"
    \/ f.name = "crc" /\ Kind = "zero"

(* The tests a completely read field must pass.  A record with another data *)
(* length fails when its data would be read; a checksum must be non-zero    *)
(* and match.                                                              *)
Rejects(f) ==
    \/ f.name = "mark" /\ Kind = "mark"
    \/ f.name = "length" /\ Kind = "length"
    \/ f.name = "crc" /\ Kind \in {"crc", "zero"}

(* create returned None: there is no header and nothing more is written, or *)
(* the records are taken to have ended.                                    *)
ReturnNone ==
    /\ result' = IF part = 0 THEN "False" ELSE "True"
    /\ UNCHANGED <<pos, part, field, written>>

Raise ==
    /\ result' = "raised"
    /\ UNCHANGED <<pos, part, field, written>>

(* create returned the header or a record; a record is written at once.    *)
ReturnInstance ==
    /\ written' = IF part = 0 THEN written ELSE Append(written, part)
    /\ part' = part + 1
    /\ field' = 1
    /\ UNCHANGED result

NextField == field' = field + 1 /\ UNCHANGED <<part, written, result>>

Take(n) == pos' = pos + n

(* The header's file type is decoded before it is compared.                *)
Undecodable(f, got) == f.name = "mark" /\ got > 0 /\ Kind = "binary"

ReadField ==
    LET f   == Fields[field]
        got == Min({f.width, cut - pos})
        end == CASE Undecodable(f, got) -> "raise"
                 [] ~Undecodable(f, got) /\ got = f.width -> "all"
                 [] got = 0 -> f.none
                 [] OTHER -> f.short
    IN  /\ result = "parsing"
        /\ \/ end = "raise" /\ Raise
           \/ end = "None" /\ ReturnNone
           \/ end = "pass" /\ Take(got) /\ NextField
           \/ end = "all" /\ Rejects(f) /\ ReturnNone
           \/ end = "all" /\ ~Rejects(f) /\ field < Len(Fields)
                /\ Take(got) /\ NextField
           \/ end = "all" /\ ~Rejects(f) /\ field = Len(Fields)
                /\ Take(got) /\ ReturnInstance
        /\ UNCHANGED <<header, records, cut>>

Finished == result # "parsing" /\ UNCHANGED logVars

LogNext == ReadField \/ Finished

LogSpec == LogInit /\ [][LogNext]_logVars

-----------------------------------------------------------------------------
(* Every variable has its type.                                            *)
LogTypeOK ==
    /\ pos \in 0..cut
    /\ part \in 0 .. Len(records) + 1
    /\ field \in 1..6
    /\ written \in Seq(1..MaxRecords)
    /\ result \in {"parsing", "True", "False", "raised"}

(* The records that lie before the cut and before the first damaged one.    *)
Intact == IF header # "good" \/ cut < HeaderBytes THEN {}
          ELSE {k \in 1..Len(records) :
                  /\ HeaderBytes + RecordBytes * k <= cut
                  /\ \A j \in 1..k : records[j] = "good"}

(* However the log ends, exactly the intact records have been written, in   *)
(* their order, also when the parse ends in an exception: none is skipped,  *)
(* none is written twice and none of a torn or damaged tail is written.     *)
IntactRecordsWritten ==
    result # "parsing" =>
      written = [k \in 1..Cardinality(Intact) |-> k]

(* What the caller sees of a log that was cut off, as a table: with an      *)
(* intact header and good records up to the cut, the parse succeeds when    *)
(* the log ends in or right after a record's mark, or at the start of one   *)
(* of the next fields up to the data; it raises for every other byte.       *)
CutOutcome ==
    result # "parsing" /\ header = "good" /\ (\A k \in 1..Len(records) : records[k] = "good")
      => result = IF cut < HeaderBytes
                    THEN IF cut \in (0..4) \cup (8..12) \cup {20} THEN "False" ELSE "raised"
                    ELSE IF (cut - HeaderBytes) % RecordBytes \in (0..4) \cup {8, 12, 13}
                           THEN "True" ELSE "raised"

=============================================================================
