--------------------------- MODULE LogFileProofs ---------------------------
(***************************************************************************)
(* What TLAPS proves of LogParser and LogFile for logs of any number of     *)
(* records, cut off at any byte, and any metadata files: which records are  *)
(* written, what the caller is told of a log that was cut off, and in which *)
(* column a reading stands.                                                *)
(***************************************************************************)
EXTENDS LogFile, FiniteSetTheorems, SequenceTheorems, TLAPS

(* Where a part of the log begins, and a field in its part.                *)
Begin(p)     == IF p = 0 THEN 0 ELSE HeaderBytes + RecordBytes * (p - 1)
Offset(p, f) == IF p = 0 THEN <<0, 4, 8, 12, 20, 28, 32>>[f]
                         ELSE <<0, 4, 8, 12, 13, 17, 21>>[f]
Here         == Begin(part) + Offset(part, field)
Whole        == IF part = 0 THEN 0 ELSE part - 1

FileOK ==
    /\ header \in HeaderKinds /\ records \in Seq(RecordKinds)
    /\ Len(records) <= MaxRecords
    /\ cut \in 0 .. HeaderBytes + RecordBytes * Len(records)

(* The stream is at the field to read next or, if a field that may be short *)
(* was, at the end of the file in the field before.                        *)
AtField ==
    /\ cut >= Here => pos = Here
    /\ cut < Here => /\ pos = cut
                     /\ IF part = 0 THEN field \in {4, 6} ELSE field = 6
                     /\ cut > Begin(part) + Offset(part, field - 1)

(* The parts before this one are whole and good, and are written.           *)
BeforeIsIntact ==
    /\ written = [k \in 1..Whole |-> k]
    /\ part > 0 => /\ header = "good" /\ cut >= Begin(part)
                   /\ \A j \in 1..part - 1 : records[j] = "good"

(* What the fields read of this part have told.                            *)
FieldsPassed ==
    /\ field > 1 => Kind # "mark"
    /\ field > 1 /\ part = 0 => Kind # "binary"
    /\ field > 4 /\ part > 0 => Kind # "length"

(* The parse ends at a part that is not whole or not good, and how it ends   *)
(* depends on nothing but where in that part the log was cut.               *)
EndsForCause ==
    result # "parsing" =>
      \/ cut < Begin(part) + Offset(part, 7)
      \/ part <= Len(records) /\ Kind # "good"

Tear == cut - Begin(part)

EndsByTear ==
    result # "parsing" =>
      \/ part <= Len(records) /\ Kind # "good"
      \/ result = IF part = 0
                    THEN IF Tear \in (0..4) \cup (8..12) \cup {20}
                           THEN "False" ELSE "raised"
                    ELSE IF Tear \in (0..4) \cup {8, 12, 13} THEN "True" ELSE "raised"

ParserInv ==
    /\ FileOK /\ LogTypeOK /\ AtField /\ BeforeIsIntact /\ FieldsPassed
    /\ EndsForCause /\ EndsByTear

-----------------------------------------------------------------------------
(* The fields of a part, from the two tables: what they are, where they     *)
(* are, and which may be short.                                            *)
LEMMA FieldTable ==
    ASSUME part \in Nat, field \in 1..6
    PROVE  LET f == Fields[field]
           IN  /\ Len(Fields) = 6
               /\ f.name = "mark" <=> field = 1
               /\ f.name = "length" <=> part > 0 /\ field = 4
               /\ f.name = "crc" <=> field = 6
               /\ f.none = IF field = 6 THEN "raise" ELSE "None"
               /\ f.short = IF field = 1 THEN "None"
                            ELSE IF field = 5 \/ field = (IF part = 0 THEN 3 ELSE 4)
                                   THEN "pass" ELSE "raise"
<1>1. CASE part = 0
  <2>1. Fields = HeaderFields /\ Len(HeaderFields) = 6
    BY <1>1 DEF Fields, HeaderFields
  <2>2. CASE field \in 1..3
    BY <1>1, <2>1, <2>2 DEF HeaderFields
  <2>3. CASE field \in 4..6
    BY <1>1, <2>1, <2>3 DEF HeaderFields
  <2> QED
    BY <2>2, <2>3
<1>2. CASE part > 0
  <2>1. Fields = RecordFields /\ Len(RecordFields) = 6
    BY <1>2 DEF Fields, RecordFields
  <2>2. CASE field \in 1..3
    BY <1>2, <2>1, <2>2 DEF RecordFields, Offset
  <2>3. CASE field \in 4..6
    BY <1>2, <2>1, <2>3 DEF RecordFields, Offset
  <2> QED
    BY <2>2, <2>3
<1> QED
  BY <1>1, <1>2

(* Where the fields of the header and of a record begin.                   *)
LEMMA Offsets ==
    /\ Offset(0, 1) = 0 /\ Offset(0, 2) = 4 /\ Offset(0, 3) = 8 /\ Offset(0, 4) = 12
    /\ Offset(0, 5) = 20 /\ Offset(0, 6) = 28 /\ Offset(0, 7) = 32
    /\ \A p \in Nat : p > 0 =>
         /\ Offset(p, 1) = 0 /\ Offset(p, 2) = 4 /\ Offset(p, 3) = 8
         /\ Offset(p, 4) = 12 /\ Offset(p, 5) = 13 /\ Offset(p, 6) = 17
         /\ Offset(p, 7) = 21
  BY DEF Offset

(* A field ends where the next begins.                                     *)
LEMMA FieldSpan ==
    ASSUME part \in Nat, field \in 1..6
    PROVE  /\ Fields[field].width \in 1..8
           /\ Offset(part, field) \in 0..28
           /\ Offset(part, field + 1) = Offset(part, field) + Fields[field].width
<1>1. CASE part = 0
  <2>1. Fields = HeaderFields
    BY <1>1 DEF Fields
  <2>2. CASE field \in 1..3
    BY <1>1, <2>1, <2>2 DEF HeaderFields, Offset
  <2>3. CASE field \in 4..6
    BY <1>1, <2>1, <2>3 DEF HeaderFields, Offset
  <2> QED
    BY <2>2, <2>3
<1>2. CASE part > 0
  <2>1. Fields = RecordFields
    BY <1>2 DEF Fields
  <2>2. CASE field \in 1..3
    BY <1>2, <2>1, <2>2 DEF RecordFields, Offset
  <2>3. CASE field \in 4..6
    BY <1>2, <2>1, <2>3 DEF RecordFields, Offset
  <2> QED
    BY <2>2, <2>3
<1> QED
  BY <1>1, <1>2

Ending(e) == IF e = "None" THEN IF part = 0 THEN "False" ELSE "True" ELSE "raised"

(* What no bytes or too few bytes of a field lead to.                      *)
LEMMA FieldEnds ==
    ASSUME part \in Nat, field \in 1..6
    PROVE  /\ field = 6 => Ending(Fields[field].none) = "raised"
           /\ field < 6 /\ part = 0 => Ending(Fields[field].none) = "False"
           /\ field < 6 /\ part > 0 => Ending(Fields[field].none) = "True"
           /\ Fields[field].short # "pass" =>
                /\ field # 5 /\ (part = 0 => field # 3) /\ (part > 0 => field # 4)
                /\ field = 1 /\ part = 0 => Ending(Fields[field].short) = "False"
                /\ field = 1 /\ part > 0 => Ending(Fields[field].short) = "True"
                /\ field > 1 => Ending(Fields[field].short) = "raised"
           /\ Fields[field].short = "pass" =>
                field = 5 \/ (part = 0 /\ field = 3) \/ (part > 0 /\ field = 4)
<1>1. Fields[field].none = IF field = 6 THEN "raise" ELSE "None"
  BY FieldTable
<1>2. Fields[field].short = IF field = 1 THEN "None"
                           ELSE IF field = 5 \/ field = (IF part = 0 THEN 3 ELSE 4)
                                  THEN "pass" ELSE "raise"
  BY FieldTable
<1>3. CASE part = 0
  BY <1>1, <1>2, <1>3 DEF Ending
<1>4. CASE part > 0
  BY <1>1, <1>2, <1>4 DEF Ending
<1> QED
  BY <1>3, <1>4

(* The smaller of two numbers.                                             *)
LEMMA Smaller ==
    ASSUME NEW a \in Int, NEW b \in Int
    PROVE  Min({a, b}) = IF a <= b THEN a ELSE b
<1>1. CASE a <= b
  BY <1>1 DEF Min
<1>2. CASE ~(a <= b)
  BY <1>2 DEF Min
<1> QED
  BY <1>1, <1>2

(* The positions are numbers, and there is no part after the last.          *)
LEMMA Positions ==
    ASSUME ParserInv
    PROVE  /\ Len(records) \in Nat /\ part \in Nat /\ field \in 1..6
           /\ cut \in Nat /\ pos \in Nat /\ pos <= cut
           /\ Begin(part) \in Nat /\ part <= Len(records) + 1
           /\ part = Len(records) + 1 => cut <= Begin(part)
           /\ part > 0 => Begin(part) = 11 + 21 * part
           /\ Begin(part + 1) = Begin(part) + Offset(part, 7)
           /\ Offset(part, 7) = IF part = 0 THEN 32 ELSE 21
<1>1. Len(records) \in Nat
  BY DEF ParserInv, FileOK
<1>2. part \in Nat /\ field \in 1..6 /\ cut \in Nat /\ pos \in Nat /\ pos <= cut
      /\ part <= Len(records) + 1
  BY <1>1 DEF ParserInv, FileOK, LogTypeOK, HeaderBytes, RecordBytes
<1>3. Offset(part, 7) = IF part = 0 THEN 32 ELSE 21
  BY <1>2 DEF Offset
<1> QED
  BY <1>1, <1>2, <1>3 DEF ParserInv, FileOK, Begin, HeaderBytes, RecordBytes

(* What one read does: it ends the parse, passes a torn field at the end of *)
(* the file, passes a whole field, or completes the part.                  *)
Torn == cut - pos < Fields[field].width

Stops ==
    /\ UNCHANGED <<pos, part, field, written>>
    /\ \/ Torn /\ pos = cut /\ result' = Ending(Fields[field].none)
       \/ Torn /\ pos < cut /\ Fields[field].short # "pass"
             /\ result' = Ending(Fields[field].short)
       \/ pos < cut /\ (Rejects(Fields[field]) \/ Undecodable(Fields[field], 1))
             /\ result' \in {"True", "False", "raised"}

(* What a read may do: end the parse, pass a field that is torn but may    *)
(* be, go on to the next field, or complete the part.                      *)
LEMMA ReadKinds ==
    ASSUME ParserInv, ReadField
    PROVE  /\ result = "parsing" /\ UNCHANGED <<header, records, cut>>
           /\ \/ Stops
              \/ /\ Torn /\ pos < cut /\ Fields[field].short = "pass" /\ pos' = cut
                 /\ ~Undecodable(Fields[field], 1)
                 /\ field' = field + 1 /\ UNCHANGED <<part, written, result>>
              \/ /\ ~Torn /\ ~Rejects(Fields[field]) /\ ~Undecodable(Fields[field], 1)
                 /\ pos' = pos + Fields[field].width
                 /\ \/ field < 6 /\ field' = field + 1
                          /\ UNCHANGED <<part, written, result>>
                    \/ field = 6 /\ ReturnInstance
<1> DEFINE f   == Fields[field]
           got == Min({f.width, cut - pos})
           end == CASE Undecodable(f, got) -> "raise"
                    [] ~Undecodable(f, got) /\ got = f.width -> "all"
                    [] got = 0 -> f.none
                    [] OTHER -> f.short
<1>1. /\ Len(Fields) = 6 /\ f.width \in 1..8 /\ cut \in Nat /\ pos \in Nat /\ pos <= cut
      /\ field \in 1..6 /\ part \in Nat
      /\ f.none \in {"None", "raise"} /\ f.short \in {"None", "raise", "pass"}
  BY Positions, FieldSpan, FieldTable
<1>2. got = IF Torn THEN cut - pos ELSE f.width
  <2>1. f.width \in Int /\ cut - pos \in Int
    BY <1>1
  <2>2. got = IF f.width <= cut - pos THEN f.width ELSE cut - pos
    BY <2>1, Smaller
  <2> QED
    BY <2>1, <2>2 DEF Torn
<1>3. Undecodable(f, got) <=> got > 0 /\ Undecodable(f, 1)
  BY DEF Undecodable
<1>4. /\ result = "parsing" /\ UNCHANGED <<header, records, cut>>
      /\ \/ end = "raise" /\ Raise
         \/ end = "None" /\ ReturnNone
         \/ end = "pass" /\ Take(got) /\ NextField
         \/ end = "all" /\ Rejects(f) /\ ReturnNone
         \/ end = "all" /\ ~Rejects(f) /\ field < Len(Fields) /\ Take(got) /\ NextField
         \/ end = "all" /\ ~Rejects(f) /\ field = Len(Fields) /\ Take(got) /\ ReturnInstance
  BY DEF ReadField
<1> HIDE DEF f
<1>5. CASE Undecodable(f, got)
  <2>1. end = "raise" /\ got > 0
    BY <1>5, <1>3
  <2>2. pos < cut
    BY <1>1, <1>2, <2>1 DEF Torn, f
  <2>3. Raise
    BY <1>4, <2>1
  <2> QED
    BY <1>3, <1>4, <1>5, <2>2, <2>3 DEF Raise, Stops, f
<1>6. CASE ~Undecodable(f, got) /\ ~Torn
  <2>1. end = "all" /\ got = f.width /\ pos < cut /\ ~Undecodable(f, 1)
    BY <1>1, <1>2, <1>3, <1>6 DEF Torn, f
  <2>2. CASE ReturnNone /\ Rejects(f)
    BY <1>4, <2>1, <2>2 DEF ReturnNone, Stops, f
  <2>3. CASE ~Rejects(f) /\ field < 6 /\ Take(got) /\ NextField
    BY <1>4, <1>6, <2>1, <2>3 DEF Take, NextField, f
  <2>4. CASE ~Rejects(f) /\ field = 6 /\ Take(got) /\ ReturnInstance
    BY <1>4, <1>6, <2>1, <2>4 DEF Take, f
  <2> QED
    BY <1>1, <1>4, <2>1, <2>2, <2>3, <2>4
<1>7. CASE ~Undecodable(f, got) /\ Torn /\ pos = cut
  <2>1. got = 0 /\ end = f.none
    BY <1>1, <1>2, <1>7
  <2>2. (f.none = "raise" /\ Raise) \/ (f.none = "None" /\ ReturnNone)
    BY <1>1, <1>4, <2>1
  <2>3. /\ UNCHANGED <<pos, part, field, written>>
        /\ result' = Ending(f.none)
    BY <2>2 DEF Raise, ReturnNone, Ending
  <2> QED
    BY <1>4, <1>7, <2>3 DEF Stops, f
<1>8. CASE ~Undecodable(f, got) /\ Torn /\ pos < cut
  <2>1. got = cut - pos /\ got > 0 /\ got # f.width /\ end = f.short
    BY <1>1, <1>2, <1>8 DEF Torn, f
  <2>2. \/ f.short = "raise" /\ Raise
        \/ f.short = "None" /\ ReturnNone
        \/ f.short = "pass" /\ Take(got) /\ NextField
    BY <1>1, <1>4, <2>1
  <2>3. CASE f.short = "pass" /\ Take(got) /\ NextField
    <3>1. pos' = cut
      BY <1>1, <2>1, <2>3 DEF Take
    <3> QED
      BY <1>3, <1>4, <1>8, <2>1, <2>3, <3>1 DEF NextField, f
  <2>4. CASE (f.short = "raise" /\ Raise) \/ (f.short = "None" /\ ReturnNone)
    <3>1. /\ UNCHANGED <<pos, part, field, written>> /\ f.short # "pass"
          /\ result' = Ending(f.short)
      BY <2>4 DEF Raise, ReturnNone, Ending
    <3> QED
      BY <1>4, <1>8, <3>1 DEF Stops, f
  <2> QED
    BY <2>2, <2>3, <2>4
<1> QED
  BY <1>1, <1>5, <1>6, <1>7, <1>8

(* Fields follow each other and the last ends the part.                    *)
LEMMA OffsetsGrow ==
    ASSUME NEW p \in Nat, NEW f \in 1..6
    PROVE  /\ Offset(p, f + 1) \in Nat /\ Offset(p, f) < Offset(p, f + 1)
           /\ Offset(p, f + 1) <= Offset(p, 7)
           /\ f = 6 => Offset(p, f + 1) = Offset(p, 7)
  BY DEF Offset

(* Where the bytes that are left end, if the next field is torn.            *)
LEMMA TornAt ==
    ASSUME ParserInv, Torn
    PROVE  /\ Tear \in Nat /\ Tear < Offset(part, field + 1)
           /\ pos < cut => Tear > Offset(part, field)
           /\ pos = cut /\ cut >= Here => Tear = Offset(part, field)
           /\ cut < Here => Tear > Offset(part, field - 1) /\ Tear < Offset(part, field)
<1>1. AtField /\ Begin(part) \in Nat /\ cut \in Nat /\ pos \in Nat /\ pos <= cut
      /\ part \in Nat /\ field \in 1..6
  BY Positions DEF ParserInv
<1>2. Offset(part, field) \in Nat /\ Fields[field].width \in Nat
      /\ Offset(part, field + 1) = Offset(part, field) + Fields[field].width
  BY <1>1, FieldSpan
<1>3. CASE cut >= Here
  <2>1. pos = Here
    BY <1>1, <1>3 DEF AtField
  <2> QED
    BY <1>1, <1>2, <1>3, <2>1 DEF Here, Tear, Torn
<1>4. CASE cut < Here
  <2>1. field \in {4, 6} /\ pos = cut /\ cut > Begin(part) + Offset(part, field - 1)
    BY <1>1, <1>4 DEF AtField
  <2>2. Offset(part, field - 1) \in Nat
    BY <1>1, <2>1, Offsets
  <2> QED
    BY <1>1, <1>2, <1>4, <2>1, <2>2 DEF Here, Tear
<1> QED
  BY <1>1, <1>2, <1>3, <1>4 DEF Here

(* A torn field that ends the parse ends it as the table of the tears      *)
(* says.                                                                   *)
LEMMA TornEnds ==
    ASSUME ParserInv, Torn,
           \/ pos = cut /\ result' = Ending(Fields[field].none)
           \/ pos < cut /\ Fields[field].short # "pass"
                /\ result' = Ending(Fields[field].short)
    PROVE  result' = IF part = 0
                       THEN IF Tear \in (0..4) \cup (8..12) \cup {20}
                              THEN "False" ELSE "raised"
                       ELSE IF Tear \in (0..4) \cup {8, 12, 13} THEN "True" ELSE "raised"
<1>1. part \in Nat /\ field \in 1..6 /\ Tear \in Nat /\ Tear < Offset(part, field + 1)
  BY Positions, TornAt
<1>2. CASE pos = cut /\ cut >= Here
  <2>1. Tear = Offset(part, field)
    BY <1>2, TornAt
  <2>2. result' = Ending(Fields[field].none)
    BY <1>2, Positions
  <2>3. CASE part = 0
    <3>1. result' = IF field = 6 THEN "raised" ELSE "False"
      BY <1>1, <2>2, <2>3, FieldEnds
    <3> QED
      BY <1>1, <2>1, <2>3, <3>1, Offsets
  <2>4. CASE part > 0
    <3>1. result' = IF field = 6 THEN "raised" ELSE "True"
      BY <1>1, <2>2, <2>4, FieldEnds
    <3> QED
      BY <1>1, <2>1, <2>4, <3>1, Offsets
  <2> QED
    BY <1>1, <2>3, <2>4
<1>3. CASE pos = cut /\ cut < Here
  <2>1. Tear > Offset(part, field - 1) /\ Tear < Offset(part, field)
    BY <1>3, TornAt
  <2>2. IF part = 0 THEN field \in {4, 6} ELSE field = 6
    BY <1>3 DEF ParserInv, AtField
  <2>3. result' = Ending(Fields[field].none)
    BY <1>3, Positions
  <2>4. CASE part = 0
    <3>1. result' = IF field = 6 THEN "raised" ELSE "False"
      BY <1>1, <2>3, <2>4, FieldEnds
    <3> QED
      BY <1>1, <2>1, <2>2, <2>4, <3>1, Offsets
  <2>5. CASE part > 0
    <3>1. result' = "raised"
      BY <1>1, <2>2, <2>3, <2>5, FieldEnds
    <3> QED
      BY <1>1, <2>1, <2>2, <2>5, <3>1, Offsets
  <2> QED
    BY <1>1, <2>4, <2>5
<1>4. CASE pos < cut
  <2>1. Tear > Offset(part, field) /\ Tear < Offset(part, field + 1)
    BY <1>4, TornAt
  <2>2. Fields[field].short # "pass" /\ result' = Ending(Fields[field].short)
    BY <1>4, Positions
  <2>4. CASE part = 0
    <3>1. field \notin {3, 5} /\ result' = IF field = 1 THEN "False" ELSE "raised"
      BY <1>1, <2>2, <2>4, FieldEnds
    <3> QED
      BY <1>1, <2>1, <2>4, <3>1, Offsets
  <2>5. CASE part > 0
    <3>1. field \notin {4, 5} /\ result' = IF field = 1 THEN "True" ELSE "raised"
      BY <1>1, <2>2, <2>5, FieldEnds
    <3> QED
      BY <1>1, <2>1, <2>5, <3>1, Offsets
  <2> QED
    BY <1>1, <2>4, <2>5
<1>5. cut \in Nat /\ pos \in Nat /\ pos <= cut /\ Here \in Nat
  <2>1. cut \in Nat /\ pos \in Nat /\ pos <= cut /\ Begin(part) \in Nat
    BY Positions
  <2>2. Offset(part, field) \in Nat
    BY <1>1, FieldSpan
  <2> QED
    BY <2>1, <2>2 DEF Here
<1> QED
  BY <1>2, <1>3, <1>4, <1>5

(* A read that is not at the end of the file is of a part that is there.    *)
LEMMA PartThere ==
    ASSUME ParserInv, pos < cut
    PROVE  part <= Len(records) /\ pos = Here /\ cut >= Here
<1>1. cut \in Nat /\ pos \in Nat /\ part \in Nat /\ field \in 1..6 /\ Begin(part) \in Nat
  BY Positions
<1>2. Offset(part, field) \in Nat
  BY <1>1, FieldSpan
<1>3. Here \in Nat /\ Here >= Begin(part)
  BY <1>1, <1>2 DEF Here
<1>4. pos = Here /\ cut >= Here
  BY <1>1, <1>3 DEF ParserInv, AtField
<1> QED
  BY <1>1, <1>3, <1>4, Positions

(* A read that ends the parse keeps the invariant.                         *)
LEMMA StopStep ==
    ASSUME ParserInv, Stops, result = "parsing", UNCHANGED <<header, records, cut>>
    PROVE  ParserInv'
<1>1. result' \in {"True", "False", "raised"}
  BY DEF Stops, Ending
<1>2. FileOK' /\ LogTypeOK' /\ AtField' /\ BeforeIsIntact' /\ FieldsPassed'
  <2>1. UNCHANGED <<header, records, cut, pos, part, field, written>>
    BY DEF Stops
  <2> QED
    BY <1>1, <2>1 DEF ParserInv, FileOK, LogTypeOK, AtField, Here, BeforeIsIntact, Whole,
                      FieldsPassed, Kind
<1>3. CASE Torn /\ ~(pos < cut /\ (Rejects(Fields[field])
                                   \/ Undecodable(Fields[field], 1)))
  <2>1. result' = IF part = 0
                    THEN IF Tear \in (0..4) \cup (8..12) \cup {20} THEN "False" ELSE "raised"
                    ELSE IF Tear \in (0..4) \cup {8, 12, 13} THEN "True" ELSE "raised"
    BY <1>3, TornEnds DEF Stops
  <2>2. cut < Begin(part) + Offset(part, 7)
    <3>1. part \in Nat /\ field \in 1..6 /\ cut \in Nat /\ Begin(part) \in Nat
      BY Positions
    <3>2. Offset(part, field + 1) \in Nat /\ Offset(part, field + 1) <= Offset(part, 7)
          /\ Offset(part, 7) \in Nat
      BY <3>1, OffsetsGrow, Offsets
    <3>3. Tear \in Nat /\ Tear < Offset(part, field + 1)
      BY <1>3, TornAt
    <3> QED
      BY <3>1, <3>2, <3>3 DEF Tear
  <2>3. Tear' = Tear /\ part' = part /\ cut' = cut
    BY DEF Tear, Stops
  <2> QED
    BY <1>2, <2>1, <2>2, <2>3 DEF ParserInv, EndsForCause, EndsByTear
<1>4. CASE pos < cut /\ (Rejects(Fields[field]) \/ Undecodable(Fields[field], 1))
  <2>1. part <= Len(records) /\ Kind # "good"
    BY <1>4, PartThere DEF Rejects, Undecodable
  <2>2. (part <= Len(records) /\ Kind # "good")'
    BY <2>1 DEF Stops, Kind
  <2> QED
    BY <1>2, <2>2 DEF ParserInv, EndsForCause, EndsByTear
<1> QED
  BY <1>3, <1>4 DEF Stops

(* A torn field that passes leaves the stream at the end of the file.       *)
LEMMA ShortStep ==
    ASSUME ParserInv, result = "parsing", UNCHANGED <<header, records, cut>>,
           Torn, pos < cut, Fields[field].short = "pass", pos' = cut,
           ~Undecodable(Fields[field], 1), field' = field + 1,
           UNCHANGED <<part, written, result>>
    PROVE  ParserInv'
<1>1. part \in Nat /\ field \in 1..6 /\ cut \in Nat /\ Begin(part) \in Nat
  BY Positions
<1>2. field = 5 \/ (part = 0 /\ field = 3) \/ (part > 0 /\ field = 4)
  BY <1>1, FieldEnds
<1>3. Tear > Offset(part, field) /\ Tear < Offset(part, field + 1) /\ Tear \in Nat
  BY TornAt
<1>4. ~(part > 0 /\ field = 4)
  BY <1>1, <1>3, Offsets
<1>5. AtField'
  <2>1. Offset(part, field) \in Nat /\ Offset(part, field + 1) \in Nat /\ field' - 1 = field
    BY <1>1, FieldSpan
  <2> QED
    BY <1>1, <1>2, <1>3, <1>4, <2>1 DEF AtField, Here, Tear
<1>6. FieldsPassed'
  BY <1>1, <1>2, <1>4 DEF ParserInv, FieldsPassed, Kind
<1>7. FileOK' /\ LogTypeOK' /\ BeforeIsIntact'
  <2>1. pos' \in 0..cut' /\ field' \in 1..6
    BY <1>1, <1>2, <1>4
  <2> QED
    BY <2>1 DEF ParserInv, FileOK, LogTypeOK, BeforeIsIntact, Whole
<1> QED
  BY <1>5, <1>6, <1>7 DEF ParserInv, EndsForCause, EndsByTear

(* A field that passes has not told that the part is not good.              *)
LEMMA FieldTells ==
    ASSUME ParserInv, pos < cut, ~Rejects(Fields[field]), ~Undecodable(Fields[field], 1)
    PROVE  /\ Kind # "mark" /\ (part = 0 => Kind # "binary")
           /\ part > 0 /\ field >= 4 => Kind # "length"
           /\ field = 6 => Kind = "good"
<1>1. part \in Nat /\ field \in 1..6 /\ FieldsPassed /\ FileOK
  BY Positions DEF ParserInv
<1>2. /\ Fields[field].name = "mark" <=> field = 1
      /\ Fields[field].name = "length" <=> part > 0 /\ field = 4
      /\ Fields[field].name = "crc" <=> field = 6
  BY <1>1, FieldTable
<1>3. part = 0 => Kind \in HeaderKinds
  BY <1>1 DEF Kind, FileOK
<1>4. part > 0 => Kind \in RecordKinds
  <2>1. part > 0 => part \in 1..Len(records)
    BY <1>1, PartThere, Positions
  <2> QED
    BY <1>1, <2>1 DEF Kind, FileOK
<1>5. Kind # "mark" /\ (part = 0 => Kind # "binary")
  BY <1>1, <1>2, <1>3, <1>4
     DEF FieldsPassed, Rejects, Undecodable, HeaderKinds, RecordKinds
<1>6. part > 0 /\ field >= 4 => Kind # "length"
  BY <1>1, <1>2 DEF FieldsPassed, Rejects
<1>7. field = 6 => Kind = "good"
  BY <1>1, <1>2, <1>3, <1>4, <1>5, <1>6 DEF Rejects, HeaderKinds, RecordKinds
<1> QED
  BY <1>5, <1>6, <1>7

(* A whole field that passes leads to the next, or completes its part.      *)
LEMMA WholeField ==
    ASSUME ParserInv, ~Torn
    PROVE  /\ pos = Here /\ pos < cut
           /\ Here + Fields[field].width = Begin(part) + Offset(part, field + 1)
           /\ Here + Fields[field].width <= cut /\ Here + Fields[field].width \in Nat
<1>1. part \in Nat /\ field \in 1..6 /\ pos \in Nat /\ cut \in Nat /\ Begin(part) \in Nat
      /\ pos <= cut
  BY Positions
<1>2. Fields[field].width \in Nat /\ Fields[field].width > 0 /\ Offset(part, field) \in Nat
      /\ Offset(part, field + 1) = Offset(part, field) + Fields[field].width
  BY <1>1, FieldSpan
<1>3. pos < cut
  BY <1>1, <1>2 DEF Torn
<1>4. pos = Here
  BY <1>3, PartThere
<1> QED
  BY <1>1, <1>2, <1>3, <1>4 DEF Torn, Here

(* So does one that goes on to the next field of a part.                   *)
LEMMA NextFieldStep ==
    ASSUME ParserInv, result = "parsing", UNCHANGED <<header, records, cut>>,
           ~Torn, ~Rejects(Fields[field]), ~Undecodable(Fields[field], 1),
           pos' = pos + Fields[field].width, field < 6, field' = field + 1,
           UNCHANGED <<part, written, result>>
    PROVE  ParserInv'
<1>1. part \in Nat /\ field \in 1..5 /\ pos' \in Nat /\ pos' <= cut
      /\ pos' = Begin(part) + Offset(part, field + 1)
  BY WholeField, Positions
<1>2. AtField'
  <2>1. Here' = pos' /\ cut' = cut
    BY <1>1 DEF Here
  <2> QED
    BY <1>1, <2>1, Positions DEF AtField
<1>3. FieldsPassed'
  BY <1>1, WholeField, FieldTells DEF FieldsPassed, Kind
<1>4. FileOK' /\ LogTypeOK' /\ BeforeIsIntact'
  <2>1. pos' \in 0..cut' /\ field' \in 1..6
    BY <1>1, Positions
  <2> QED
    BY <2>1 DEF ParserInv, FileOK, LogTypeOK, BeforeIsIntact, Whole
<1> QED
  BY <1>2, <1>3, <1>4 DEF ParserInv, EndsForCause, EndsByTear

(* So does one that completes a part, and a record is written whole.       *)
LEMMA CompleteStep ==
    ASSUME ParserInv, result = "parsing", UNCHANGED <<header, records, cut>>,
           ~Torn, ~Rejects(Fields[field]), ~Undecodable(Fields[field], 1),
           pos' = pos + Fields[field].width, field = 6, ReturnInstance
    PROVE  ParserInv'
<1>1. part \in Nat /\ pos' \in Nat /\ pos' <= cut /\ cut \in Nat
      /\ pos' = Begin(part) + Offset(part, 7) /\ Len(records) \in Nat
  BY WholeField, Positions
<1>2. pos' = Begin(part + 1) /\ part' = part + 1 /\ field' = 1 /\ result' = result
  BY <1>1, Positions DEF ReturnInstance
<1>3. part <= Len(records) /\ Kind = "good" /\ part' <= Len(records) + 1
  BY <1>1, <1>2, WholeField, FieldTells, PartThere
<1>4. AtField'
  <2>1. Offset(part', 1) = 0
    BY <1>1, <1>2, Offsets
  <2> QED
    BY <1>1, <1>2, <2>1 DEF AtField, Here
<1>5. BeforeIsIntact'
  <2>1. Whole' = part
    BY <1>1, <1>2 DEF Whole
  <2>2. written' = [k \in 1..part |-> k]
    <3>1. CASE part = 0
      BY <3>1 DEF ReturnInstance, ParserInv, BeforeIsIntact, Whole
    <3>2. CASE part > 0
      <4>1. written = [k \in 1..part - 1 |-> k] /\ written' = Append(written, part)
        BY <1>1, <3>2 DEF ReturnInstance, ParserInv, BeforeIsIntact, Whole
      <4>2. written \in Seq(1..MaxRecords) /\ Len(written) = part - 1
        <5>1. written \in Seq(1..MaxRecords)
          BY DEF ParserInv, LogTypeOK
        <5>2. DOMAIN written = 1..Len(written) /\ Len(written) \in Nat
          BY <5>1, LenProperties
        <5>3. DOMAIN written = 1..part - 1
          BY <4>1
        <5> QED
          BY <1>1, <3>2, <5>1, <5>2, <5>3
      <4>3. written' = [k \in 1..part |-> IF k = part THEN part ELSE written[k]]
        BY <1>1, <3>2, <4>1, <4>2
      <4> QED
        BY <1>1, <3>2, <4>1, <4>3
    <3> QED
      BY <1>1, <3>1, <3>2
  <2>3. header = "good"
    BY <1>1, <1>3 DEF Kind, ParserInv, BeforeIsIntact
  <2>4. \A j \in 1..part : records[j] = "good"
    BY <1>1, <1>3 DEF Kind, ParserInv, BeforeIsIntact
  <2> QED
    BY <1>1, <1>2, <2>1, <2>2, <2>3, <2>4 DEF BeforeIsIntact
<1>6. FieldsPassed'
  BY <1>2 DEF FieldsPassed
<1>7. FileOK' /\ LogTypeOK'
  <2>1. written' \in Seq(1..MaxRecords)
    <3>1. written \in Seq(1..MaxRecords) /\ Len(records) <= MaxRecords
      BY DEF ParserInv, LogTypeOK, FileOK
    <3>2. CASE part = 0
      BY <3>1, <3>2 DEF ReturnInstance
    <3>3. CASE part > 0
      <4>1. part \in 1..MaxRecords
        BY <1>1, <1>3, <3>1, <3>3, LogParserAssumption
      <4> QED
        BY <3>1, <3>3, <4>1, AppendProperties DEF ReturnInstance
    <3> QED
      BY <1>1, <3>2, <3>3
  <2> QED
    BY <1>1, <1>2, <1>3, <2>1 DEF ParserInv, FileOK, LogTypeOK
<1> QED
  BY <1>2, <1>4, <1>5, <1>6, <1>7 DEF ParserInv, EndsForCause, EndsByTear

-----------------------------------------------------------------------------
(* ParserInv is an inductive invariant of the parse.                       *)
THEOREM ParserInvAlways == LogSpec => []ParserInv
<1>1. LogInit => ParserInv
  <2> SUFFICES ASSUME LogInit PROVE ParserInv
    OBVIOUS
  <2>1. FileOK
    <3>1. PICK n \in 0..MaxRecords : records \in [1..n -> RecordKinds]
      BY DEF LogInit
    <3>2. records \in Seq(RecordKinds) /\ Len(records) = n
      BY <3>1, LogParserAssumption
    <3> QED
      BY <3>1, <3>2, LogParserAssumption DEF LogInit, FileOK
  <2>2. cut \in Nat /\ Len(records) \in Nat
    BY <2>1 DEF FileOK, HeaderBytes, RecordBytes
  <2>3. LogTypeOK
    BY <2>2 DEF LogInit, LogTypeOK
  <2>4. AtField
    BY <2>2, Offsets DEF LogInit, AtField, Here, Begin
  <2>5. BeforeIsIntact
    <3>1. << >> = [k \in 1..0 |-> k]
      OBVIOUS
    <3> QED
      BY <3>1 DEF LogInit, BeforeIsIntact, Whole
  <2> QED
    BY <2>1, <2>3, <2>4, <2>5
       DEF LogInit, ParserInv, FieldsPassed, EndsForCause, EndsByTear
<1>2. ParserInv /\ [LogNext]_logVars => ParserInv'
  <2>1. ASSUME ParserInv, ReadField PROVE ParserInv'
    BY <2>1, ReadKinds, StopStep, ShortStep, NextFieldStep, CompleteStep
  <2>2. ASSUME ParserInv, UNCHANGED logVars PROVE ParserInv'
    BY <2>2 DEF logVars, ParserInv, FileOK, LogTypeOK, AtField, Here, BeforeIsIntact, Whole,
                FieldsPassed, Kind, EndsForCause, EndsByTear, Tear
  <2> QED
    BY <2>1, <2>2 DEF LogNext, Finished
<1> QED
  BY <1>1, <1>2, PTL DEF LogSpec

(* The records before the part the parse ended in are the intact ones.      *)
LEMMA WholeIsIntact ==
    ASSUME ParserInv, result # "parsing"
    PROVE  Intact = 1..Whole /\ Whole \in Nat
<1>1. /\ part \in Nat /\ Len(records) \in Nat /\ part <= Len(records) + 1
      /\ cut \in Nat /\ Begin(part) \in Nat
  BY Positions
<1>2. CASE part = 0
  <2>1. cut < 32 \/ header # "good"
    BY <1>2, Offsets DEF ParserInv, EndsForCause, Begin, Kind
  <2> QED
    BY <1>2, <2>1 DEF Intact, Whole, HeaderBytes
<1>3. CASE part > 0
  <2>1. header = "good" /\ cut >= Begin(part) /\ \A j \in 1..part - 1 : records[j] = "good"
    BY <1>3 DEF ParserInv, BeforeIsIntact
  <2>2. Begin(part) = 11 + 21 * part /\ Whole = part - 1
    BY <1>1, <1>3, Positions DEF Whole
  <2>3. cut < Begin(part) + 21 \/ (part <= Len(records) /\ records[part] # "good")
    BY <1>1, <1>3, Offsets DEF ParserInv, EndsForCause, Kind
  <2>4. Intact = {k \in 1..Len(records) :
                    32 + 21 * k <= cut /\ \A j \in 1..k : records[j] = "good"}
    BY <1>1, <1>3, <2>1, <2>2 DEF Intact, HeaderBytes, RecordBytes
  <2>5. ASSUME NEW k \in 1..part - 1 PROVE k \in Intact
    BY <1>1, <2>1, <2>2, <2>4, <2>5
  <2>6. ASSUME NEW k \in Intact PROVE k \in 1..part - 1
    <3>1. k \in 1..Len(records) /\ 32 + 21 * k <= cut /\ \A j \in 1..k : records[j] = "good"
      BY <2>4, <2>6
    <3>2. CASE k >= part
      <4>1. part \in 1..k /\ part <= Len(records)
        BY <1>1, <1>3, <3>1, <3>2
      <4> QED
        BY <1>1, <2>2, <2>3, <3>1, <3>2, <4>1
    <3> QED
      BY <1>1, <3>1, <3>2
  <2>7. Intact = 1..part - 1
    BY <2>5, <2>6
  <2> QED
    BY <1>1, <1>3, <2>2, <2>7
<1> QED
  BY <1>1, <1>2, <1>3

(* Exactly the intact records are written, in their order, wherever the log *)
(* was cut off and however the parse ends.                                 *)
LEMMA WrittenAreIntact == ASSUME ParserInv PROVE IntactRecordsWritten
<1> SUFFICES ASSUME result # "parsing"
             PROVE  written = [k \in 1..Cardinality(Intact) |-> k]
  BY DEF IntactRecordsWritten
<1>1. Cardinality(Intact) = Whole
  BY WholeIsIntact, FS_Interval
<1> QED
  BY <1>1 DEF ParserInv, BeforeIsIntact

(* The bytes of the torn record are what is left over from whole ones.     *)
LEMMA Remainder ==
    ASSUME NEW q \in Nat, NEW r \in 0..20 PROVE (21 * q + r) % 21 = r
  OBVIOUS

(* Of a log that was cut off and is otherwise good the caller is told what  *)
(* the table of CutOutcome says, and nothing else decides it.               *)
LEMMA CutDecides == ASSUME ParserInv PROVE CutOutcome
<1> SUFFICES ASSUME result # "parsing", header = "good",
                    \A k \in 1..Len(records) : records[k] = "good"
             PROVE  result = IF cut < HeaderBytes
                      THEN IF cut \in (0..4) \cup (8..12) \cup {20} THEN "False" ELSE "raised"
                      ELSE IF (cut - HeaderBytes) % RecordBytes \in (0..4) \cup {8, 12, 13}
                             THEN "True" ELSE "raised"
  BY DEF CutOutcome
<1>1. /\ part \in Nat /\ Len(records) \in Nat /\ part <= Len(records) + 1
      /\ cut \in Nat /\ Begin(part) \in Nat
  BY Positions
<1>2. ~(part <= Len(records) /\ Kind # "good")
  BY <1>1 DEF Kind
<1>3. cut < Begin(part) + Offset(part, 7)
  BY <1>2 DEF ParserInv, EndsForCause
<1>4. result = IF part = 0
                 THEN IF Tear \in (0..4) \cup (8..12) \cup {20} THEN "False" ELSE "raised"
                 ELSE IF Tear \in (0..4) \cup {8, 12, 13} THEN "True" ELSE "raised"
  BY <1>2 DEF ParserInv, EndsByTear
<1>5. CASE part = 0
  <2>1. Tear = cut /\ cut < 32
    BY <1>1, <1>3, <1>5, Offsets DEF Tear, Begin
  <2> QED
    BY <1>4, <1>5, <2>1 DEF HeaderBytes
<1>6. CASE part > 0
  <2>1. Begin(part) = 11 + 21 * part /\ cut >= Begin(part) /\ cut < Begin(part) + 21
    BY <1>1, <1>3, <1>6, Positions, Offsets DEF ParserInv, BeforeIsIntact
  <2>2. Tear \in 0..20 /\ part - 1 \in Nat /\ cut - 32 = 21 * (part - 1) + Tear /\ cut >= 32
    BY <1>1, <1>6, <2>1 DEF Tear
  <2>3. (cut - 32) % 21 = Tear
    BY <2>2, Remainder
  <2>4. result = IF Tear \in (0..4) \cup {8, 12, 13} THEN "True" ELSE "raised"
    BY <1>1, <1>4, <1>6
  <2> QED
    BY <1>1, <2>2, <2>3, <2>4 DEF HeaderBytes, RecordBytes
<1> QED
  BY <1>1, <1>5, <1>6

-----------------------------------------------------------------------------
(* The file with its metadata: LogFile.                                     *)

(* Metadata is what the device listed, or there is none; and there are no   *)
(* lines before it and the first line are there.                           *)
MetadataKnown ==
    /\ step \in {"metadata", "columns", "rows", "refused", "raised"}
    /\ file.kind \in {"good", "crc", "absent"} \cup Unreadable
    /\ file.kind = "good" => file.read = file.listed
    /\ file.read \in Lists
    /\ metadata = None \/ /\ metadata \in Lists /\ metadata = file.listed
                          /\ Len(metadata) >= 1
    /\ step # "rows" => rows = << >> /\ written = << >>
    /\ step = "rows" => columns = IF metadata = None THEN <<"Value">> ELSE metadata

(* The line of a record with these metadata.                               *)
Line(m, k) ==
    IF m = None THEN <<k>>
    ELSE [c \in 1..Len(m) |-> IF m[c] = SensorOf[k] THEN k ELSE Blank]

(* The lines are those of the records written, one for each.                *)
RowsFollowRecords ==
    /\ rows \in Seq(Seq(Nat))
    /\ Len(rows) = Len(written)
    /\ \A r \in 1..Len(rows) : rows[r] = Line(metadata, written[r])

CsvInv == ParserInv /\ MetadataKnown /\ RowsFollowRecords

(* Writing a log reads it once from the beginning.                         *)
THEOREM CsvReadsLog == CsvSpec => LogSpec
<1>1. CsvInit => LogInit
  BY DEF CsvInit
<1>2. [CsvNext]_<<logVars, csvVars>> => [LogNext]_logVars
  BY DEF CsvNext, LoadMetadata, WriteColumns, WriteRows, Ended, LogNext
<1> QED
  BY <1>1, <1>2, PTL DEF CsvSpec, LogSpec

(* A row has a place for each column of the header line.                   *)
LEMMA RowIsLine ==
    ASSUME MetadataKnown, NEW k \in Nat
    PROVE  /\ Row(k) = Line(metadata, k) /\ Row(k) \in Seq(Nat)
           /\ metadata # None => Len(metadata) \in Nat /\ Len(Row(k)) = Len(metadata)
<1>1. CASE metadata = None
  BY <1>1 DEF Row, SensorIds, Line
<1>2. CASE metadata # None
  <2>1. metadata \in Seq(Sensors) /\ Len(metadata) >= 1
    BY <1>2, LogFileAssumption DEF MetadataKnown
  <2>2. DOMAIN metadata = 1..Len(metadata) /\ Len(metadata) \in Nat
    BY <2>1, LenProperties
  <2>3. SensorIds = metadata /\ metadata # << >>
    BY <1>2, <2>1 DEF SensorIds
  <2>4. Row(k) = [c \in 1..Len(metadata) |->
                   IF metadata[c] = SensorOf[k] THEN k ELSE Blank]
    BY <2>2, <2>3 DEF Row
  <2>5. Row(k) \in [1..Len(metadata) -> Nat]
    BY <2>4 DEF Blank
  <2>6. Row(k) \in Seq(Nat) /\ Len(Row(k)) = Len(metadata)
    BY <2>2, <2>5
  <2> QED
    BY <1>2, <2>2, <2>4, <2>6 DEF Line
<1> QED
  BY <1>1, <1>2

(* Every step of the output keeps a row for each record written.           *)
LEMMA CsvStep ==
    ASSUME CsvInv, [CsvNext]_<<logVars, csvVars>>, ParserInv'
    PROVE  MetadataKnown' /\ RowsFollowRecords'
<1>0. MetadataKnown /\ RowsFollowRecords
  BY DEF CsvInv
<1>1. CASE LoadMetadata
  <2>1. rows = << >> /\ written = << >> /\ step = "metadata"
        /\ UNCHANGED <<rows, written, file>> /\ step' \in {"columns", "raised", "refused"}
    BY <1>0, <1>1 DEF LoadMetadata, logVars, MetadataKnown
  <2>2. \/ metadata' = metadata
        \/ /\ file.kind \notin Unreadable \cup {"crc", "absent"} /\ Len(file.read) \in 1..MaxQty
           /\ metadata' = file.read
    BY <1>1 DEF LoadMetadata, Refused, Unreadable
  <2>3. \/ metadata' = metadata
        \/ metadata' = file.listed /\ file.listed \in Lists /\ Len(file.listed) >= 1
    <3>1. CASE /\ file.kind \notin Unreadable \cup {"crc", "absent"}
               /\ Len(file.read) \in 1..MaxQty /\ metadata' = file.read
      <4>1. file.read = file.listed /\ file.read \in Lists
        BY <1>0, <3>1 DEF MetadataKnown
      <4> QED
        BY <3>1, <4>1, LogFileAssumption
    <3> QED
      BY <2>2, <3>1
  <2>4. MetadataKnown'
    BY <1>0, <2>1, <2>3 DEF MetadataKnown
  <2> QED
    BY <1>0, <2>1, <2>4 DEF RowsFollowRecords
<1>2. CASE WriteColumns
  <2>1. rows' = << >> /\ written' = << >> /\ step' = "rows" /\ UNCHANGED <<file, metadata>>
        /\ columns' = IF metadata = None THEN <<"Value">> ELSE metadata
    BY <1>0, <1>2 DEF WriteColumns, logVars, MetadataKnown
  <2> QED
    BY <1>0, <2>1 DEF MetadataKnown, RowsFollowRecords
<1>3. CASE WriteRows
  <2>1. /\ ReadField /\ step = "rows" /\ UNCHANGED <<file, metadata, columns, step>>
        /\ rows' = IF written' = written THEN rows ELSE Append(rows, Row(part))
    BY <1>3 DEF WriteRows
  <2>2. MetadataKnown'
    BY <1>0, <2>1 DEF MetadataKnown
  <2>4. written \in Seq(1..MaxRecords) /\ part \in Nat
    BY Positions DEF CsvInv, ParserInv, LogTypeOK
  <2>5. CASE written' = written
    BY <1>0, <2>1, <2>2, <2>5 DEF RowsFollowRecords
  <2>6. CASE written' # written
    <3>1. part > 0 /\ written' = Append(written, part)
      BY <2>1, <2>4, <2>6, ReadKinds DEF CsvInv, Stops, ReturnInstance
    <3>2. part \in 1..MaxRecords
      <4>1. written' \in Seq(1..MaxRecords)
        BY DEF ParserInv, LogTypeOK
      <4>2. Len(written) \in Nat /\ Len(written') = Len(written) + 1
            /\ written'[Len(written) + 1] = part
        BY <2>4, <3>1, AppendProperties
      <4>3. Len(written) + 1 \in 1..Len(written')
        BY <4>2
      <4>4. written'[Len(written) + 1] \in 1..MaxRecords
        BY <4>1, <4>3, ElementOfSeq
      <4> QED
        BY <4>2, <4>4
    <3>3. /\ Len(written') = Len(written) + 1 /\ Len(written) \in Nat
          /\ \A r \in 1..Len(written) : written'[r] = written[r]
          /\ written'[Len(written) + 1] = part
      BY <2>4, <3>1, <3>2, AppendProperties, LenProperties
    <3>4. /\ rows \in Seq(Seq(Nat)) /\ Row(part) \in Seq(Nat)
          /\ Row(part) = Line(metadata, part) /\ rows' = Append(rows, Row(part))
      BY <1>0, <2>1, <2>4, <2>6, RowIsLine DEF RowsFollowRecords
    <3>5. /\ rows' \in Seq(Seq(Nat)) /\ Len(rows') = Len(rows) + 1 /\ Len(rows) \in Nat
          /\ \A r \in 1..Len(rows) : rows'[r] = rows[r]
          /\ rows'[Len(rows) + 1] = Row(part)
      BY <3>4, AppendProperties, LenProperties
    <3>6. ASSUME NEW r \in 1..Len(rows') PROVE rows'[r] = Line(metadata, written'[r])
      <4>1. Len(rows) = Len(written)
            /\ \A q \in 1..Len(rows) : rows[q] = Line(metadata, written[q])
        BY <1>0 DEF RowsFollowRecords
      <4>2. CASE r = Len(rows) + 1
        BY <3>3, <3>4, <3>5, <4>1, <4>2
      <4>3. CASE r \in 1..Len(rows)
        BY <3>3, <3>5, <4>1, <4>3
      <4> QED
        BY <3>5, <3>6, <4>2, <4>3
    <3>7. Len(rows') = Len(written') /\ metadata' = metadata
      BY <1>0, <2>1, <3>3, <3>5 DEF RowsFollowRecords
    <3> QED
      BY <2>2, <3>5, <3>6, <3>7 DEF RowsFollowRecords
  <2> QED
    BY <2>2, <2>5, <2>6
<1>4. CASE UNCHANGED <<logVars, csvVars>>
  BY <1>0, <1>4 DEF logVars, csvVars, MetadataKnown, RowsFollowRecords, Row, SensorIds
<1> QED
  BY <1>1, <1>2, <1>3, <1>4 DEF CsvNext, Ended

(* CsvInv is an inductive invariant of writing a log as CSV.                *)
THEOREM CsvInvAlways == CsvSpec => []CsvInv
<1>1. CsvInit => MetadataKnown /\ RowsFollowRecords
  <2> SUFFICES ASSUME CsvInit PROVE MetadataKnown /\ RowsFollowRecords
    OBVIOUS
  <2>1. file \in Files /\ (file.kind = "good" => file.read = file.listed)
    BY DEF CsvInit
  <2>2. file.kind \in {"good", "crc", "absent"} \cup Unreadable /\ file.read \in Lists
    BY <2>1, LogFileAssumption DEF Files
  <2>3. rows = << >> /\ written = << >> /\ metadata = None /\ step = "metadata"
    BY DEF CsvInit, LogInit
  <2>4. << >> \in Seq(Seq(Nat)) /\ Len(<< >>) = 0
    BY EmptySeq
  <2> QED
    BY <2>1, <2>2, <2>3, <2>4 DEF MetadataKnown, RowsFollowRecords
<1>2. MetadataKnown /\ RowsFollowRecords /\ ParserInv /\ ParserInv'
        /\ [CsvNext]_<<logVars, csvVars>> => MetadataKnown' /\ RowsFollowRecords'
  BY CsvStep DEF CsvInv
<1>3. ParserInv /\ MetadataKnown /\ RowsFollowRecords <=> CsvInv
  BY DEF CsvInv
<1> QED
  BY ParserInvAlways, CsvReadsLog, <1>1, <1>2, <1>3, PTL DEF CsvSpec

(* Exactly the intact records are written, wherever the log was cut off.    *)
THEOREM IntactRecordsAlwaysWritten == CsvSpec => []IntactRecordsWritten
<1>1. ParserInv => IntactRecordsWritten
  BY WrittenAreIntact
<1> QED
  BY ParserInvAlways, CsvReadsLog, <1>1, PTL

(* What the caller is told of a log follows from where it was cut off.      *)
THEOREM CutAlwaysDecides == CsvSpec => []CutOutcome
<1>1. ParserInv => CutOutcome
  BY CutDecides
<1> QED
  BY ParserInvAlways, CsvReadsLog, <1>1, PTL

(* A reading stands in the column of its sensor and in no other.            *)
THEOREM ReadingsAlwaysInTheirColumns == CsvSpec => []ReadingsInTheirColumns
<1>1. CsvInv => ReadingsInTheirColumns
  <2> SUFFICES ASSUME CsvInv, NEW r \in 1..Len(rows)
               PROVE  /\ Len(rows[r]) = Len(columns)
                      /\ IF metadata = None THEN rows[r] = <<written[r]>>
                         ELSE /\ columns = file.listed
                              /\ \A c \in 1..Len(columns) :
                                   rows[r][c] = written[r]
                                     <=> columns[c] = SensorOf[written[r]]
    BY DEF CsvInv, RowsFollowRecords, ReadingsInTheirColumns
  <2>0. MetadataKnown /\ RowsFollowRecords
    BY DEF CsvInv
  <2>1. rows # << >>
    BY EmptySeq
  <2>2. columns = IF metadata = None THEN <<"Value">> ELSE metadata
    BY <2>0, <2>1 DEF MetadataKnown
  <2>3. written[r] \in Nat /\ written[r] > 0
    <3>1. written \in Seq(1..MaxRecords) /\ r \in 1..Len(written)
      BY <2>0 DEF CsvInv, ParserInv, LogTypeOK, RowsFollowRecords
    <3>2. written[r] \in 1..MaxRecords
      BY <3>1, ElementOfSeq
    <3> QED
      BY <3>2, LogParserAssumption
  <2>4. rows[r] = Line(metadata, written[r]) /\ rows[r] = Row(written[r])
    BY <2>0, <2>3, RowIsLine DEF RowsFollowRecords
  <2>5. CASE metadata = None
    <3>1. rows[r] = <<written[r]>> /\ columns = <<"Value">>
      BY <2>2, <2>4, <2>5 DEF Line
    <3> QED
      BY <2>5, <3>1
  <2>6. CASE metadata # None
    <3>1. columns = metadata /\ columns = file.listed
      BY <2>0, <2>2, <2>6 DEF MetadataKnown
    <3>2. /\ Len(metadata) \in Nat /\ Len(rows[r]) = Len(metadata)
          /\ rows[r] = [c \in 1..Len(metadata) |->
                          IF metadata[c] = SensorOf[written[r]] THEN written[r] ELSE 0]
      BY <2>0, <2>3, <2>4, <2>6, RowIsLine DEF Line, Blank
    <3>3. ASSUME NEW c \in 1..Len(metadata)
          PROVE  rows[r][c] = written[r] <=> metadata[c] = SensorOf[written[r]]
      BY <2>3, <3>2
    <3> QED
      BY <2>6, <3>1, <3>2, <3>3
  <2> QED
    BY <2>5, <2>6
<1> QED
  BY CsvInvAlways, <1>1, PTL
=============================================================================
