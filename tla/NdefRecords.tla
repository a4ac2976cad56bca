------------------------------ MODULE NdefRecords ------------------------------
(***************************************************************************)
(* The pull callback of the reader: NdefPull_Cb (nfc_task.c) walks over the *)
(* records of a message in NdefBuffer with DetectNdefRecordType and         *)
(* GetNextRecord (ndef_helper.c), and over the fields of a Wi-Fi token.     *)
(*                                                                          *)
(* A message is a sequence of records laid out without gaps, of which only  *)
(* what the walk looks at is kept: flags, lengths, and for type and fields   *)
(* which of the strings and tags that the code knows they begin with.       *)
(* Positions are offsets in the buffer, so that every pointer of the code   *)
(* is a number.  The callback never looks at NdefMessageSize: the end is    *)
(* where a record has the ME flag.                                          *)
(***************************************************************************)
EXTENDS Naturals, Sequences

CONSTANTS
  Messages,    \* the messages that a tag may hold
  BufferSize   \* RW_MAX_NDEF_FILE_SIZE

(* The strings that media types are compared with, and their lengths.        *)
MediaLength ==
  [xvcard |-> 12, vcard |-> 10, wifi |-> 23, bt |-> 32, ble |-> 32, secure |-> 39]

(* How many characters at the beginning of two of them agree.                *)
Agree(a, b) ==
  CASE a = b -> MediaLength[a]
    [] {a, b} = {"xvcard", "vcard"} -> 5                     \* text/
    [] {a, b} \subseteq {"bt", "ble", "secure"} /\ a # b -> 26
    [] {a, b} \subseteq {"wifi", "bt", "ble", "secure"} /\ "wifi" \in {a, b} /\ a # b -> 16
    [] OTHER -> 0

WellKnown == [T |-> 1, U |-> 1, Sp |-> 2, Hs |-> 2, Hr |-> 2, ac |-> 2, cr |-> 2]
Types     == DOMAIN WellKnown \cup {"MEDIA_VCARD", "wifi", "bt", "ble", "secure",
                                    "ABSOLUTE_URI", "unsupported"}
Fields    == {"wrapper", "ssid", "auth", "enc", "key", "other", "junk"}

(* A record: flags, TNF, the lengths of type, ID and payload, the string its *)
(* type begins like ("none": no string of the code), the first byte of the   *)
(* payload (of a text: its status byte), the fields of a token.              *)
Record ==
  [sr : BOOLEAN, il : BOOLEAN, tnf : {"well_known", "media", "absolute", "other"},
   type : DOMAIN WellKnown \cup DOMAIN MediaLength \cup {"none"},
   tlen : Nat, idlen : Nat, plen : Nat, status : 0 .. 255,
   fields : Seq([tag : Fields, len : Nat])]

(* The lengths fit the bytes that hold them; no ID without the IL flag.      *)
Encoded(r) ==
  /\ r.tlen <= 255 /\ r.idlen <= 255
  /\ r.sr => r.plen <= 255
  /\ ~r.il => r.idlen = 0

(* A message: its records; whether the last one lacks the ME flag.           *)
ASSUME RecordsAssumption ==
  /\ BufferSize \in Nat
  /\ \A m \in Messages :
       /\ m.records \in Seq(Record) /\ m.records # <<>> /\ m.open \in BOOLEAN
       /\ \A i \in DOMAIN m.records : Encoded(m.records[i])

VARIABLES
  pc,       \* "idle", "record", "wifi", "next", "done", "lost": reading foreign bytes
  message,  \* the message in NdefBuffer
  at,       \* pNdefRecord
  index,    \* unsigned char index
  shown,    \* history: the records printed, [type, payload, size]
  far       \* history: the last byte of the buffer that was touched

vars == <<pc, message, at, index, shown, far>>

-----------------------------------------------------------------------------
(* The layout of NDEF, which the message on the tag follows *)

TypeStart(r) == 2 + (IF r.sr THEN 1 ELSE 4) + (IF r.il THEN 1 ELSE 0)
Length(r)    == TypeStart(r) + r.tlen + r.idlen + r.plen

(* Where each of the things of these lengths begins, laid out without gaps.  *)
Begins(lengths) ==
  LET begin[j \in 1 .. Len(lengths) + 1] == IF j = 1 THEN 0 ELSE begin[j - 1] + lengths[j - 1]
  IN  begin

(* Where the i-th record begins, and its payload.                            *)
Start(recs, i) == Begins([j \in 1 .. Len(recs) |-> Length(recs[j])])[i]

PayloadStart(recs, i) == Start(recs, i) + Length(recs[i]) - recs[i].plen

Size(m) == Start(m.records, Len(m.records) + 1)

(* The type of a record: the whole string is that of the table.              *)
TypeOf(r) ==
  CASE r.tnf = "well_known" /\ r.type \in DOMAIN WellKnown -> r.type
    [] r.tnf = "media" /\ r.type \in {"xvcard", "vcard"} /\ r.tlen = MediaLength[r.type] -> "MEDIA_VCARD"
    [] r.tnf = "media" /\ r.type \in {"wifi", "bt", "ble", "secure"} /\ r.tlen = MediaLength[r.type] -> r.type
    [] r.tnf = "absolute" -> "ABSOLUTE_URI"
    [] OTHER -> "unsupported"

(* Where the k-th field of a Wi-Fi token begins: the wrapper holds the       *)
(* fields after it, a byte that is no field stands alone.                    *)
FieldLength(f) == CASE f.tag = "wrapper" -> 4 [] f.tag = "junk" -> 1 [] OTHER -> 4 + f.len

FieldStart(fs, k) == Begins([j \in 1 .. Len(fs) |-> FieldLength(fs[j])])[k]

-----------------------------------------------------------------------------
(* ndef_helper.c *)

(* typeField, at the end of its computation.                                 *)
TypeField(r) == (IF r.sr THEN 3 ELSE 6) + (IF r.il THEN 1 ELSE 0)

(* record.recordPayload.                                                     *)
RecordPayload(r) ==
  at + (IF r.sr THEN 3 ELSE 6) + r.tlen + (IF r.il THEN 1 + r.idlen ELSE 0)

(* memcmp of pNdefRecord[1] bytes with a string: a type that is the          *)
(* beginning of the string compares equal.                                   *)
Matches(r, s) ==
  /\ TypeField(r) = TypeStart(r)
  /\ r.tlen = 0 \/ (r.type \in DOMAIN MediaLength /\ r.tlen <= Agree(r.type, s))

(* Media types: the first string that compares equal.                        *)
Compared == <<"xvcard", "vcard", "wifi", "bt", "ble", "secure">>

MediaType(r) ==
  LET equal == {i \in DOMAIN Compared : Matches(r, Compared[i])}
      first == Compared[CHOOSE i \in equal : \A j \in equal : i <= j]
  IN  IF equal = {} THEN "unsupported"
      ELSE IF first \in {"xvcard", "vcard"} THEN "MEDIA_VCARD" ELSE first

(* DetectNdefRecordType, recordType.  For a well-known type of a length that *)
(* is neither 1 nor 2 it is never assigned: any value.                       *)
Detected(r) ==
  CASE r.tnf = "well_known" /\ r.tlen \in {1, 2} ->
         {IF TypeField(r) = TypeStart(r) /\ r.type \in DOMAIN WellKnown THEN r.type ELSE "unsupported"}
    [] r.tnf = "well_known" /\ r.tlen \notin {1, 2} -> Types
    [] r.tnf = "media" -> {MediaType(r)}
    [] r.tnf = "absolute" -> {"ABSOLUTE_URI"}
    [] OTHER -> {"unsupported"}

(* Mutant of NextRecord: the length of the ID is left out.                   *)
NextRecord_NoId(r) == at + (IF r.sr THEN 3 ELSE 6) + (IF r.il THEN 1 ELSE 0) + r.tlen + r.plen

(* GetNextRecord, for a record without the ME flag.                          *)
NextRecord(r) ==
  at + (IF r.sr THEN 3 ELSE 6) + (IF r.il THEN 1 + r.idlen ELSE 0) + r.tlen + r.plen

-----------------------------------------------------------------------------
(* NdefPull_Cb *)

NoMessage == [records |-> <<>>, open |-> FALSE]

Init ==
  /\ pc = "idle"
  /\ message = NoMessage
  /\ at = 0 /\ index = 0
  /\ shown = <<>> /\ far = 0

(* RW_NDEF hands over a message.                                             *)
Call(m) ==
  /\ pc = "idle"
  /\ pc' = "record"
  /\ message' = m
  /\ at' = 0
  /\ UNCHANGED <<index, shown, far>>

Here == {i \in DOMAIN message.records : Start(message.records, i) = at}

(* The record that pNdefRecord points to; none beyond the message.           *)
Cur == message.records[CHOOSE i \in Here : TRUE]

Touch(p) == far' = IF p > far THEN p ELSE far

(* Where printing begins in the payload: a text behind the language that its *)
(* first byte gives the length of (in an empty text, that byte is the 0      *)
(* written to cut it off; the flag of UTF-16 counts as 128), a URI behind    *)
(* its code.                                                                 *)
PrintedFrom(type, r) ==
  CASE type = "T" -> 1 + (IF r.plen = 0 THEN 0 ELSE r.status)
    [] type = "U" -> 1
    [] OTHER      -> 0

(* Mutant of LastTouched: the record is cut off where it ends.               *)
LastTouched_Beyond(type, r) == RecordPayload(r) + r.plen + 1

(* Texts, URIs and vCards are cut off with a 0 behind the payload, which is  *)
(* put back; what begins behind that 0 is printed up to the next one,        *)
(* wherever it is: at least one byte.  Of the others, at most the payload is *)
(* looked at.                                                                *)
LastTouched(type, r) ==
  RecordPayload(r) +
    (IF type \in {"MEDIA_VCARD", "T", "U"}
     THEN IF PrintedFrom(type, r) > r.plen THEN PrintedFrom(type, r) ELSE r.plen
     ELSE IF type \in {"bt", "ble", "secure"} /\ r.plen > 0 THEN r.plen - 1 ELSE 0)

(* The body of the loop up to GetNextRecord; for a Wi-Fi token, up to its    *)
(* loop, which begins behind a wrapper.                                      *)
ShowRecord ==
  /\ pc = "record"
  /\ Here # {}
  /\ \E type \in Detected(Cur) :
       /\ shown' = Append(shown, [type |-> type, payload |-> RecordPayload(Cur), size |-> Cur.plen])
       /\ Touch(LastTouched(type, Cur))
       /\ pc' = IF type = "wifi" THEN "wifi" ELSE "next"
       /\ index' = IF type = "wifi" /\ Cur.fields # <<>> /\ Cur.fields[1].tag = "wrapper" THEN 4 ELSE 0
  /\ UNCHANGED <<message, at>>

(* The field at the index, if one begins there.                              *)
FieldsHere == {k \in DOMAIN Cur.fields : FieldStart(Cur.fields, k) = index}
Field      == Cur.fields[CHOOSE k \in FieldsHere : TRUE]

(* Mutant of Advance: the header of a field is not counted.                  *)
Advance_NoHeader(f) == (index + (f.len % 256)) % 256

(* index += 4 + recordPayload[index + 3]: one byte of length, one of index.  *)
Advance(f) == (index + 4 + (f.len % 256)) % 256

(* One field of a token, printed from its value.                             *)
WifiField ==
  /\ pc = "wifi"
  /\ index < Cur.plen
  /\ FieldsHere # {} /\ Field.tag # "junk"
  /\ index' = Advance(Field)
  /\ Touch(RecordPayload(Cur) + index + 3 +
             (CASE Field.tag = "ssid" -> (Field.len % 256)
                [] Field.tag \in {"auth", "enc"} -> 2
                [] OTHER -> 0))
  /\ UNCHANGED <<pc, message, at, shown>>

(* "else continue": the index stays, and so does the callback.               *)
WifiJunk ==
  /\ pc = "wifi"
  /\ index < Cur.plen
  /\ FieldsHere # {} /\ Field.tag = "junk"
  /\ UNCHANGED vars

(* The index has come to lie inside a field: what follows depends on data.   *)
WifiAstray ==
  /\ pc = "wifi"
  /\ index < Cur.plen
  /\ FieldsHere = {}
  /\ pc' = "lost"
  /\ UNCHANGED <<message, at, index, shown, far>>

WifiEnd ==
  /\ pc = "wifi"
  /\ index >= Cur.plen
  /\ pc' = "next"
  /\ UNCHANGED <<message, at, index, shown, far>>

(* The ME flag of the record at hand.                                        *)
MessageEnd == at = Start(message.records, Len(message.records)) /\ ~message.open

(* pNdefRecord = GetNextRecord(pNdefRecord), and the test of the loop.       *)
Step ==
  /\ pc = "next"
  /\ \/ MessageEnd /\ pc' = "done" /\ UNCHANGED at
     \/ ~MessageEnd /\ pc' = "record" /\ at' = NextRecord(Cur)
  /\ UNCHANGED <<message, index, shown, far>>

(* A record is looked for where none begins.                                 *)
Stray ==
  /\ pc = "record"
  /\ Here = {}
  /\ pc' = "lost"
  /\ UNCHANGED <<message, at, index, shown, far>>

(* The callback returns, or the board is reset.                              *)
Return ==
  /\ pc \in {"done", "lost"}
  /\ pc' = "idle"
  /\ message' = NoMessage
  /\ at' = 0 /\ index' = 0
  /\ shown' = <<>> /\ far' = 0

Callback ==
  ShowRecord \/ WifiField \/ WifiJunk \/ WifiAstray \/ WifiEnd \/ Step \/ Stray \/ Return

Next == (\E m \in Messages : Call(m)) \/ Callback

Spec == Init /\ [][Next]_vars

(* Nothing in the callback waits.                                            *)
FairSpec == Spec /\ WF_vars(Callback)

-----------------------------------------------------------------------------
(* Properties *)

TypeOK ==
  /\ pc \in {"idle", "record", "wifi", "next", "done", "lost"}
  /\ message \in Messages \cup {NoMessage}
  /\ at \in Nat
  /\ index \in 0 .. 255
  /\ far \in Nat
  /\ \A i \in DOMAIN shown : shown[i].type \in Types

(* A token that the walk over its fields can cope with: fields only, which   *)
(* fill a payload that the index of one byte can span.                       *)
SoundToken(r) ==
  /\ r.plen <= 255 /\ r.plen = FieldStart(r.fields, Len(r.fields) + 1)
  /\ \A k \in DOMAIN r.fields :
       r.fields[k].tag \notin {"junk"} \cup (IF k = 1 THEN {} ELSE {"wrapper"})
  /\ r.fields # <<>> => r.fields[Len(r.fields)].tag # "wrapper"
  /\ \A k \in DOMAIN r.fields : r.fields[k].tag \in {"auth", "enc"} => r.fields[k].len >= 2

(* A record whose type cannot be mistaken: no well-known type of a length    *)
(* that leaves recordType unassigned, no media type that is the beginning of *)
(* a known one.                                                              *)
PlainType(r) ==
  /\ r.tnf = "well_known" => r.tlen \in {1, 2}
  /\ r.tnf = "media" => (r.type = "none" /\ r.tlen > 0) \/ TypeOf(r) # "unsupported"

(* A message that ends with an ME flag, of such records.                     *)
Proper(m) ==
  /\ ~m.open
  /\ \A i \in DOMAIN m.records :
       /\ PlainType(m.records[i])
       /\ TypeOf(m.records[i]) = "wifi" => SoundToken(m.records[i])

(* The walk is the message: the records printed are those of the message,    *)
(* in order, each where its payload lies and of the size it has; at the end  *)
(* all of them.  No record is looked for where none begins.                  *)
WalkIsMessage ==
  ~message.open =>
    /\ Len(shown) <= Len(message.records)
    /\ \A i \in DOMAIN shown :
         /\ shown[i].payload = PayloadStart(message.records, i)
         /\ shown[i].size = message.records[i].plen
    /\ pc = "done" => Len(shown) = Len(message.records)
    /\ pc = "record" => Here # {}

(* A record is printed as what it is.                                        *)
TypesRight ==
  \A i \in DOMAIN shown :
    Proper(message) => shown[i].type = TypeOf(message.records[i])

(* What is printed is the message, and each record as what it is.            *)
PrintedRight == TypeOK /\ WalkIsMessage /\ TypesRight

(* A message whose texts have the language that their first byte announces,  *)
(* and whose URIs have their code: the others are printed from behind their  *)
(* payload on, whatever is there.                                            *)
Complete(m) ==
  \A i \in DOMAIN m.records :
    /\ TypeOf(m.records[i]) = "T" => m.records[i].status < m.records[i].plen
    /\ TypeOf(m.records[i]) = "U" => m.records[i].plen > 0

(* The walk over a complete message touches no byte beyond it but the one    *)
(* that a text in the last record is cut off with: it stays inside           *)
(* NdefBuffer, unless the message fills the buffer.                          *)
StaysInside ==
  Proper(message) /\ Complete(message) =>
    far <= Size(message) /\ (Size(message) < BufferSize => far < BufferSize)

(* The callback returns.                                                     *)
WalkEnds == (pc = "record" /\ Proper(message)) ~> pc = "done"
=============================================================================
