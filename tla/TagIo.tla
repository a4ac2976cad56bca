-------------------------------- MODULE TagIo --------------------------------
(***************************************************************************)
(* NDEF operations one after the other on a tag of any type: the loop of    *)
(* NxpNci_ReadNdef and NxpNci_WriteNdef, the engine that RW_NDEF_Reset has  *)
(* chosen, and the tag, which may fail at any time and come back for the    *)
(* next operation.                                                          *)
(***************************************************************************)
EXTENDS RwNdefMifare, RwNdefT4T

Begin == BeginRead \/ \E n \in Lengths : BeginWrite(n)

Engine == T1T \/ T2T \/ T3T \/ T4T \/ T5T \/ Mifare \/ GivesUp

Tag == TagAnswers \/ TagFails

Next == Begin \/ Engine \/ Tag

Spec == Init /\ [][Next]_vars

(* Every wait for the tag has a time-out.                                    *)
FairSpec == Spec /\ WF_vars(Engine \/ Tag)

-----------------------------------------------------------------------------
(* Properties *)

States ==
  {"Initial", "Getting_ID", "Reading_CardContent", "Reading_NDEF", "Reading_CC",
   "Reading_Data", "Writing_Data", "Getting_AttributeInfo", "Authenticated0",
   "Reading_GPB", "Authenticated", "Reading_FirstBlk", "Writing_Data1",
   "Writing_Data2", "Selecting_NDEF_Application20", "Selecting_NDEF_Application10",
   "Selecting_CC", "Selecting_NDEF", "Reading_NDEF_Size", "Writing_NDEF",
   "Writing_NDEFsize", "Write_NDEFcomplete"}

Commands ==
  {None, "rid", "rall", "cc", "read", "write", "attribute", "auth", "gpb", "write_at",
   "write_data", "app20", "app10", "cc_file", "ndef_file"}

Packets == Commands \cup {"error", "nak", "stack"}

Bytes == Seq(Nat)

TypeOK ==
  /\ pc \in {"idle", "engine", "tag", "lost"}
  /\ op \in {"read", "write"}
  /\ ndef \in [state : States, blk : Nat, ptr : Nat, size : Nat]
  /\ buffer \in Bytes
  /\ message \in Bytes /\ Len(message) <= MaxFile
  /\ heard.kind \in {None, "message", "refused", "pushed"} /\ heard.data \in Bytes
  /\ cmd.what \in Commands /\ cmd.at \in Nat /\ cmd.n \in 0 .. 255 /\ cmd.data \in Bytes
  /\ rsp.ok \in BOOLEAN /\ rsp.what \in Packets /\ rsp.data \in Seq(Int)
  /\ type \in Types /\ v1 \in BOOLEAN /\ cap \in Caps
  /\ mem \in Bytes /\ nlen \in Nat /\ sel \in Nat /\ auth \in Int
  /\ ops \in 0 .. MaxOps
  /\ content \in Bytes /\ whole \in BOOLEAN
  /\ intact \in BOOLEAN /\ fails \in 0 .. MaxFails /\ misled \in BOOLEAN

(* The lengths an engine can read.  A T1T or T5T has one byte for it, and    *)
(* for an empty message a T1T delivers what is left in the buffer and a T4T  *)
(* gets lost; on a T4T the offset of a read has one byte.  A message of 255  *)
(* bytes is written to a T2T or MIFARE with a length of one byte, which      *)
(* reads as the mark of a longer one.                                        *)
Readable(t, n) ==
  CASE t = "T1T" -> n \in 1 .. 254
    [] t = "T4T" -> n \in 1 .. 254
    [] t = "T5T" -> n \in 0 .. 254
    [] t = "T3T" -> n \in Nat
    [] OTHER     -> n \in Nat \ {255}

(* The bytes handed over are the whole message on the tag, in order,         *)
(* whatever was read or written before, for the lengths an engine can read,  *)
(* as long as no packet has passed for an answer that is none.               *)
ReadableIsExact ==
  heard.kind = "message" /\ whole /\ Readable(type, Len(content)) =>
    misled \/ heard.data = content

(* Where the NDEF TLV begins on the tag, and the offset of what follows it.  *)
Begins == FindNdefTlv(Cells(mem, 0, Width))
Beyond == Begins - 1 + Len(Tlv(content))

(* A read is over of a tag that has not failed, with a message in a place    *)
(* and of a length that the engine can read.                                 *)
ReadDone ==
  /\ pc = "idle" /\ ops > 0 /\ op = "read" /\ intact /\ whole
  /\ Readable(type, Len(content))
  /\ type \in Sized \/ Begins # 0

Reported == heard.kind = IF Len(content) \in 1 .. MaxFile THEN "message" ELSE "refused"

(* Such a read reports the message, or refuses it if it is empty or too      *)
(* long, provided that the message does not end with the data area: from a   *)
(* T1T, T2T or MIFARE tag one block more is asked for, which the tag refuses, *)
(* and the message, complete in NdefBuffer, is not reported.                 *)
ReadableIsReported == ReadDone /\ (type \notin Sized => Beyond < cap) => misled \/ Reported

(* Whenever the write of a T4T is cut off, a reader finds an empty message   *)
(* or the whole of one that was to be stored, never a part or a mixture,     *)
(* unless the acknowledgement of one piece has passed for that of another.   *)
T4TAllOrNothing ==
  type = "T4T" =>
    misled \/ \E k \in 1 .. ops + 1 : Cells(mem, 0, nlen) = Message(k, nlen)

(* Sector trailers and the sector of the directory are never touched, but    *)
(* for the GPB, whatever passes for an answer; blocks are used only in the   *)
(* sector that is authenticated, unless something has passed for the answer. *)
SectorsRespected ==
  pc = "tag" /\ type = "MIFARE" /\ cmd.what \in {"gpb", "read", "write_at"} =>
    /\ misled \/ cmd.at \div 4 = auth
    /\ cmd.at % 4 # 3
    /\ cmd.what # "gpb" => cmd.at >= 4

(* What is written stays in the data area if the TLV of the message does.    *)
WritesStayInside ==
  pc = "tag" /\ cmd.what = "write" /\ type \in {"T2T", "T5T"} /\ Len(Tlv(message)) <= cap =>
    Offset(cmd.at) + Len(cmd.data) <= cap

(* The message fits NdefBuffer, except that a T4T makes the engine read past *)
(* the end if its size is 0, as a write that was cut off leaves it, or if a  *)
(* piece has passed for the next one.                                        *)
BufferHolds ==
  /\ Len(buffer) <= MaxFile
  /\ pc = "lost" => type = "T4T" /\ (nlen = 0 \/ misled)

(* Neither the buffer nor the tag's data area is left.                       *)
InBounds == TypeOK /\ BufferHolds /\ WritesStayInside

(* Every operation ends, whatever the tag answers.                           *)
OperationEnds == pc # "idle" ~> pc \in {"idle", "lost"}
=============================================================================
