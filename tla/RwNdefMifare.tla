----------------------------- MODULE RwNdefMifare -----------------------------
(***************************************************************************)
(* The engine for MIFARE Classic (RW_NDEF_MIFARE.c).  A sector has four     *)
(* blocks, the last of which holds its keys; blocks can be used only while  *)
(* their sector is authenticated.                                          *)
(***************************************************************************)
EXTENDS RwNdefTlv

Auth(sector) == Cmd("auth", sector, 0, <<>>)

GpbBlock == 1

Authenticate0(o) ==
  /\ In("MIFARE", o, "Initial")
  /\ Goto("Authenticated0")
  /\ Send(Auth(0))

ReadGpb(o) ==
  /\ In("MIFARE", o, "Authenticated0") /\ rsp.ok
  /\ Goto("Reading_GPB")
  /\ Send(Cmd("gpb", GpbBlock, 0, <<>>))

GpbRead ==
  /\ In("MIFARE", "read", "Reading_GPB") /\ rsp.ok
  /\ ndef' = [ndef EXCEPT !.state = "Authenticated", !.blk = 4]
  /\ Send(Auth(1))
  /\ UNCHANGED buffer

(* A sector has been authenticated: its first block is read.  When the       *)
(* sector is not the first, BlkNb is still that of the trailer before it.    *)
Authenticated ==
  /\ In("MIFARE", "read", "Authenticated") /\ rsp.ok
  /\ ndef' = IF ndef.blk = 4 THEN [ndef EXCEPT !.state = "Reading_FirstBlk"]
             ELSE [ndef EXCEPT !.state = "Reading_Data", !.blk = @ + 1]
  /\ Send(Read(ndef'.blk))
  /\ UNCHANGED buffer

ReadingFirstBlk ==
  /\ In("MIFARE", "read", "Reading_FirstBlk") /\ rsp.ok
  /\ LET p == FindNdefTlv(rsp.data)
     IN IF p = 0 THEN Quits ELSE FirstPart(rsp.data, p, TRUE, 5, "Reading_Data")

Trailer(b) == (b + 1) % 4 = 0

(* Mutant of ReadingData: the trailer is taken for a data block.             *)
ReadingData_NoSector ==
  /\ In("MIFARE", "read", "Reading_Data") /\ rsp.ok
  /\ IF Remaining < 16 THEN LastPart(rsp.data) ELSE NextPart(rsp.data, 1)

ReadingData ==
  /\ In("MIFARE", "read", "Reading_Data") /\ rsp.ok
  /\ IF Remaining < 16 THEN LastPart(rsp.data)
     ELSE IF ~Trailer(ndef.blk + 1) THEN NextPart(rsp.data, 1)
     ELSE /\ buffer' = Copied(rsp.data)
          /\ ndef' = [state |-> "Authenticated", blk |-> ndef.blk + 1,
                      ptr |-> ndef.ptr + Len(rsp.data), size |-> ndef.size]
          /\ Send(Auth((ndef.blk + 2) \div 4))

GpbReadToWrite ==
  /\ In("MIFARE", "write", "Reading_GPB") /\ rsp.ok
  /\ WriteNext("Writing_Data1", 4, 0, Auth(1))

(* The next block is announced, after authentication if it is a trailer.     *)
WritingData1 ==
  /\ In("MIFARE", "write", "Writing_Data1") /\ rsp.ok
  /\ IF Size <= ndef.ptr THEN Written
     ELSE IF Trailer(ndef.blk)
     THEN WriteNext("Writing_Data1", ndef.blk + 1, ndef.ptr, Auth((ndef.blk + 1) \div 4))
     ELSE WriteNext("Writing_Data2", ndef.blk, ndef.ptr, Cmd("write_at", ndef.blk, 0, <<>>))

(* ... and written; the first block holds the TLV.                           *)
FirstBlock ==
  IF Size > 255
  THEN <<0, 0, NdefTlv, 255, Size \div 256, Size % 256>> \o Cells(message, 0, 10)
  ELSE <<0, 0, NdefTlv, Size>> \o Cells(message, 0, 12)

WritingData2 ==
  /\ In("MIFARE", "write", "Writing_Data2") /\ rsp.ok
  /\ IF ndef.blk = 4
     THEN WriteNext("Writing_Data1", 5, IF Size > 255 THEN 10 ELSE 12,
                    Cmd("write_data", 0, 16, FirstBlock))
     ELSE WriteNext("Writing_Data1", ndef.blk + 1, ndef.ptr + 16,
                    Cmd("write_data", 0, 16, Chunk(16)))

Mifare ==
  \/ \E o \in {"read", "write"} : Authenticate0(o) \/ ReadGpb(o)
  \/ GpbRead \/ Authenticated \/ ReadingFirstBlk \/ ReadingData
  \/ GpbReadToWrite \/ WritingData1 \/ WritingData2
=============================================================================
