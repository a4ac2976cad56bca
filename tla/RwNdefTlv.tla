------------------------------ MODULE RwNdefTlv ------------------------------
(***************************************************************************)
(* The engines for T1T, T2T, T3T and T5T (RW_NDEF_T1T.c, RW_NDEF_T2T.c,     *)
(* RW_NDEF_T3T.c, RW_NDEF_T5T.c), one action per state of their switch      *)
(* statements.                                                             *)
(***************************************************************************)
EXTENDS RwNdef

(* The loop that skips TLVs, started at the first byte of d: the place of    *)
(* the NDEF TLV, or 0 if the loop runs off the answer, where it reads the    *)
(* status byte (0) and beyond.  Its place is a byte in the code, which a TLV *)
(* longer than those of Layouts could make go round.                         *)
FindNdefTlv(d) ==
  LET from[i \in 1 .. Len(d)] ==
        IF d[i] = NdefTlv THEN i
        ELSE LET next == i + 2 + (IF i < Len(d) THEN d[i + 1] ELSE 0)
             IN IF next > Len(d) THEN 0 ELSE from[next]
  IN from[1]

(* The first part of the message, which begins at the TLV in place p of d:   *)
(* end in the first place after the part that holds data, long if lengths    *)
(* of three bytes are understood, next the block and state that follow.      *)
FirstPart(d, p, long, next, state) ==
  LET three == long /\ d[p + 1] = 255
      n     == IF three THEN 256 * d[p + 2] + d[p + 3] ELSE d[p + 1]
      rest  == SubSeq(d, IF three THEN p + 4 ELSE p + 2, Len(d))
  IN IF n > MaxFile \/ (n = 0 /\ type # "T1T")
     THEN /\ Refuse
          /\ ndef' = [ndef EXCEPT !.size = n]
          /\ UNCHANGED buffer
     ELSE IF n <= Len(rest)
     THEN /\ buffer' = SubSeq(rest, 1, n)
          /\ Deliver(buffer')
          /\ ndef' = [ndef EXCEPT !.size = n]
     ELSE /\ buffer' = rest
          /\ ndef' = [state |-> state, blk |-> next, ptr |-> Len(rest), size |-> n]
          /\ Send(Read(next))

(* A further part, and the block after it; mutant: the block is read again.  *)
NextPart_SameBlock(data, step) ==
  /\ buffer' = Copied(data)
  /\ ndef' = [ndef EXCEPT !.ptr = @ + Len(data)]
  /\ Send(Read(ndef'.blk))

NextPart(data, step) ==
  /\ buffer' = Copied(data)
  /\ ndef' = [ndef EXCEPT !.ptr = @ + Len(data), !.blk = @ + step]
  /\ Send(Read(ndef'.blk))

-----------------------------------------------------------------------------
(* T1T *)

T1TInitial ==
  /\ In("T1T", "read", "Initial")
  /\ Goto("Getting_ID")
  /\ Send(Cmd("rid", 0, 0, <<>>))

T1TGettingID ==
  /\ In("T1T", "read", "Getting_ID") /\ rsp.ok
  /\ Goto("Reading_CardContent")
  /\ Send(Cmd("rall", 0, 0, <<>>))

(* RALL returns 16 reserved bytes behind the data.                           *)
T1TReadingCardContent ==
  /\ In("T1T", "read", "Reading_CardContent") /\ rsp.ok
  /\ LET p == FindNdefTlv(rsp.data)
     IN IF p = 0 THEN Quits
        ELSE FirstPart(SubSeq(rsp.data, 1, Len(rsp.data) - 16), p, FALSE, 16, "Reading_NDEF")

T1TReadingNDEF ==
  /\ In("T1T", "read", "Reading_NDEF") /\ rsp.ok
  /\ IF Remaining < 8 THEN LastPart(rsp.data) ELSE NextPart(rsp.data, 1)

-----------------------------------------------------------------------------
(* T2T *)

T2TInitial(o) ==
  /\ In("T2T", o, "Initial")
  /\ Goto("Reading_CC")
  /\ Send(Cmd("cc", 3, 0, <<>>))

T2TReadingCC ==
  /\ In("T2T", "read", "Reading_CC") /\ rsp.ok
  /\ Goto("Reading_Data")
  /\ Send(Read(4))

T2TReadingData ==
  /\ In("T2T", "read", "Reading_Data") /\ rsp.ok
  /\ LET p == FindNdefTlv(rsp.data)
     IN IF p = 0 THEN Quits ELSE FirstPart(rsp.data, p, TRUE, 8, "Reading_NDEF")

T2TReadingNDEF ==
  /\ In("T2T", "read", "Reading_NDEF") /\ rsp.ok
  /\ IF Remaining < 16 THEN LastPart(rsp.data) ELSE NextPart(rsp.data, 4)

(* The size that the CC tells is compared without the two or four bytes in   *)
(* front of the message.                                                     *)
T2TWriteCC ==
  /\ In("T2T", "write", "Reading_CC") /\ rsp.ok
  /\ IF rsp.data[1] < Size THEN Quits
     ELSE IF Size > 255
     THEN WriteNext("Writing_Data", 5, 0,
                    Write(4, <<NdefTlv, 255, Size \div 256, Size % 256>>))
     ELSE WriteNext("Writing_Data", 5, 2,
                    Write(4, <<NdefTlv, Size>> \o Cells(message, 0, 2)))

T2TWritingData ==
  /\ In("T2T", "write", "Writing_Data") /\ rsp.ok
  /\ IF Size <= ndef.ptr THEN Written
     ELSE WriteNext("Writing_Data", ndef.blk + 1, ndef.ptr + 4, Write(ndef.blk, Chunk(4)))

-----------------------------------------------------------------------------
(* T3T *)

T3TInitial ==
  /\ In("T3T", "read", "Initial")
  /\ Goto("Getting_AttributeInfo")
  /\ Send(Cmd("attribute", 0, 0, <<>>))

T3TGettingAttributeInfo ==
  /\ In("T3T", "read", "Getting_AttributeInfo") /\ rsp.ok
  /\ UNCHANGED buffer
  /\ LET n == rsp.data[1]
     IN IF n > MaxFile \/ n = 0
        THEN Refuse /\ ndef' = [ndef EXCEPT !.size = n]
        ELSE /\ ndef' = [state |-> "Reading_CardContent", blk |-> 1, ptr |-> 0, size |-> n]
             /\ Send(Read(1))

T3TReadingCardContent ==
  /\ In("T3T", "read", "Reading_CardContent") /\ rsp.ok
  /\ IF Remaining <= 16 THEN LastPart(rsp.data) ELSE NextPart(rsp.data, 1)

-----------------------------------------------------------------------------
(* T5T *)

T5TInitial(o) ==
  /\ In("T5T", o, "Initial")
  /\ Goto("Reading_CC")
  /\ Send(Cmd("cc", 0, 0, <<>>))

T5TReadingCC ==
  /\ In("T5T", "read", "Reading_CC") /\ rsp.ok
  /\ Goto("Reading_Data")
  /\ Send(Read(1))

T5TReadingData ==
  /\ In("T5T", "read", "Reading_Data") /\ rsp.ok
  /\ IF rsp.data[1] # NdefTlv THEN Quits
     ELSE FirstPart(rsp.data, 1, FALSE, 2, "Reading_NDEF")

T5TReadingNDEF ==
  /\ In("T5T", "read", "Reading_NDEF") /\ rsp.ok
  /\ IF Remaining <= 4 THEN LastPart(rsp.data) ELSE NextPart(rsp.data, 1)

T5TWriteCC ==
  /\ In("T5T", "write", "Reading_CC") /\ rsp.ok
  /\ IF rsp.data[1] < Size \/ 255 < Size THEN Quits
     ELSE WriteNext("Writing_Data", 2, 2,
                    Write(1, <<NdefTlv, Size>> \o Cells(message, 0, 2)))

T5TWritingData ==
  /\ In("T5T", "write", "Writing_Data") /\ rsp.ok
  /\ IF Size <= ndef.ptr THEN Written
     ELSE WriteNext("Writing_Data", ndef.blk + 1, ndef.ptr + 4, Write(ndef.blk, Chunk(4)))

T1T == T1TInitial \/ T1TGettingID \/ T1TReadingCardContent \/ T1TReadingNDEF
T2T ==
  \/ \E o \in {"read", "write"} : T2TInitial(o)
  \/ T2TReadingCC \/ T2TReadingData \/ T2TReadingNDEF \/ T2TWriteCC \/ T2TWritingData
T3T == T3TInitial \/ T3TGettingAttributeInfo \/ T3TReadingCardContent
T5T ==
  \/ \E o \in {"read", "write"} : T5TInitial(o)
  \/ T5TReadingCC \/ T5TReadingData \/ T5TReadingNDEF \/ T5TWriteCC \/ T5TWritingData
=============================================================================
