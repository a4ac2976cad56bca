------------------------------ MODULE RwNdefT4T ------------------------------
(***************************************************************************)
(* The engine for T4T (RW_NDEF_T4T.c): the NDEF application and its files   *)
(* are selected, then the file is read or written in pieces.                *)
(***************************************************************************)
EXTENDS RwNdef

SelectApp20(o) ==
  /\ In("T4T", o, "Initial")
  /\ Goto("Selecting_NDEF_Application20")
  /\ Send(Cmd("app20", 0, 0, <<>>))

(* Mutant of App20Answered: the application of version 1.0 is not tried.     *)
App20Answered_NoFallback(o) ==
  /\ In("T4T", o, "Selecting_NDEF_Application20")
  /\ IF rsp.ok THEN Goto("Selecting_CC") /\ Send(Cmd("cc_file", 0, 0, <<>>))
     ELSE Quits

(* Whatever the answer is: if the application of version 2.0 is not there,   *)
(* that of version 1.0 may be.                                               *)
App20Answered(o) ==
  /\ In("T4T", o, "Selecting_NDEF_Application20")
  /\ IF rsp.ok THEN Goto("Selecting_CC") /\ Send(Cmd("cc_file", 0, 0, <<>>))
     ELSE Goto("Selecting_NDEF_Application10") /\ Send(Cmd("app10", 0, 0, <<>>))

App10Selected(o) ==
  /\ In("T4T", o, "Selecting_NDEF_Application10") /\ rsp.ok
  /\ Goto("Selecting_CC")
  /\ Send(Cmd("cc_file", 0, 0, <<>>))

CCSelected(o) ==
  /\ In("T4T", o, "Selecting_CC") /\ rsp.ok
  /\ Goto("Reading_CC")
  /\ Send(Cmd("cc", 0, 15, <<>>))

CCRead(o) ==
  /\ In("T4T", o, "Reading_CC") /\ rsp.ok
  /\ Goto("Selecting_NDEF")
  /\ Send(Cmd("ndef_file", 0, 0, <<>>))

NdefSelected ==
  /\ In("T4T", "read", "Selecting_NDEF") /\ rsp.ok
  /\ Goto("Reading_NDEF_Size")
  /\ Send(Cmd("read", 0, 2, <<>>))

(* READ BINARY of the rest of the message: the offset and the length are one *)
(* byte of the command each.                                                 *)
ReadBinary(size, ptr) ==
  Cmd("read", (ptr + 2) % 256,
      IF size - ptr > MLe - 1 THEN (MLe - 1) % 256 ELSE (size - ptr) % 256, <<>>)

(* The first two bytes: an answer without data has its status there, 90 00.  *)
FirstWord(data) == IF data = <<>> THEN 36864 ELSE 256 * data[1] + data[2]

(* Mutant of SizeRead: the size is not compared with the buffer.             *)
SizeRead_Unchecked ==
  /\ In("T4T", "read", "Reading_NDEF_Size") /\ rsp.ok
  /\ UNCHANGED buffer
  /\ LET n == FirstWord(rsp.data)
     IN /\ ndef' = [ndef EXCEPT !.state = "Reading_NDEF", !.ptr = 0, !.size = n]
        /\ Send(ReadBinary(n, 0))

SizeRead ==
  /\ In("T4T", "read", "Reading_NDEF_Size") /\ rsp.ok
  /\ UNCHANGED buffer
  /\ LET n == FirstWord(rsp.data)
     IN IF n > MaxFile
        THEN Refuse /\ ndef' = [ndef EXCEPT !.size = n]
        ELSE /\ ndef' = [ndef EXCEPT !.state = "Reading_NDEF", !.ptr = 0, !.size = n]
             /\ Send(ReadBinary(n, 0))

(* After a message of size 0, or a piece that came twice, the reads may      *)
(* never meet the size; past the end of the buffer the behaviour is          *)
(* undefined and the model stops.                                            *)
ReadingNdef ==
  /\ In("T4T", "read", "Reading_NDEF") /\ rsp.ok
  /\ ndef' = [ndef EXCEPT !.ptr = @ + Len(rsp.data)]
  /\ IF ndef'.ptr > MaxFile
     THEN pc' = "lost" /\ UNCHANGED <<buffer, heard, cmd, content, whole>>
     ELSE /\ buffer' = Copied(rsp.data)
          /\ IF ndef'.ptr = ndef.size THEN Deliver(SubSeq(buffer', 1, ndef.size))
             ELSE Send(ReadBinary(ndef.size, ndef'.ptr))

SizeOf(n) == <<n \div 256, n % 256>>

(* Mutant of ClearSize: the size is written first.                           *)
ClearSize_SizeFirst ==
  /\ In("T4T", "write", "Selecting_NDEF") /\ rsp.ok
  /\ WriteNext("Writing_NDEF", ndef.blk, 0, Write(0, SizeOf(Size)))

(* The size is cleared, the message written, and then the size.              *)
ClearSize ==
  /\ In("T4T", "write", "Selecting_NDEF") /\ rsp.ok
  /\ WriteNext("Writing_NDEF", ndef.blk, 0, Write(0, SizeOf(0)))

WritingNdef ==
  /\ In("T4T", "write", "Writing_NDEF") /\ rsp.ok
  /\ LET n == Size - ndef.ptr
     IN IF n < WriteSz
        THEN WriteNext("Writing_NDEFsize", ndef.blk, ndef.ptr, Write(ndef.ptr + 2, Chunk(n)))
        ELSE WriteNext("Writing_NDEF", ndef.blk, ndef.ptr + WriteSz,
                       Write(ndef.ptr + 2, Chunk(WriteSz)))

WritingSize ==
  /\ In("T4T", "write", "Writing_NDEFsize") /\ rsp.ok
  /\ WriteNext("Write_NDEFcomplete", ndef.blk, ndef.ptr, Write(0, SizeOf(Size)))

WriteComplete ==
  /\ In("T4T", "write", "Write_NDEFcomplete") /\ rsp.ok
  /\ Written

T4T ==
  \/ \E o \in {"read", "write"} :
       SelectApp20(o) \/ App20Answered(o) \/ App10Selected(o) \/ CCSelected(o) \/ CCRead(o)
  \/ NdefSelected \/ SizeRead \/ ReadingNdef
  \/ ClearSize \/ WritingNdef \/ WritingSize \/ WriteComplete
=============================================================================
