------------------------------- MODULE RwNdef -------------------------------
(***************************************************************************)
(* Reading and writing the NDEF message of a tag: what RW_NDEF.c and the    *)
(* loop of NxpNci_ReadNdef and NxpNci_WriteNdef share, and the tag.  The    *)
(* engines of RwNdefTlv, RwNdefMifare and RwNdefT4T are actions over these  *)
(* variables, and TagIo puts them together.                                 *)
(*                                                                          *)
(* An engine is called with the answer to the command before, and returns   *)
(* the next command or none, which ends the operation.  A packet is         *)
(* abstracted to what, the command it is a good answer to, ok, it passes    *)
(* the tests of size, status and format the engine is about to make, and    *)
(* the data in it.  The loop ignores the results of both of its calls, so   *)
(* the packet may be the one before.  Bytes of a message are numbers that   *)
(* tell which message they belong to and where.                             *)
(***************************************************************************)
EXTENDS Integers, Sequences

CONSTANTS
  Types,    \* the types of tag: "T1T", "T2T", "T3T", "T4T", "T5T", "MIFARE"
  Layouts,  \* what is on the tag at first: <<length of the message, bytes before its TLV>>
  Lengths,  \* lengths of the messages to be written, 1 or more
  Caps,     \* sizes of a tag's data area
  MaxFile,  \* RW_MAX_NDEF_FILE_SIZE
  MLe,      \* T4T: longest answer
  WriteSz,  \* T4T: WRITE_SZ
  MaxOps,   \* bound on the operations on one tag
  MaxFails  \* bound on the exchanges that fail, those that pass nevertheless count twice

(* A TLV has two bytes at least, and the header of the TLV of the message    *)
(* lies in the first block that is read or behind it.  The numbers of the    *)
(* blocks of a message that fits the buffer are bytes, and so is WRITE_SZ.   *)
ASSUME RwAssumption ==
  /\ Types \subseteq {"T1T", "T2T", "T3T", "T4T", "T5T", "MIFARE"}
  /\ Layouts \subseteq Nat \X ({0} \cup 2 .. 12 \cup 16 .. 88)
  /\ Lengths \subseteq Nat \ {0}
  /\ Caps \subseteq Nat /\ MaxFile \in 1 .. 900 /\ MLe \in Nat \ {0, 1}
  /\ WriteSz \in 1 .. 255 /\ MaxOps \in Nat /\ MaxFails \in Nat

VARIABLES
  pc,      \* "idle", "engine" to run, "tag" to answer, or "lost"
  op,      \* "read" or "write"
  ndef,    \* RW_NDEF_*_Ndef with the state of the engine
  buffer,  \* NdefBuffer as far as it has been filled
  message, \* pRW_NdefMessage and RW_NdefMessage_size
  heard,   \* what the application's callback has been told
  cmd,     \* the command on its way to the tag
  rsp,     \* the packet in Answer
  type, v1,\* the type of the tag; T4T: mapping version 1.0
  cap,     \* bytes of its data area (T4T: of its NDEF file without the size)
  mem,     \* the data area, as far as it is not empty
  nlen,    \* T3T, T4T: the size stored apart from the message
  sel,     \* MIFARE: the block announced to be written, or 0
  auth,    \* MIFARE: the sector that is authenticated; T4T: the file selected
  ops,     \* history: operations begun
  content, \* history: the message on the tag
  whole,   \* history: content is what is on the tag
  intact,  \* history: no answer has failed in this operation
  fails,   \* history: exchanges that have failed
  misled   \* history: a packet has passed for an answer that it is not

hostVars == <<op, ndef, buffer, message, heard>>
tagVars  == <<type, v1, cap, mem, nlen, sel, auth>>
vars == <<pc, hostVars, cmd, rsp, tagVars, ops, content, whole, intact, fails, misled>>

Pad  == 0
None == "none"

(* The message number k of length n.                                         *)
Message(k, n) == [i \in 1 .. n |-> 1000 * k + i]

(* What lies from offset at on in memory m.                                  *)
Cells(m, at, n) == [i \in 1 .. n |-> IF at + i \in DOMAIN m THEN m[at + i] ELSE Pad]

Store(m, at, data) ==
  [i \in 1 .. (IF at + Len(data) > Len(m) THEN at + Len(data) ELSE Len(m)) |->
     IF i - at \in DOMAIN data THEN data[i - at]
     ELSE IF i \in DOMAIN m THEN m[i] ELSE Pad]

NdefTlv == 3

(* The TLV of a message m, and the one that may precede it.                  *)
Tlv(m) ==
  (IF Len(m) > 254 THEN <<NdefTlv, 255, Len(m) \div 256, Len(m) % 256>>
                   ELSE <<NdefTlv, Len(m)>>) \o m

Other(n) == IF n = 0 THEN <<>> ELSE <<1, n - 2>> \o [i \in 1 .. n - 2 |-> Pad]

Sized == {"T3T", "T4T"}

Cmd(what, at, n, data) == [what |-> what, at |-> at, n |-> n, data |-> data]

(* A packet that no engine takes for an answer, and the contents of Answer   *)
(* in NxpNci_WriteNdef at first, where it is not initialised.                *)
Useless == [ok |-> FALSE, what |-> None, data |-> <<>>]
Stack   == [Useless EXCEPT !.what = "stack"]

Init ==
  /\ type \in Types
  /\ v1 \in IF type = "T4T" THEN BOOLEAN ELSE {FALSE}
  /\ \E l \in Layouts :
       /\ content = Message(1, l[1])
       /\ mem = IF type \in Sized THEN content ELSE Other(l[2]) \o Tlv(content)
       /\ nlen = IF type \in Sized THEN l[1] ELSE 0
       /\ cap \in Caps /\ Len(mem) < cap
       /\ type \in Sized \cup {"T5T"} => l[2] = 0
       /\ type \in {"T2T", "T5T"} => cap % 8 = 0  \* as its CC says
  /\ whole = TRUE
  /\ pc = "idle" /\ op = "read"
  /\ ndef = [state |-> "Initial", blk |-> 0, ptr |-> 0, size |-> 0]
  /\ buffer = <<>> /\ message = <<>>
  /\ heard = [kind |-> None, data |-> <<>>]
  /\ cmd = Cmd(None, 0, 0, <<>>)
  /\ rsp = Useless
  /\ sel = 0 /\ auth = 0 - 1
  /\ ops = 0 /\ intact = TRUE /\ fails = 0 /\ misled = FALSE

-----------------------------------------------------------------------------
(* The application *)

(* RW_NDEF_SetMessage; the message that remains of one too long is empty and *)
(* has no callback.                                                          *)
SetMessage(m) == message' = IF Len(m) <= MaxFile THEN m ELSE <<>>

(* RW_NDEF_Reset at the start of an operation.                               *)
Reset ==
  /\ pc = "idle" /\ pc' = "engine"
  /\ ops < MaxOps /\ ops' = ops + 1
  /\ ndef' = [ndef EXCEPT !.state = "Initial"]
  /\ heard' = [kind |-> None, data |-> <<>>]
  /\ intact' = TRUE
  /\ sel' = 0 /\ auth' = 0 - 1  \* the tag has been activated anew
  /\ UNCHANGED <<buffer, cmd, type, v1, cap, mem, nlen, content, whole, fails, misled>>

BeginRead ==
  /\ Reset
  /\ op' = "read" /\ rsp' = Useless
  /\ UNCHANGED message

(* T1T and T3T cannot be written.                                            *)
BeginWrite(n) ==
  /\ type \notin {"T1T", "T3T"}
  /\ Reset
  /\ op' = "write" /\ rsp' = Stack
  /\ SetMessage(Message(ops + 2, n))

-----------------------------------------------------------------------------
(* What every step of an engine consists of *)

(* The engine of type t runs in state s of operation o.                      *)
In(t, o, s) ==
  /\ pc = "engine" /\ type = t /\ op = o /\ ndef.state = s
  /\ UNCHANGED <<op, message, rsp, tagVars, ops, intact, fails, misled>>

Send(c) ==
  /\ cmd' = c
  /\ pc' = "tag"
  /\ UNCHANGED <<heard, content, whole>>

Ends(kind, data) ==
  /\ pc' = "idle"
  /\ heard' = [kind |-> kind, data |-> data]
  /\ UNCHANGED cmd

(* The pull callback with a message; with NULL.                              *)
Deliver(data) == Ends("message", data) /\ UNCHANGED <<content, whole>>
Refuse == Ends("refused", <<>>) /\ UNCHANGED <<content, whole>>

(* The push callback.                                                        *)
Pushed ==
  IF message = <<>> THEN Ends(None, <<>>) /\ UNCHANGED <<content, whole>>
  ELSE Ends("pushed", message) /\ content' = message /\ whole' = TRUE

(* Mutant of GivesUp: the command is repeated until it succeeds.             *)
GivesUp_Retries ==
  /\ pc = "engine" /\ pc' = "tag"
  /\ ndef.state # "Initial" /\ ~rsp.ok
  /\ ndef.state # "Selecting_NDEF_Application20"
  /\ UNCHANGED <<hostVars, cmd, rsp, tagVars, ops, content, whole, intact, fails, misled>>

(* An answer that fails the tests: no command, no callback.                  *)
GivesUp ==
  /\ pc = "engine" /\ pc' = "idle"
  /\ ndef.state # "Initial" /\ ~rsp.ok
  /\ ndef.state # "Selecting_NDEF_Application20"
  /\ UNCHANGED <<hostVars, cmd, rsp, tagVars, ops, content, whole, intact, fails, misled>>

Read(blk)  == Cmd("read", blk, 0, <<>>)
Write(blk, data) == Cmd("write", blk, Len(data), data)

(* n bytes of the message to be written; memcpy runs past its end.           *)
Chunk(n) == Cells(message, ndef.ptr, n)

(* memcpy to NdefBuffer at MessagePtr.                                       *)
Copied(data) == SubSeq(buffer, 1, ndef.ptr) \o data

(* The next part of the message has been read; the last one, or not.         *)
LastPart(data) ==
  /\ buffer' = Copied(SubSeq(data, 1, ndef.size - ndef.ptr))
  /\ Deliver(SubSeq(buffer', 1, ndef.size))
  /\ UNCHANGED ndef

Remaining == ndef.size - ndef.ptr

Goto(s) == ndef' = [ndef EXCEPT !.state = s] /\ UNCHANGED buffer

Quits == Ends(None, <<>>) /\ UNCHANGED <<ndef, buffer, content, whole>>

(* Every write engine: the command, and the state after it.                  *)
WriteNext(state, blk, ptr, c) ==
  /\ ndef' = [ndef EXCEPT !.state = state, !.blk = blk, !.ptr = ptr]
  /\ Send(c)
  /\ UNCHANGED buffer

Written == Pushed /\ UNCHANGED <<ndef, buffer>>

Size == Len(message)

-----------------------------------------------------------------------------
(* The tag *)

(* Where block b lies in the data area.                                      *)
Offset(b) ==
  CASE type = "T1T"    -> 92 + 8 * (b - 16)
    [] type = "T2T"    -> 4 * (b - 4)
    [] type = "T3T"    -> 16 * (b - 1)
    [] type = "T5T"    -> 4 * (b - 1)
    [] type = "MIFARE" -> 16 * (3 * (b \div 4 - 1) + (b % 4))

Width == CASE type = "T1T" -> 8 [] type = "T5T" -> 4 [] OTHER -> 16

(* The data of a good answer; NoAnswer if the tag refuses.                   *)
NoAnswer == <<0 - 1>>

(* The CC file of a T4T; the NDEF file.                                      *)
CCFile == <<0, 15>> \o [i \in 1 .. 13 |-> Pad]
NdefFile == <<nlen \div 256, nlen % 256>> \o Cells(mem, 0, cap)

(* What a T4T has selected: nothing (-1), the application, a file.           *)
SelectedBy == [app20 |-> 0, app10 |-> 0, cc_file |-> 1, ndef_file |-> 2]

T4TRead ==
  LET file == IF auth = 1 THEN CCFile ELSE NdefFile
      last == cmd.at + (IF cmd.n = 0 THEN 256 ELSE cmd.n)
  IN IF cmd.at >= Len(file) THEN NoAnswer
     ELSE SubSeq(file, cmd.at + 1, IF last > Len(file) THEN Len(file) ELSE last)

T4TAnswer ==
  CASE cmd.what = (IF v1 THEN "app10" ELSE "app20") -> <<>>
    [] cmd.what \in {"cc_file", "ndef_file"} /\ auth >= 0 -> <<>>
    [] cmd.what = "cc" /\ auth = 1 -> CCFile
    [] cmd.what = "read" /\ auth \in {1, 2} -> T4TRead
    [] cmd.what = "write" /\ auth = 2 /\ cmd.at + cmd.n <= cap + 2 -> <<>>
    [] OTHER -> NoAnswer

(* Beyond the data area, or in a sector that is not authenticated.           *)
Refused == Offset(cmd.at) >= cap \/ (type = "MIFARE" /\ cmd.at \div 4 # auth)

Answer ==
  CASE type = "T4T" -> T4TAnswer
    [] type # "T4T" /\ cmd.what \in {"read", "write", "write_at"} ->
         IF Refused THEN NoAnswer
         ELSE IF cmd.what = "read" THEN Cells(mem, Offset(cmd.at), Width) ELSE <<>>
    [] cmd.what = "write_data" -> IF sel = 0 THEN NoAnswer ELSE <<>>
    [] cmd.what = "rall" -> Cells(mem, 0, 92) \o [i \in 1 .. 16 |-> Pad]
    [] cmd.what = "attribute" -> <<nlen>> \o [i \in 1 .. 15 |-> Pad]
    [] type # "T4T" /\ cmd.what = "cc" -> <<cap>>
    [] OTHER -> <<>>

(* What the command changes in the tag.                                      *)
Executed ==
  /\ auth' = IF cmd.what = "auth" THEN cmd.at
             ELSE IF type = "T4T" /\ cmd.what \in DOMAIN SelectedBy
             THEN SelectedBy[cmd.what] ELSE auth
  /\ sel' = IF cmd.what = "write_at" THEN cmd.at ELSE 0
  /\ whole' = IF cmd.what \in {"write", "write_data"} THEN FALSE ELSE whole
  /\ IF cmd.what = "write" /\ type = "T4T" /\ cmd.at = 0
     THEN nlen' = 256 * cmd.data[1] + cmd.data[2] /\ UNCHANGED mem
     ELSE /\ UNCHANGED nlen
          /\ mem' = CASE cmd.what = "write" /\ type = "T4T" -> Store(mem, cmd.at - 2, cmd.data)
                      [] cmd.what = "write" /\ type # "T4T" -> Store(mem, Offset(cmd.at), cmd.data)
                      [] cmd.what = "write_data" -> Store(mem, Offset(sel), cmd.data)
                      [] OTHER -> mem

TagAnswers ==
  /\ pc = "tag" /\ pc' = "engine"
  /\ IF Answer # NoAnswer
     THEN rsp' = [ok |-> TRUE, what |-> cmd.what, data |-> Answer] /\ Executed
     ELSE rsp' = Useless /\ UNCHANGED <<mem, nlen, sel, auth, whole>>
  /\ UNCHANGED <<hostVars, cmd, type, v1, cap, ops, content, intact, fails, misled>>

(* A packet that is no answer to the command passes the tests nevertheless.  *)
(* A T4T is tested for the status 90 00 alone, but for the CC; a T3T's       *)
(* attributes have the form of a block.  A MIFARE authentication and a write *)
(* to a T5T are tested for two bytes, the last of which is 0, which the      *)
(* notification of an interface error has as well (60 08 02 B2 00); the      *)
(* answer before a block is announced for its last byte alone; and the       *)
(* refusal of a write (NAK) looks like its acknowledgement.  (The CC of a    *)
(* T2T or T5T in place of the first data passes, too, but has no NDEF TLV    *)
(* and ends the operation as a failure does.)                                *)
Passes(w) ==
  \/ w = cmd.what
  \/ type = "T4T" /\ ndef.state # "Reading_CC" /\ w \notin {None, "error", "nak"}
  \/ type = "T3T" /\ ndef.state = "Reading_CardContent" /\ w = "attribute"
  \/ type = "T5T" /\ ndef.state = "Writing_Data" /\ w = "error"
  \/ type = "T2T" /\ ndef.state = "Writing_Data" /\ w = "nak"
  \/ /\ type = "MIFARE"
     /\ \/ ndef.state \in {"Authenticated0", "Authenticated"} /\ w = "error"
        \/ ndef.state = "Writing_Data1" /\ w # None
        \/ ndef.state = "Writing_Data2" /\ w \in {"write_data", "nak"}

(* Which packet it is that fails makes no difference: either the operation   *)
(* ends, or a T4T is asked for its other application.                        *)
Packet(w, data) ==
  IF Passes(w) THEN [ok |-> TRUE, what |-> w, data |-> data] ELSE Useless

(* The answer to the first command of an operation that is not initialised   *)
(* may be what another operation has left there.                             *)
Opening == CASE type = "T4T" -> "app20" [] type = "MIFARE" -> "auth" [] OTHER -> "cc"

(* What Answer holds when the command is not taken, or the answer does not   *)
(* come in time: what it held before.                                        *)
Before ==
  IF rsp.what = "stack" THEN {Useless} \cup {Packet(Opening, <<c>>) : c \in Caps}
  ELSE {Packet(rsp.what, rsp.data)}

(* Other packets that come instead: a notification of credits, or of an      *)
(* interface error; a refusal.                                               *)
Instead ==
  {Packet(w, <<>>) : w \in {None, "error"} \cup (IF Answer = NoAnswer THEN {"nak"} ELSE {})}

(* The command is not taken, the tag is taken away, or the answer is lost:   *)
(* the command may have been executed.                                       *)
TagFails ==
  /\ pc = "tag" /\ pc' = "engine"
  /\ rsp' \in Before \cup Instead
  /\ misled' = (misled \/ rsp'.ok)
  /\ fails' = fails + (IF rsp'.ok THEN 2 ELSE 1) /\ fails' <= MaxFails
  /\ intact' = FALSE
  /\ (Answer # NoAnswer /\ Executed) \/ UNCHANGED <<mem, nlen, sel, auth, whole>>
  /\ UNCHANGED <<hostVars, cmd, type, v1, cap, ops, content>>
=============================================================================
