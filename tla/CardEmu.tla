------------------------------- MODULE CardEmu -------------------------------
(***************************************************************************)
(* Card emulation: the Type 4 tag that T4T_NDEF_emu.c plays and the loop    *)
(* that feeds it, NxpNci_ProcessCardMode (NxpNci20.c), against a reader     *)
(* that sends any command and leaves at any time.  An application built     *)
(* with CARDEMU_SUPPORT calls the loop after each activation in listen      *)
(* mode; this one does not, although both files are part of its build.      *)
(*                                                                          *)
(* The NDEF file is a length in two bytes and the message; a command to     *)
(* read or write it has an offset into the file.  As in NciLink, a packet   *)
(* sent, the controller's replies and the first packet received after it    *)
(* are one step.                                                            *)
(***************************************************************************)
EXTENDS Naturals, Integers, Sequences

CONSTANTS
  Message,        \* what the application has set with T4T_NDEF_EMU_SetMessage
  Reads,          \* the reads of the reader, [off, len]
  Writes,         \* its writes, [off, data]
  Leftover,       \* bytes that a write of one byte may find behind it
  MaxFile,        \* bound on the file of the reader's writes
  MaxActivations  \* bound on the activations

Byte    == 0 .. 255
Foreign == 256          \* a byte of memory that is not the message's

ASSUME CardAssumption ==
  /\ Message \in Seq(Byte) /\ Len(Message) + 2 <= MaxFile
  /\ MaxFile \in 2 .. 256 /\ MaxActivations \in Nat
  /\ Reads \subseteq [off : Nat, len : 1 .. 255]
  /\ Leftover \subseteq Byte /\ Leftover # {}
  /\ \A w \in Writes : w.off \in Nat /\ w.data \in Seq(Byte) /\ w.data # <<>> /\ w.off + Len(w.data) <= MaxFile

VARIABLES
  state,     \* eT4T_NDEF_EMU_State
  written,   \* T4T_NdefMessageWritten, as far as the file goes
  own,       \* pT4T_NdefMessage is the application's message, not written
  size,      \* T4T_NdefMessage_size
  pc,        \* where the task is
  first,     \* FirstCmd
  answer,    \* the packet in Answer
  reply,     \* the data of the response to be sent
  st, out,   \* controller: its state, packets waiting to be read
  asking,    \* the reader waits for a response
  epoch,     \* number of the activation
  file,      \* history: the file as the reader's writes leave it
  settled,   \* history: the last write was the one of the length
  since,     \* history: offsets of the file written since the message was set
  jumped,    \* history: since its selection, the file has been read with gaps
  upto,      \* history: ... or without them, up to here (not kept once jumped)
  pushed,    \* history: ... and the push callback has been called (likewise)
  selected,  \* history: the activation that selected the file last
  alien,     \* history: an activation used the file without having selected it
  missed     \* history: a deactivation was taken for the answer to a response

emuVars  == <<state, written, own, size>>
hostVars == <<pc, first, answer, reply>>
ctlVars  == <<st, out, asking, epoch>>
fileVars == <<file, settled, since>>
readVars == <<upto, jumped, pushed>>
vars == <<emuVars, hostVars, ctlVars, fileVars, readVars, selected, alien, missed>>

NoCmd == [ins |-> "none"]

Commands ==
  {[ins |-> i] : i \in {"app", "cc", "ndef", "other"}}
    \cup {[ins |-> "read", off |-> r.off, len |-> r.len] : r \in Reads}
    \cup {[ins |-> "write", off |-> w.off, data |-> w.data] : w \in Writes}

Packet(kind)   == [kind |-> kind, cmd |-> NoCmd, epoch |-> 0]
Data(c)        == [kind |-> "data", cmd |-> c, epoch |-> epoch]

-----------------------------------------------------------------------------
(* T4T_NDEF_emu.c *)

(* A byte of the message, through pT4T_NdefMessage.                          *)
Stored(i) ==
  IF own THEN IF i < Len(Message) THEN Message[i + 1] ELSE Foreign
  ELSE IF i < MaxFile - 2 THEN written[i] ELSE Foreign

(* Mutant of FillRsp: a read from offset 1 is answered from the message.     *)
FillRsp_FromOne(off, len) ==
  [k \in 1 .. len |-> CASE off = 0 /\ k = 1 -> size \div 256
                        [] off = 0 /\ k = 2 -> size % 256
                        [] OTHER -> Stored(IF off = 1 THEN k - 1 ELSE off + k - 3)]

(* The three cases of T4T_NDEF_EMU_FillRsp.                                  *)
FillRsp(off, len) ==
  [k \in 1 .. len |-> CASE off + k = 1 -> size \div 256
                        [] off + k = 2 -> size % 256
                        [] OTHER -> Stored(off + k - 3)]

(* Mutant of ReachedEnd: the two bytes of the length are not counted.        *)
ReachedEnd_NoLength(off, len) == off + len >= size

ReachedEnd(off, len) == off + len >= size + 2

(* Which commands are served; sizeof(T4T_NDEF_EMU_CC) is 15.                 *)
Served(c) ==
  CASE c.ins \in {"app", "ndef"} -> TRUE
    [] c.ins = "cc" -> state = "NDEF_Application_Selected"
    [] c.ins = "read" -> \/ state = "CC_Selected" /\ c.len <= 15 + c.off + 2
                         \/ state = "NDEF_Selected" /\ c.len <= size + c.off + 2
    [] c.ins = "write" -> state = "NDEF_Selected" /\ c.off + Len(c.data) <= 256
    [] OTHER -> FALSE

(* The commands that reach the file.                                         *)
UsesFile(c) == c.ins \in {"read", "write"} /\ state = "NDEF_Selected" /\ Served(c)

(* A refusal resets the state machine.                                       *)
NextState(c) ==
  IF ~Served(c) THEN "Ready"
  ELSE CASE c.ins = "app" -> "NDEF_Application_Selected"
         [] c.ins = "cc" -> "CC_Selected"
         [] c.ins = "ndef" -> "NDEF_Selected"
         [] OTHER -> state

(* Cells of an array or file after a write.                                  *)
Patch(cells, at, data) ==
  [i \in DOMAIN cells |-> IF i - at \in 0 .. Len(data) - 1 THEN data[i - at + 1] ELSE cells[i]]

(* Offsets 0 and 1 lie before the array.  Every write takes its first two    *)
(* bytes for the length; of a single byte, the second is whatever follows it *)
(* in the buffer.                                                            *)
WriteFile(c) ==
  /\ written' = Patch(written, c.off - 2, c.data)
  /\ own' = FALSE
  /\ \E low \in (IF Len(c.data) > 1 THEN {c.data[2]} ELSE Leftover) : size' = 256 * c.data[1] + low

(* The ideal file, and how much of the real one the reader knows.            *)
NoteWrite(c) ==
  /\ file' = Patch(file, c.off, c.data)
  /\ settled' = (c.off = 0 /\ Len(c.data) >= 2)
  /\ since' = since \cup {i \in DOMAIN file : i - c.off \in 0 .. Len(c.data) - 1}
  /\ upto' = 0 /\ jumped' = FALSE /\ pushed' = FALSE

NoteRead(c) ==
  /\ jumped' = (jumped \/ c.off > upto)
  /\ upto' = IF ~jumped' /\ c.off + c.len > upto THEN c.off + c.len ELSE upto
  /\ pushed' = (~jumped' /\ (pushed \/ ReachedEnd(c.off, c.len)))
  /\ UNCHANGED fileVars

NoteSelect == upto' = 0 /\ jumped' = FALSE /\ pushed' = FALSE /\ UNCHANGED fileVars

(* T4T_NDEF_EMU_Next.                                                        *)
EmuNext(c, e) ==
  /\ state' = NextState(c)
  /\ reply' = IF UsesFile(c) /\ c.ins = "read" THEN FillRsp(c.off, c.len) ELSE <<>>
  /\ IF UsesFile(c) /\ c.ins = "write" THEN WriteFile(c) ELSE UNCHANGED <<written, own, size>>
  /\ \/ UsesFile(c) /\ c.ins = "write" /\ NoteWrite(c)
     \/ UsesFile(c) /\ c.ins = "read" /\ NoteRead(c)
     \/ c.ins = "ndef" /\ NoteSelect
     \/ ~UsesFile(c) /\ c.ins # "ndef" /\ UNCHANGED <<fileVars, readVars>>
  /\ selected' = IF c.ins = "ndef" THEN e ELSE selected
  /\ alien' = (alien \/ (UsesFile(c) /\ selected # e))

-----------------------------------------------------------------------------
(* The controller and the reader *)

Init ==
  /\ state = "Ready"
  /\ written = [i \in 0 .. MaxFile - 3 |-> 0] /\ own = TRUE /\ size = Len(Message)
  /\ pc = "wait" /\ first = TRUE /\ answer = Packet("credits") /\ reply = <<>>
  /\ st = "discovering" /\ out = <<>> /\ asking = FALSE /\ epoch = 0
  /\ file = [i \in 0 .. MaxFile - 1 |->
               IF i = 1 THEN Len(Message)
               ELSE IF i \in 2 .. Len(Message) + 1 THEN Message[i - 1] ELSE 0]
  /\ settled = TRUE /\ since = {}
  /\ upto = 0 /\ jumped = FALSE /\ pushed = FALSE
  /\ selected = 0 /\ alien = FALSE /\ missed = FALSE

envVars == <<emuVars, hostVars, fileVars, readVars, selected, alien, missed>>

ReaderArrives ==
  /\ st = "discovering" /\ epoch < MaxActivations
  /\ st' = "active" /\ epoch' = epoch + 1
  /\ out' = Append(out, Packet("activated"))
  /\ UNCHANGED <<asking, envVars>>

ReaderAsks(c) ==
  /\ st = "active" /\ ~asking
  /\ asking' = TRUE
  /\ out' = Append(out, Data(c))
  /\ UNCHANGED <<st, epoch, envVars>>

(* The controller looks for the next one by itself.                          *)
ReaderLeaves ==
  /\ st = "active"
  /\ st' = "discovering" /\ asking' = FALSE
  /\ out' = Append(out, Packet("deactivated"))
  /\ UNCHANGED <<epoch, envVars>>

(* Response and notifications to a command, and the state after it.          *)
OnStop ==
  [st |-> "idle", asking |-> FALSE,
   out |-> IF st = "active" THEN <<Packet("stopped"), Packet("deactivated")>> ELSE <<Packet("stopped")>>]

OnStart ==
  [st |-> IF st = "idle" THEN "discovering" ELSE st, asking |-> asking, out |-> <<Packet("started")>>]

OnData ==
  [st |-> st, asking |-> FALSE,
   out |-> IF st = "active" THEN <<Packet("credits")>> ELSE <<Packet("error")>>]

-----------------------------------------------------------------------------
(* NxpNci_ProcessCardMode *)

At(from, to) == pc = from /\ pc' = to

Take(queue) == queue # <<>> /\ answer' = Head(queue) /\ out' = Tail(queue)

Transceive(r) == Take(out \o r.out) /\ st' = r.st /\ asking' = r.asking /\ UNCHANGED epoch

(* Mutant of Activated: the emulation is not reset.                          *)
Activated_NoReset ==
  /\ pc = "wait"
  /\ Take(out)
  /\ IF answer'.kind = "activated"
     THEN pc' = "card" /\ first' = TRUE
     ELSE UNCHANGED <<pc, first>>
  /\ UNCHANGED <<emuVars, reply, st, asking, epoch, fileVars, readVars, selected, alien, missed>>

(* NxpNci_WaitForDiscoveryNotification passes over all but an activation.    *)
Activated ==
  /\ pc = "wait"
  /\ Take(out)
  /\ IF answer'.kind = "activated"
     THEN pc' = "card" /\ first' = TRUE /\ state' = "Ready"
     ELSE UNCHANGED <<pc, first, state>>
  /\ UNCHANGED <<written, own, size, reply, st, asking, epoch, fileVars, readVars, selected, alien, missed>>

(* Three seconds without a packet: the task calls it again.                  *)
WaitSilent == pc = "wait" /\ out = <<>> /\ UNCHANGED vars

keptVars == <<emuVars, fileVars, readVars, selected, alien>>

(* A reader that has left without a command: discovery is restarted.         *)
CardDeactivated ==
  /\ pc = "card"
  /\ Take(out)
  /\ answer'.kind = "deactivated"
  /\ pc' = IF first THEN "stop" ELSE "wait"
  /\ UNCHANGED <<first, reply, st, asking, epoch, keptVars, missed>>

CardData ==
  /\ At("card", "reply")
  /\ Take(out)
  /\ answer'.kind = "data"
  /\ EmuNext(answer'.cmd, answer'.epoch)
  /\ UNCHANGED <<first, st, asking, epoch, missed>>

CardOther ==
  /\ At("card", "card")
  /\ Take(out)
  /\ answer'.kind \notin {"deactivated", "data"}
  /\ first' = FALSE
  /\ UNCHANGED <<reply, st, asking, epoch, keptVars, missed>>

(* Two seconds without a packet.                                             *)
CardSilent ==
  /\ At("card", "wait")
  /\ out = <<>>
  /\ UNCHANGED <<first, answer, reply, ctlVars, keptVars, missed>>

(* The packet taken with the response is the credit, unless a deactivation   *)
(* has come before it.                                                       *)
SendReply ==
  /\ At("reply", "card")
  /\ Transceive(OnData)
  /\ first' = FALSE
  /\ reply' = <<>>
  /\ missed' = (missed \/ answer'.kind = "deactivated")
  /\ UNCHANGED keptVars

Stop ==
  /\ At("stop", "drain")
  /\ Transceive(OnStop)
  /\ UNCHANGED <<first, reply, keptVars, missed>>

(* Up to the answer to the stop command, or 100 ms of silence.               *)
Drain ==
  /\ pc = "drain"
  /\ \/ answer.kind = "stopped" /\ pc' = "restart" /\ UNCHANGED <<answer, out>>
     \/ answer.kind # "stopped" /\ pc' = "drain" /\ Take(out)
     \/ answer.kind # "stopped" /\ out = <<>> /\ pc' = "restart" /\ UNCHANGED <<answer, out>>
  /\ UNCHANGED <<first, reply, st, asking, epoch, keptVars, missed>>

(* Mutant of Restart: discovery stays off.                                   *)
Restart_Skipped ==
  /\ At("restart", "wait")
  /\ UNCHANGED <<first, answer, reply, ctlVars, keptVars, missed>>

Restart ==
  /\ At("restart", "wait")
  /\ Transceive(OnStart)
  /\ UNCHANGED <<first, reply, keptVars, missed>>

-----------------------------------------------------------------------------
Reader == ReaderArrives \/ ReaderLeaves \/ \E c \in Commands : ReaderAsks(c)

Host ==
  \/ Activated \/ WaitSilent \/ CardDeactivated \/ CardData \/ CardOther \/ CardSilent
  \/ SendReply \/ Stop \/ Drain \/ Restart

Next == Reader \/ Host

Spec == Init /\ [][Next]_vars

(* The worker runs; nothing is assumed of the reader.                        *)
FairSpec == Spec /\ WF_vars(Host)

-----------------------------------------------------------------------------
(* Properties *)

TypeOK ==
  /\ state \in {"Ready", "NDEF_Application_Selected", "CC_Selected", "NDEF_Selected"}
  /\ written \in [0 .. MaxFile - 3 -> Byte] /\ own \in BOOLEAN /\ size \in Nat /\ size < 65536
  /\ own => size = Len(Message)
  /\ pc \in {"wait", "card", "reply", "stop", "drain", "restart"} /\ first \in BOOLEAN
  /\ reply \in Seq(Byte \cup {Foreign})
  /\ st \in {"idle", "discovering", "active"} /\ asking \in BOOLEAN
  /\ epoch \in 0 .. MaxActivations /\ selected \in 0 .. epoch
  /\ file \in [0 .. MaxFile - 1 -> Byte] /\ since \subseteq DOMAIN file

(* The length that the file has, and whether all of the message behind it is *)
(* defined: the application's own, or written since.                         *)
FileSize == 256 * file[0] + file[1]
Complete == settled /\ FileSize + 2 <= MaxFile /\ (since = {} \/ 2 .. FileSize + 1 \subseteq since)

(* What a reader gets is the file: once a writer has stored a message and,   *)
(* last of all, its length, each read inside the file gives the bytes last   *)
(* written there, whatever was read or written before.                       *)
EmulatesFile ==
  /\ TypeOK
  /\ pc = "reply" /\ reply # <<>> /\ Complete =>
    LET c == answer.cmd
    IN  c.off + c.len <= FileSize + 2 => \A k \in 1 .. c.len : reply[k] = file[c.off + k - 1]

(* "Notify application of the NDEF send": for a reader that reads from the   *)
(* beginning, the application is told when the whole message has been read,  *)
(* and not before.                                                           *)
PushTells == ~jumped => (pushed <=> upto >= size + 2)

(* A reader gets at the file only after it has selected it in the same       *)
(* activation, unless a deactivation was lost.                               *)
SelectedFirst == alien => missed

(* The controller does not stay idle: the next reader is discovered.         *)
ListensAgain == st = "idle" ~> st # "idle"
=============================================================================
