------------------------------- MODULE NciLink -------------------------------
(***************************************************************************)
(* The reader's use of the NCI library (NxpNci20.c over tml.c) against the  *)
(* controller: discovery, selection of one of several tags, activation of   *)
(* the next one, presence check, stop and restart of discovery.             *)
(*                                                                          *)
(* The controller queues packets and raises its IRQ line; tml_Receive takes *)
(* the oldest one, whichever command the host has just sent.  A time-out    *)
(* leaves the Answer buffer as it was, and the code goes on to test it, so  *)
(* the buffer is a variable and the tests are those of the code.            *)
(*                                                                          *)
(* Sending a command, the controller's reply and the first tml_Receive are  *)
(* one step: the controller always replies, and what it queues on its own   *)
(* between the three it could as well queue before or after them.           *)
(***************************************************************************)
EXTENDS Naturals, Sequences, FiniteSets

CONSTANTS
  Tags,      \* the tags that come and go
  NoTag,
  Protocol,  \* of each tag
  Kind,      \* the seven bytes that its activation begins with, as a value
  Crowds,    \* bound: the sets of tags that may be in the field together
  MaxReads   \* bound on the exchanges of one NDEF read

Protocols == {"t1t", "t2t", "t3t", "t5t", "isodep", "mifare"}

ASSUME LinkAssumption ==
  /\ NoTag \notin Tags
  /\ IsFiniteSet(Tags)
  /\ Protocol \in [Tags -> Protocols]
  /\ \A t, u \in Tags : Kind[t] = Kind[u] => Protocol[t] = Protocol[u]
  /\ Crowds \subseteq SUBSET Tags
  /\ MaxReads \in Nat

VARIABLES
  pc,       \* where the task is, named after the receive or command to come
  answer,   \* the buffer Answer
  fresh,    \* AnswerSize # 0: the last receive brought a packet
  rf,       \* *pRfIntf: [known |-> Interface # INTF_UNDETERMINED, tag, more |-> MoreTags]
  next_tag, \* gNextTag_Protocol, as the tag it was taken from
  saved,    \* saved_NTF, as the tag it was taken from
  reads,    \* exchanges of the current NDEF read
  st,       \* controller: RF state machine of NCI
  found,    \* controller: the tags of the last discovery, by RF discovery ID
  act,      \* controller: the tag that is activated
  out,      \* controller: packets waiting to be read
  field,    \* the tags in the field
  present,  \* history: the tag polled by the presence check was in the field
  reported, \* history: tags handed to the reader since the last discovery
  stayed    \* history: tags that have not left since they were discovered

hostVars == <<pc, answer, fresh, rf, next_tag, saved, reads>>
ctlVars  == <<st, found, act, out>>
histVars == <<present, reported, stayed>>
vars     == <<hostVars, ctlVars, field, histVars>>

(* A packet: Answer[0], Answer[1], Answer[3] (0: done, 1: refused or failed, *)
(* 2: more notifications follow), and the tag that it is about.  Of a data   *)
(* packet b3 tells an answer of the tag, of full length and with status 0,   *)
(* from a packet that holds nothing but the status of a failure.             *)
Packet(b0, b1, b3, t) == [b0 |-> b0, b1 |-> b1, b3 |-> b3, tag |-> t]

Rsp(oid, status) == Packet("41", oid, status, NoTag)
Activated(t)     == Packet("61", 5, 0, t)
Discovered(t, m) == Packet("61", 3, m, t)
Deactivated      == Packet("61", 6, 0, NoTag)
Credits          == Packet("60", 6, 0, NoTag)
GenericError     == Packet("60", 7, 1, NoTag)
InterfaceError   == Packet("60", 8, 1, NoTag)
Data(status)     == Packet("00", 0, status, NoTag)
Chained          == Packet("10", 0, 0, NoTag)
PresenceRsp      == Packet("4F", 17, 0, NoTag)
PresenceNtf(p)   == Packet("6F", 17, p, NoTag)
PollingNtf(s)    == Packet("61", 8, s, NoTag)

Unknown == [known |-> FALSE, tag |-> NoTag, more |-> FALSE]

Init ==
  /\ pc = "start"                 \* NxpNci_Connect has reset the controller
  /\ answer = Rsp(0, 0) /\ fresh = TRUE
  /\ rf = Unknown
  /\ next_tag = NoTag /\ saved = NoTag
  /\ reads = 0
  /\ st = "idle" /\ found = <<>> /\ act = NoTag /\ out = <<>>
  /\ field = {}
  /\ present = FALSE /\ reported = {} /\ stayed = {}

-----------------------------------------------------------------------------
(* The controller *)

(* The replies to a command and the state it leaves: [out, st, act].         *)
Reply(out_, st_, act_) == [out |-> out_, st |-> st_, act |-> act_]

Refused(oid) == Reply(<<Rsp(oid, 1)>>, st, act)

(* RF_DISCOVER_CMD *)
OnDiscover == IF st = "idle" THEN {Reply(<<Rsp(3, 0)>>, "discovering", NoTag)} ELSE {Refused(3)}

(* RF_DEACTIVATE_CMD to idle, to sleep or to discovery: an active tag is     *)
(* given up with a notification after the response.                          *)
OnDeactivate(to) ==
  CASE st = "active" -> {Reply(<<Rsp(6, 0), Deactivated>>, to, NoTag)}
    [] st \in {"discovering", "select"} /\ to = "idle" -> {Reply(<<Rsp(6, 0)>>, "idle", NoTag)}
    [] OTHER -> {Refused(6)}

(* RF_DISCOVER_SELECT_CMD for a discovery ID and a protocol.                 *)
OnSelect(id, proto) ==
  IF st # "select" \/ id > Len(found) THEN {Refused(4)}
  ELSE IF Protocol[found[id]] # proto THEN {Refused(4)}
  ELSE IF found[id] \in field
       THEN {Reply(<<Rsp(4, 0), Activated(found[id])>>, "active", found[id])}
       ELSE {Reply(<<Rsp(4, 0), GenericError>>, st, act)}

(* A data packet: the credit comes back first; an ISO-DEP tag may answer in  *)
(* several frames, all but the last marked as chained.  A tag that leaves    *)
(* makes the exchange fail, with a status, a notification or silently, also  *)
(* between two frames.                                                       *)
Failing == {<<Data(1)>>, <<InterfaceError>>, <<>>}

OnData ==
  LET frames == IF act # NoTag /\ Protocol[act] = "isodep"
                THEN {<<>>, <<Chained>>, <<Chained, Chained>>} ELSE {<<>>}
  IN  IF st # "active" THEN {Reply(<<GenericError>>, st, act)}
      ELSE {Reply(<<Credits>> \o f \o last, st, act) :
              f \in frames, last \in IF act \in field THEN {<<Data(0)>>} ELSE Failing}

(* The proprietary presence check of an ISO-DEP tag.                         *)
OnPresence ==
  IF st # "active" THEN {Reply(<<GenericError>>, st, act)}
  ELSE {Reply(<<PresenceRsp, PresenceNtf(IF act \in field THEN 1 ELSE 0)>>, st, act)}

(* RF_T3T_POLLING_CMD: status and number of the tags that have answered, one *)
(* with status 0 and none with another.                                      *)
OnPolling ==
  IF st # "active" THEN {Refused(8)}
  ELSE {Reply(<<Rsp(8, 0), PollingNtf(IF act \in field THEN 0 ELSE 1)>>, st, act)}

(* Orders in which several tags may be discovered.                           *)
Orders(S) == {f \in [1 .. Cardinality(S) -> S] : \A i, j \in DOMAIN f : f[i] = f[j] => i = j}

(* The discovery loop finds the tags in the field: one is activated, several *)
(* are announced and wait for a selection.                                   *)
Detect ==
  /\ st = "discovering"
  /\ field # {}
  /\ \E order \in Orders(field) :
       /\ found' = order
       /\ IF Len(order) = 1
          THEN /\ st' = "active" /\ act' = order[1]
               /\ out' = Append(out, Activated(order[1]))
          ELSE /\ st' = "select" /\ act' = NoTag
               /\ out' = out \o [i \in DOMAIN order |->
                                   Discovered(order[i], IF i = Len(order) THEN 0 ELSE 2)]
  /\ stayed' = field
  /\ reported' = {}
  /\ UNCHANGED <<hostVars, field, present>>

-----------------------------------------------------------------------------
(* The environment *)

Arrive(t) ==
  /\ field' = field \cup {t}
  /\ t \notin field
  /\ field \cup {t} \in Crowds
  /\ UNCHANGED <<hostVars, ctlVars, histVars>>

Leave(t) ==
  /\ t \in field
  /\ field' = field \ {t}
  /\ stayed' = stayed \ {t}
  /\ UNCHANGED <<hostVars, ctlVars, present, reported>>

-----------------------------------------------------------------------------
(* The host: sending and receiving *)

(* tml_Receive: the oldest packet.                                           *)
Take(queue) ==
  /\ answer' = Head(queue)
  /\ fresh' = TRUE
  /\ out' = Tail(queue)

(* NxpNci_HostTransceive.                                                    *)
Transceive(replies) ==
  \E r \in replies :
    /\ Take(out \o r.out)
    /\ st' = r.st
    /\ act' = r.act
    /\ UNCHANGED <<found, field>>

(* NxpNci_WaitForReception: the oldest packet, or a time-out that leaves the *)
(* buffer alone.                                                             *)
Receive ==
  /\ \/ out # <<>> /\ Take(out)
     \/ out = <<>> /\ fresh' = FALSE /\ UNCHANGED <<answer, out>>
  /\ UNCHANGED <<st, found, act, field>>

At(from, to) == pc = from /\ pc' = to

Is(b0, b1) == answer'.b0 = b0 /\ answer'.b1 = b1

-----------------------------------------------------------------------------
(* The host: discovery *)

StartDiscovery ==
  /\ At("start", "wait")
  /\ Transceive(OnDiscover)
  /\ UNCHANGED <<rf, next_tag, saved, reads, histVars>>

(* Mutant of StopDiscovery: it is left out before the restart.               *)
StopDiscovery_Skipped ==
  /\ At("stop", "start")
  /\ UNCHANGED <<answer, fresh, rf, next_tag, saved, reads, ctlVars, field, histVars>>

StopDiscovery ==
  /\ At("stop", "start")
  /\ Transceive(OnDeactivate("idle"))
  /\ UNCHANGED <<rf, next_tag, saved, reads, histVars>>

(* NxpNci_WaitForDiscoveryNotification up to its first notification; after a *)
(* time-out it returns and the task calls it again.                          *)
WaitSkips ==
  /\ At("wait", "wait")
  /\ Receive
  /\ fresh' => ~Is("61", 5) /\ ~Is("61", 3)
  /\ UNCHANGED <<rf, next_tag, saved, reads, histVars>>

WaitActivated ==
  /\ pc = "wait"
  /\ Receive
  /\ fresh' /\ Is("61", 5)
  /\ next_tag' = NoTag
  /\ rf' = [known |-> TRUE, tag |-> answer'.tag, more |-> FALSE]
  /\ \/ /\ Protocol[answer'.tag] = "isodep"
        /\ saved' = answer'.tag
        /\ pc' = "recheck"
     \/ /\ Protocol[answer'.tag] # "isodep"
        /\ pc' = "reader"
        /\ UNCHANGED saved
  /\ UNCHANGED <<reads, histVars>>

WaitDiscovered ==
  /\ At("wait", "next_ntf")
  /\ Receive
  /\ fresh' /\ Is("61", 3)
  /\ next_tag' = NoTag
  /\ rf' = [known |-> FALSE, tag |-> answer'.tag, more |-> TRUE]
  /\ UNCHANGED <<saved, reads, histVars>>

(* An ISO-DEP device may be a P2P device as well: discovery is restarted     *)
(* until the same kind of device, or none, is found.                         *)
Recheck ==
  /\ At("recheck", "recheck_ntf")
  /\ Transceive(OnDeactivate("discovering"))
  /\ UNCHANGED <<rf, next_tag, saved, reads, histVars>>

RecheckNtf ==
  /\ At("recheck_ntf", "recheck_wait")
  /\ Receive
  /\ UNCHANGED <<rf, next_tag, saved, reads, histVars>>

(* The seven bytes compared hold the length of the notification, discovery   *)
(* ID, interface, protocol and technology; the identity of the tag comes     *)
(* later, and rf keeps the one it had.                                       *)
SameDevice(t, u) == Kind[t] = Kind[u]

RecheckWait ==
  /\ pc = "recheck_wait"
  /\ Receive
  /\ pc' = IF ~fresh' THEN "wait"
           ELSE IF Is("60", 7) THEN "recheck_wait"
           ELSE IF ~Is("61", 5) THEN "flush"
           ELSE IF SameDevice(saved, answer'.tag) THEN "reader" ELSE "recheck"
  /\ UNCHANGED <<rf, next_tag, saved, reads, histVars>>

(* while (Answer != 0): the address of an array is never 0.                  *)
Flush ==
  /\ At("flush", "flush")
  /\ Receive
  /\ UNCHANGED <<rf, next_tag, saved, reads, histVars>>

-----------------------------------------------------------------------------
(* The host: several tags *)

(* The second RF_DISCOVER_NTF tells which tag ReaderActivateNext will take.  *)
NextNtf ==
  /\ pc = "next_ntf"
  /\ Receive
  /\ IF fresh' /\ Is("61", 3)
     THEN /\ next_tag' = answer'.tag
          /\ pc' = IF answer'.b3 = 2 THEN "remaining" ELSE "select"
     ELSE /\ pc' = IF fresh' THEN "next_ntf" ELSE "wait"
          /\ UNCHANGED next_tag
  /\ UNCHANGED <<rf, saved, reads, histVars>>

(* Further notifications are dropped.  After a time-out Answer[-1] is read.  *)
Remaining ==
  /\ pc = "remaining"
  /\ Receive
  /\ pc' \in IF ~fresh' THEN {"remaining", "select"}
             ELSE IF answer'.b3 = 2 THEN {"remaining"} ELSE {"select"}
  /\ UNCHANGED <<rf, next_tag, saved, reads, histVars>>

Select ==
  /\ pc = "select"
  /\ Transceive(OnSelect(1, Protocol[rf.tag]))
  /\ pc' = IF answer'.b0 = "41" \/ answer'.b1 = 4 \/ answer'.b3 = 0
           THEN "select_ntf" ELSE "reader"
  /\ UNCHANGED <<rf, next_tag, saved, reads, histVars>>

(* The code accepts what begins like a notification or ends like it.         *)
LooksActivated == answer'.b0 = "61" \/ answer'.b1 = 5

(* Mutant of SelectNtf: the notification is not looked at.                   *)
SelectNtf_Unchecked ==
  /\ At("select_ntf", "reader")
  /\ Receive
  /\ rf' = [rf EXCEPT !.known = TRUE]
  /\ UNCHANGED <<next_tag, saved, reads, histVars>>

SelectNtf ==
  /\ At("select_ntf", "reader")
  /\ Receive
  /\ rf' = IF LooksActivated
           THEN [rf EXCEPT !.known = TRUE, !.tag = answer'.tag] ELSE rf
  /\ UNCHANGED <<next_tag, saved, reads, histVars>>

(* NxpNci_ReaderActivateNext, called while MoreTags is set.                  *)
ActivateNext ==
  /\ pc = "more"
  /\ rf.more
  /\ IF next_tag = NoTag
     THEN rf' = Unknown /\ pc' = "presence"
     ELSE rf' = [rf EXCEPT !.more = FALSE] /\ pc' = "sleep"
  /\ UNCHANGED <<answer, fresh, next_tag, saved, reads, ctlVars, field, histVars>>

Sleep ==
  /\ pc = "sleep"
  /\ Transceive(OnDeactivate("select"))
  /\ pc' = IF answer'.b0 # "41" /\ answer'.b1 # 6 /\ answer'.b3 # 0
           THEN "presence" ELSE "sleep_ntf"
  /\ UNCHANGED <<rf, next_tag, saved, reads, histVars>>

SleepNtf ==
  /\ pc = "sleep_ntf"
  /\ Receive
  /\ pc' = IF answer'.b0 # "61" /\ answer'.b1 # 6 THEN "presence" ELSE "select_next"
  /\ UNCHANGED <<rf, next_tag, saved, reads, histVars>>

SelectNext ==
  /\ pc = "select_next"
  /\ Transceive(OnSelect(2, Protocol[next_tag]))
  /\ pc' = IF Is("41", 4) /\ answer'.b3 = 0 THEN "next_act" ELSE "presence"
  /\ UNCHANGED <<rf, next_tag, saved, reads, histVars>>

NextAct ==
  /\ pc = "next_act"
  /\ Receive
  /\ IF LooksActivated
     THEN /\ rf' = [known |-> TRUE, tag |-> answer'.tag, more |-> FALSE]
          /\ pc' = "reader"
     ELSE pc' = "presence" /\ UNCHANGED rf
  /\ UNCHANGED <<next_tag, saved, reads, histVars>>

-----------------------------------------------------------------------------
(* The host: reading and waiting for the removal *)

(* task_nfc_reader: the tag is displayed, and read unless it is a T5T.       *)
Reader ==
  /\ pc = "reader"
  /\ pc' \in IF rf.known THEN {"read", "more"} ELSE {"more"}
  /\ reported' = IF rf.known THEN reported \cup {rf.tag} ELSE reported
  /\ reads' = 0
  /\ UNCHANGED <<answer, fresh, rf, next_tag, saved, ctlVars, field, present, stayed>>

(* NxpNci_ReadNdef, whose engine decides when the read ends.                 *)
ReadExchange ==
  /\ At("read", "read_data")
  /\ reads < MaxReads
  /\ reads' = reads + 1
  /\ Transceive(OnData)
  /\ UNCHANGED <<rf, next_tag, saved, histVars>>

(* The answer of the tag, or its first frame.                                *)
ReadData ==
  /\ pc = "read_data"
  /\ Receive
  /\ pc' = IF answer'.b0 = "10" THEN "chain" ELSE "read"
  /\ UNCHANGED <<rf, next_tag, saved, reads, histVars>>

(* Mutant of ChainFrame: the frame before is tested.                         *)
ChainFrame_Late ==
  /\ pc = "chain"
  /\ Receive
  /\ pc' = IF answer.b0 = "10" THEN "chain" ELSE "read"
  /\ UNCHANGED <<rf, next_tag, saved, reads, histVars>>

(* while (Answer[0] == 0x10): the next frame; after a time-out the buffer    *)
(* still holds the chained one before.                                       *)
ChainFrame ==
  /\ pc = "chain"
  /\ Receive
  /\ pc' = IF answer'.b0 = "10" THEN "chain" ELSE "read"
  /\ UNCHANGED <<rf, next_tag, saved, reads, histVars>>

ReadEnds ==
  /\ At("read", "more")
  /\ UNCHANGED <<answer, fresh, rf, next_tag, saved, reads, ctlVars, field, histVars>>

NoMoreTags ==
  /\ At("more", "presence")
  /\ ~rf.more
  /\ UNCHANGED <<answer, fresh, rf, next_tag, saved, reads, ctlVars, field, histVars>>

(* NxpNci_PresenceCheck: one poll of the tag in rf.                          *)
PresenceNone ==
  /\ At("presence", "stop")
  /\ ~rf.known
  /\ UNCHANGED <<answer, fresh, rf, next_tag, saved, reads, ctlVars, field, histVars>>

Poll(replies) ==
  /\ Transceive(replies)
  /\ present' = (rf.tag \in field)
  /\ UNCHANGED <<rf, next_tag, saved, reads, reported, stayed>>

(* T1T, T2T and T5T: a command of the tag.                                   *)
PresenceFrame ==
  /\ At("presence", "presence_end")
  /\ rf.known /\ Protocol[rf.tag] \in {"t1t", "t2t", "t5t"}
  /\ Poll(OnData)

PresenceT3T ==
  /\ At("presence", "presence_end")
  /\ rf.known /\ Protocol[rf.tag] = "t3t"
  /\ Poll(OnPolling)

PresenceIsoDep ==
  /\ At("presence", "presence_end")
  /\ rf.known /\ Protocol[rf.tag] = "isodep"
  /\ Poll(OnPresence)

(* Mutant of PresenceMifare: the notification after the response is not read. *)
PresenceMifare_NtfLeft ==
  /\ At("presence", "mifare_select")
  /\ rf.known /\ Protocol[rf.tag] = "mifare"
  /\ Transceive(OnDeactivate("select"))
  /\ UNCHANGED <<rf, next_tag, saved, reads, histVars>>

(* A MIFARE tag is put to sleep and selected again, under discovery ID 1.    *)
PresenceMifare ==
  /\ At("presence", "mifare_ntf")
  /\ rf.known /\ Protocol[rf.tag] = "mifare"
  /\ Transceive(OnDeactivate("select"))
  /\ UNCHANGED <<rf, next_tag, saved, reads, histVars>>

MifareNtf ==
  /\ At("mifare_ntf", "mifare_select")
  /\ Receive
  /\ UNCHANGED <<rf, next_tag, saved, reads, histVars>>

MifareSelect ==
  /\ At("mifare_select", "presence_end")
  /\ Poll(OnSelect(1, "mifare"))

(* Mutant of StillThere: the length of a T2T's answer is not looked at.      *)
StillThere_NoLength ==
  CASE Protocol[rf.tag] \in {"t1t", "t2t"} -> Is("00", 0)
    [] Protocol[rf.tag] = "t3t"    -> Is("61", 8) /\ answer'.b3 = 0
    [] Protocol[rf.tag] = "t5t"    -> fresh' /\ Is("00", 0) /\ answer'.b3 = 0
    [] Protocol[rf.tag] = "isodep" -> Is("6F", 17) /\ answer'.b3 = 1
    [] Protocol[rf.tag] = "mifare" -> Is("61", 5)

(* The test of the loop: the packet received last shows a live tag.  Of a    *)
(* T1T any data packet does; of a T2T one of full length (17 bytes); of a    *)
(* T5T one that ends with status 0 and has just been received.               *)
StillThere ==
  CASE Protocol[rf.tag] = "t1t"    -> Is("00", 0)
    [] Protocol[rf.tag] = "t2t"    -> Is("00", 0) /\ answer'.b3 = 0
    [] Protocol[rf.tag] = "t3t"    -> Is("61", 8) /\ answer'.b3 = 0
    [] Protocol[rf.tag] = "t5t"    -> fresh' /\ Is("00", 0) /\ answer'.b3 = 0
    [] Protocol[rf.tag] = "isodep" -> Is("6F", 17) /\ answer'.b3 = 1
    [] Protocol[rf.tag] = "mifare" -> Is("61", 5)

PresenceEnd ==
  /\ pc = "presence_end"
  /\ Receive
  /\ pc' = IF StillThere THEN "presence" ELSE "stop"
  /\ UNCHANGED <<rf, next_tag, saved, reads, histVars>>

-----------------------------------------------------------------------------
Discovery ==
  \/ StartDiscovery \/ StopDiscovery \/ WaitSkips \/ WaitActivated \/ WaitDiscovered
  \/ Recheck \/ RecheckNtf \/ RecheckWait \/ Flush

Several ==
  \/ NextNtf \/ Remaining \/ Select \/ SelectNtf \/ ActivateNext \/ Sleep
  \/ SleepNtf \/ SelectNext \/ NextAct

Reading == Reader \/ ReadExchange \/ ReadData \/ ChainFrame \/ ReadEnds \/ NoMoreTags

Presence ==
  \/ PresenceNone \/ PresenceFrame \/ PresenceT3T \/ PresenceIsoDep \/ PresenceMifare
  \/ MifareNtf \/ MifareSelect \/ PresenceEnd

Host == Discovery \/ Several \/ Reading \/ Presence

Environment == \E t \in Tags : Arrive(t) \/ Leave(t)

Next == Host \/ Detect \/ Environment

Spec == Init /\ [][Next]_vars

(* The worker thread runs, all its waits having time-outs, and a controller  *)
(* in discovery finds a tag that stays.  Nothing is assumed of the tags.     *)
FairSpec == Spec /\ WF_vars(Host) /\ WF_vars(Detect)

-----------------------------------------------------------------------------
(* Properties *)

Locations ==
  {"start", "wait", "recheck", "recheck_ntf", "recheck_wait", "flush", "next_ntf",
   "remaining", "select", "select_ntf", "reader", "read", "read_data", "chain", "more",
   "sleep", "sleep_ntf", "select_next", "next_act", "presence", "mifare_ntf",
   "mifare_select", "presence_end", "stop"}

Packets == [b0 : {"41", "61", "60", "4F", "6F", "00", "10"}, b1 : 0 .. 17, b3 : 0 .. 2,
            tag : Tags \cup {NoTag}]

TypeOK ==
  /\ pc \in Locations
  /\ answer \in Packets /\ fresh \in BOOLEAN
  /\ rf \in [known : BOOLEAN, tag : Tags \cup {NoTag}, more : BOOLEAN]
  /\ next_tag \in Tags \cup {NoTag} /\ saved \in Tags \cup {NoTag}
  /\ reads \in 0 .. MaxReads
  /\ st \in {"idle", "discovering", "select", "active"}
  /\ found \in Seq(Tags) /\ act \in Tags \cup {NoTag}
  /\ out \in Seq(Packets)
  /\ field \subseteq Tags
  /\ present \in BOOLEAN /\ reported \subseteq Tags /\ stayed \subseteq Tags

(* The task never waits in vain: while it waits for a discovery, discovery   *)
(* is running or its notification is already queued, although StartDiscovery *)
(* and StopDiscovery may have taken stale packets for their answers.         *)
WaitingIsHeard ==
  pc = "wait" =>
    \/ st = "discovering"
    \/ \E i \in DOMAIN out : out[i].b0 = "61" /\ out[i].b1 \in {3, 5}

(* The tag handed to the reader is the one the controller has activated, or  *)
(* an ISO-DEP tag that took the place of another one during the restart of   *)
(* discovery: saved_NTF holds the kind of the device, not its identity.      *)
ReportedIsActive ==
  pc \in {"reader", "read", "read_data", "chain"} /\ rf.known =>
    \/ act = rf.tag
    \/ act # NoTag /\ Protocol[act] = "isodep" /\ Protocol[rf.tag] = "isodep"

(* The tag in rf can be polled: it is active, or it is the MIFARE tag that   *)
(* has the discovery ID 1.                                                   *)
Pollable == IF Protocol[rf.tag] = "mifare" THEN rf.tag = found[1] ELSE act = rf.tag

(* The presence check of such a tag ends only when it was away at the last   *)
(* poll: no stale packet is taken for the answer.                            *)
PresenceSound ==
  [][pc = "presence_end" /\ pc' = "stop" /\ Pollable => ~present]_vars

(* Of several tags discovered together, the first two are both handed to the *)
(* reader if they stay.                                                      *)
BothReported ==
  pc = "presence" /\ Len(found) > 1 =>
    \A i \in {1, 2} : found[i] \in stayed => found[i] \in reported

(* What the reader is handed: the active tag each time, of several tags the  *)
(* first two.                                                                *)
TagsHanded == TypeOK /\ ReportedIsActive /\ BothReported

(* The loop over the frames of a chained answer runs dry only if the tag has *)
(* left before the last one; then it does not end.                           *)
ChainIsFed == pc = "chain" => out # <<>> \/ act \notin stayed

(* The poll of a T1T takes the status of its own failure for an answer: it   *)
(* need not end.                                                             *)
PollsT1T == pc \in {"presence", "presence_end"} /\ rf.known /\ Protocol[rf.tag] = "t1t"

(* With all the tags gone the task goes back to waiting, unless it hangs in  *)
(* one of the two loops that do not end or polls a T1T.                      *)
ReaderReturns == field = {} ~> field # {} \/ pc \in {"wait", "flush", "chain"} \/ PollsT1T

(* NxpNci20.c:1062: "Flush any other notification": the flush comes to an end. *)
FlushEnds == pc = "flush" ~> pc # "flush"
=============================================================================
