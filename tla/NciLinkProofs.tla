----------------------------- MODULE NciLinkProofs -----------------------------
(***************************************************************************)
(* Theorems of NciLink, for every set of tags of every kind: the safety      *)
(* properties of the link between the reader's task and the controller.      *)
(***************************************************************************)
EXTENDS NciLink, SequenceTheorems, FiniteSetTheorems, TLAPS

(* What the discovery of several tags queues.                                *)
Announcement(i) == Discovered(found[i], IF i = Len(found) THEN 0 ELSE 2)
Announcements   == [i \in 1 .. Len(found) |-> Announcement(i)]

(* The task waits for a discovery, with the packets pre left to be read      *)
(* before its notifications.                                                 *)
Awaits(pre) ==
  \/ st = "discovering" /\ out = pre
  \/ st = "active" /\ Len(found) = 1 /\ out = pre \o <<Activated(act)>>
  \/ st = "select" /\ Len(found) > 1 /\ out = pre \o Announcements

(* The frames of an answer that are still to be read; the last one is there  *)
(* unless the tag has left.                                                  *)
Frames ==
  /\ \A i \in 1 .. Len(out) : out[i].b0 = "10" \/ (out[i].b0 \in {"00", "60"} /\ i = Len(out))
  /\ act \in stayed => out # <<>> /\ out[Len(out)].b0 = "00"

(* The tags that are polled with a command of their own.                     *)
FrameKinds == {"t1t", "t2t", "t5t"}

Discovering == {"start", "wait", "recheck", "recheck_ntf", "recheck_wait", "flush", "stop"}
Selecting   == {"next_ntf", "remaining", "select", "select_ntf"}
Handed      == {"reader", "read", "read_data", "chain", "more"}
Advancing   == {"sleep", "sleep_ntf", "select_next", "next_act"}
Polling     == {"presence", "mifare_ntf", "mifare_select", "presence_end"}

(* What is queued at each receive or command, and the controller's state.    *)
Queue ==
  /\ pc = "start" => st = "idle" /\ out \in {<<>>, <<Deactivated>>}
  /\ pc = "wait" => Awaits(<<>>) \/ Awaits(<<Rsp(3, 0)>>)
  /\ pc = "recheck" => st = "active" /\ out = <<>>
  /\ pc = "recheck_ntf" => Awaits(<<Deactivated>>)
  /\ pc = "recheck_wait" => Awaits(<<>>)
  /\ pc = "flush" => st = "select"
  /\ pc = "next_ntf" => st = "select" /\ out = SubSeq(Announcements, 2, Len(found))
  /\ pc = "remaining" =>
       st = "select" /\ \E k \in 3 .. Len(found) : out = SubSeq(Announcements, k, Len(found))
  /\ pc \in {"select", "select_next", "mifare_select"} => st = "select" /\ out = <<>>
  /\ pc \in {"reader", "read", "more", "sleep", "presence", "stop"} =>
       st \in {"active", "select"} /\ out = <<>>
  /\ pc \in {"sleep_ntf", "mifare_ntf"} => st = "select" /\ out \in {<<>>, <<Deactivated>>}
  /\ pc = "sleep_ntf" /\ out = <<>> => answer.b1 = 6
  /\ pc \in {"read_data", "chain"} => Frames
  /\ pc = "read_data" => answer.b0 # "10"

(* The answer to a selection or to a poll.                                   *)
Answered ==
  /\ pc = "select_ntf" =>
       \/ st = "active" /\ act = found[1] /\ out = <<Activated(act)>>
       \/ st = "select" /\ out = <<GenericError>> /\ found[1] \notin stayed
  /\ pc = "next_act" =>
       \/ st = "active" /\ act = found[2] /\ out = <<Activated(act)>>
       \/ st = "select" /\ out = <<GenericError>> /\ found[2] \notin stayed
  /\ pc = "presence_end" =>
       /\ st \in {"active", "select"}
       /\ \/ Protocol[rf.tag] \in FrameKinds /\ \E p \in {0, 1} : out = <<Data(p)>>
          \/ Protocol[rf.tag] = "t3t" /\ \E p \in {0, 1} : out = <<PollingNtf(p)>>
          \/ Protocol[rf.tag] = "isodep" /\ \E p \in {0, 1} : out = <<PresenceNtf(p)>>
          \/ Protocol[rf.tag] = "mifare" /\ \E t \in Tags : out = <<Activated(t)>>
          \/ out \in {<<>>, <<GenericError>>, <<InterfaceError>>}
       /\ Pollable /\ present =>
            \/ Protocol[rf.tag] \in FrameKinds /\ out = <<Data(0)>>
            \/ Protocol[rf.tag] = "t3t" /\ out = <<PollingNtf(0)>>
            \/ Protocol[rf.tag] = "isodep" /\ out = <<PresenceNtf(1)>>
            \/ Protocol[rf.tag] = "mifare" /\ \E t \in Tags : out = <<Activated(t)>>

(* What rf says of the tag.                                                  *)
Tracked ==
  /\ pc \in {"recheck", "recheck_ntf", "recheck_wait"} =>
       /\ rf.known /\ ~rf.more /\ rf.tag \in Tags /\ Protocol[rf.tag] = "isodep"
       /\ saved \in Tags /\ Protocol[saved] = "isodep"
  /\ pc \in Selecting => ~rf.known /\ rf.more /\ Len(found) > 1 /\ rf.tag = found[1]
  /\ pc \in Handed \cup Advancing \cup Polling /\ rf.known =>
       /\ rf.tag \in Tags
       /\ st = "active" /\ pc # "next_act" => Protocol[act] = Protocol[rf.tag]
  /\ pc \in Handed /\ rf.known =>
       st = "active" /\ (act = rf.tag \/ Protocol[act] = "isodep")
  /\ pc \in {"read", "read_data", "chain", "mifare_ntf", "mifare_select", "presence_end"} => rf.known
  /\ pc \in {"mifare_ntf", "mifare_select"} => Protocol[rf.tag] = "mifare"
  /\ pc \in {"remaining", "select", "select_ntf"} => next_tag = found[2]
  /\ pc \in Handed /\ rf.more => Len(found) > 1 /\ rf.tag = found[1] /\ next_tag = found[2]
  /\ pc \in Advancing => Len(found) > 1 /\ next_tag = found[2]

Given(i) == found[i] \in stayed => found[i] \in reported

(* Which of the first two tags have been handed over.                        *)
Progress ==
  Len(found) > 1 =>
    /\ pc = "reader" /\ rf.more => (found[1] \in stayed => rf.known)
    /\ pc = "reader" /\ ~rf.more => Given(1) /\ rf.known /\ rf.tag = found[2]
    /\ pc \in (Handed \ {"reader"}) \cup Advancing \cup Polling => Given(1)
    /\ pc \in Handed \ {"reader"} /\ ~rf.more => Given(2)
    /\ pc \in Polling => Given(2)

Field ==
  /\ st = "active" <=> act # NoTag
  /\ st \in {"active", "select"} => found # <<>>
  /\ stayed \subseteq field

IInv == TypeOK /\ Queue /\ Answered /\ Tracked /\ Progress /\ Field

-----------------------------------------------------------------------------
(* Packets and queues *)

RfType == [known : BOOLEAN, tag : Tags \cup {NoTag}, more : BOOLEAN]

LEMMA PacketTypes ==
  /\ \A o \in {3, 4, 6, 8}, s \in {0, 1} : Rsp(o, s) \in Packets
  /\ \A t \in Tags : Activated(t) \in Packets
  /\ \A t \in Tags, m \in {0, 2} : Discovered(t, m) \in Packets
  /\ Deactivated \in Packets /\ Credits \in Packets /\ GenericError \in Packets
  /\ InterfaceError \in Packets /\ Chained \in Packets /\ PresenceRsp \in Packets
  /\ \A p \in {0, 1} : Data(p) \in Packets /\ PresenceNtf(p) \in Packets /\ PollingNtf(p) \in Packets
BY DEF Packets, Packet, Rsp, Activated, Discovered, Deactivated, Credits, GenericError,
       InterfaceError, Chained, PresenceRsp, Data, PresenceNtf, PollingNtf

LEMMA PacketFields ==
  /\ \A o, s : Rsp(o, s).b0 = "41" /\ Rsp(o, s).b1 = o /\ Rsp(o, s).b3 = s
  /\ \A t : Activated(t).b0 = "61" /\ Activated(t).b1 = 5 /\ Activated(t).b3 = 0 /\ Activated(t).tag = t
  /\ \A t, m : /\ Discovered(t, m).b0 = "61" /\ Discovered(t, m).b1 = 3
               /\ Discovered(t, m).b3 = m /\ Discovered(t, m).tag = t
  /\ Deactivated.b0 = "61" /\ Deactivated.b1 = 6
  /\ Credits.b0 = "60" /\ Credits.b1 = 6
  /\ GenericError.b0 = "60" /\ GenericError.b1 = 7
  /\ InterfaceError.b0 = "60" /\ InterfaceError.b1 = 8
  /\ Chained.b0 = "10"
  /\ \A s : Data(s).b0 = "00" /\ Data(s).b1 = 0 /\ Data(s).b3 = s
  /\ PresenceRsp.b0 = "4F"
  /\ \A p : PresenceNtf(p).b0 = "6F" /\ PresenceNtf(p).b1 = 17 /\ PresenceNtf(p).b3 = p
  /\ \A s : PollingNtf(s).b0 = "61" /\ PollingNtf(s).b1 = 8 /\ PollingNtf(s).b3 = s
BY DEF Packet, Rsp, Activated, Discovered, Deactivated, Credits, GenericError,
       InterfaceError, Chained, PresenceRsp, Data, PresenceNtf, PollingNtf

LEMMA OneOf ==
  ASSUME NEW S, NEW x \in S
  PROVE  /\ <<x>> \in Seq(S) /\ <<x>> # <<>> /\ Len(<<x>>) = 1 /\ <<x>>[1] = x
         /\ Head(<<x>>) = x /\ Tail(<<x>>) = <<>>
OBVIOUS

LEMMA TwoOf ==
  ASSUME NEW S, NEW x \in S, NEW y \in S
  PROVE  /\ <<x, y>> \in Seq(S) /\ <<x, y>> # <<>>
         /\ Head(<<x, y>>) = x /\ Tail(<<x, y>>) = <<y>>
OBVIOUS

LEMMA EmptyCat ==
  ASSUME NEW S, NEW s \in Seq(S)
  PROVE  <<>> \o s = s
OBVIOUS

LEMMA OneCat ==
  ASSUME NEW S, NEW x \in S, NEW s \in Seq(S)
  PROVE  /\ <<x>> \o s \in Seq(S) /\ <<x>> \o s # <<>>
         /\ Head(<<x>> \o s) = x /\ Tail(<<x>> \o s) = s
PROOF
<1> DEFINE t == <<x>> \o s
<1>1. t \in Seq(S) /\ Len(t) = Len(s) + 1 /\ t[1] = x /\ \A i \in 1 .. Len(s) : t[i + 1] = s[i]
  OBVIOUS
<1> HIDE DEF t
<1>2. t # <<>> /\ Head(t) = x
  BY <1>1
<1>3. Tail(t) \in Seq(S) /\ Len(Tail(t)) = Len(s) /\ \A i \in 1 .. Len(s) : Tail(t)[i] = t[i + 1]
  BY <1>1, <1>2
<1>4. Tail(t) = s
  BY <1>1, <1>3
<1> QED
  BY <1>1, <1>2, <1>4 DEF t

LEMMA AppendCat ==
  ASSUME NEW S, NEW s \in Seq(S), NEW x \in S
  PROVE  Append(s, x) = s \o <<x>> /\ Append(s, x) \in Seq(S)
OBVIOUS

LEMMA HeadTail ==
  ASSUME NEW S, NEW s \in Seq(S), s # <<>>
  PROVE  /\ Head(s) = s[1] /\ Head(s) \in S /\ Tail(s) \in Seq(S)
         /\ Len(s) \in Nat \ {0} /\ Len(Tail(s)) = Len(s) - 1
         /\ \A i \in 1 .. Len(Tail(s)) : Tail(s)[i] = s[i + 1]
OBVIOUS

LEMMA SuffixStep ==
  ASSUME NEW S, NEW s \in Seq(S), NEW k \in 1 .. Len(s)
  PROVE  /\ SubSeq(s, k, Len(s)) # <<>>
         /\ Head(SubSeq(s, k, Len(s))) = s[k]
         /\ Tail(SubSeq(s, k, Len(s))) = SubSeq(s, k + 1, Len(s))
         /\ k = Len(s) => SubSeq(s, k + 1, Len(s)) = <<>>
PROOF
<1>1. Len(s) \in Nat /\ k \in Int /\ Len(s) \in k .. Len(s)
  OBVIOUS
<1>2. Len(SubSeq(s, k, Len(s))) = Len(s) - k + 1
  OBVIOUS
<1>3. SubSeq(s, k, Len(s)) # <<>>
  <2> DEFINE t == SubSeq(s, k, Len(s))
  <2>1. Len(t) = Len(s) - k + 1
    BY <1>2
  <2> HIDE DEF t
  <2>2. Len(t) # 0
    BY <1>1, <2>1
  <2>3. t # <<>>
    BY <2>2
  <2> QED
    BY <2>3 DEF t
<1>4. k = Len(s) => SubSeq(s, k + 1, Len(s)) = <<>>
  BY <1>1, SubSeqEmpty
<1> QED
  BY <1>1, <1>3, <1>4, HeadTailOfSubSeq

LEMMA AnnouncementsType ==
  ASSUME found \in Seq(Tags)
  PROVE  /\ Announcements \in Seq(Packets) /\ Len(Announcements) = Len(found)
         /\ \A i \in 1 .. Len(found) :
              /\ Announcements[i].b0 = "61" /\ Announcements[i].b1 = 3
              /\ Announcements[i].b3 = (IF i = Len(found) THEN 0 ELSE 2)
              /\ Announcements[i].tag = found[i]
PROOF
<1>1. Len(found) \in Nat /\ \A i \in 1 .. Len(found) : found[i] \in Tags
  OBVIOUS
<1>2. \A i \in 1 .. Len(found) : Announcement(i) \in Packets
  BY <1>1, PacketTypes DEF Announcement
<1>3. Announcements \in Seq(Packets) /\ Len(Announcements) = Len(found)
  BY <1>1, <1>2 DEF Announcements
<1>4. \A i \in 1 .. Len(found) : Announcements[i] = Announcement(i)
  BY DEF Announcements
<1> QED
  BY <1>3, <1>4, PacketFields DEF Announcement

-----------------------------------------------------------------------------
(* Receiving and sending *)

LEMMA Listened ==
  ASSUME TypeOK, Receive
  PROVE  /\ out # <<>> => fresh' = TRUE /\ answer' = Head(out) /\ out' = Tail(out)
         /\ out = <<>> => fresh' = FALSE /\ answer' = answer /\ out' = <<>>
         /\ st' = st /\ found' = found /\ act' = act /\ field' = field
         /\ answer' \in Packets /\ fresh' \in BOOLEAN /\ out' \in Seq(Packets)
PROOF
<1>1. out \in Seq(Packets) /\ answer \in Packets
  BY DEF TypeOK
<1>2. CASE out # <<>>
  BY <1>1, <1>2, HeadTail DEF Receive, Take
<1>3. CASE out = <<>>
  BY <1>1, <1>3 DEF Receive
<1> QED
  BY <1>2, <1>3

LEMMA HeardOne ==
  ASSUME TypeOK, Receive, NEW x \in Packets, out = <<x>>
  PROVE  fresh' = TRUE /\ answer' = x /\ out' = <<>>
BY Listened, OneOf

(* The replies are sent to a queue that is empty.                            *)
LEMMA Exchanged ==
  ASSUME TypeOK, out = <<>>, NEW R, Transceive(R),
         \A r \in R : r.out \in Seq(Packets) /\ r.out # <<>>
  PROVE  /\ \E r \in R : /\ answer' = Head(r.out) /\ out' = Tail(r.out)
                         /\ st' = r.st /\ act' = r.act
         /\ fresh' = TRUE /\ found' = found /\ field' = field
         /\ answer' \in Packets /\ out' \in Seq(Packets)
PROOF
<1>1. PICK r \in R : /\ Take(out \o r.out) /\ st' = r.st /\ act' = r.act
                    /\ UNCHANGED <<found, field>>
  BY DEF Transceive
<1>2. out \o r.out = r.out
  BY EmptyCat
<1>3. Head(r.out) \in Packets /\ Tail(r.out) \in Seq(Packets)
  BY HeadTail
<1> QED
  BY <1>1, <1>2, <1>3 DEF Take

LEMMA ReplyFields ==
  ASSUME NEW o, NEW s, NEW a
  PROVE  Reply(o, s, a).out = o /\ Reply(o, s, a).st = s /\ Reply(o, s, a).act = a
BY DEF Reply

(* The replies to RF_DEACTIVATE_CMD.                                         *)
LEMMA DeactivateReplies ==
  ASSUME NEW to \in {"idle", "select", "discovering"}, st \in {"active", "select"},
         st = "active" \/ to # "discovering"
  PROVE  OnDeactivate(to) =
           {IF st = "active" THEN Reply(<<Rsp(6, 0), Deactivated>>, to, NoTag)
            ELSE IF to = "idle" THEN Reply(<<Rsp(6, 0)>>, "idle", NoTag)
            ELSE Reply(<<Rsp(6, 1)>>, st, act)}
PROOF
<1>1. CASE st = "active"
  <2>1. OnDeactivate(to) = {Reply(<<Rsp(6, 0), Deactivated>>, to, NoTag)}
    BY <1>1, Zenon DEF OnDeactivate
  <2> QED
    BY <1>1, <2>1
<1>2. CASE st = "select" /\ to = "idle"
  <2>1. st # "active" /\ st \in {"discovering", "select"}
    BY <1>2
  <2>2. OnDeactivate(to) = {Reply(<<Rsp(6, 0)>>, "idle", NoTag)}
    BY <1>2, <2>1, Zenon DEF OnDeactivate
  <2> QED
    BY <1>2, <2>1, <2>2
<1>3. CASE st = "select" /\ to = "select"
  <2>1. st # "active" /\ to # "idle"
    BY <1>3
  <2>2. OnDeactivate(to) = {Refused(6)}
    BY <1>3, <2>1, Zenon DEF OnDeactivate
  <2> QED
    BY <1>3, <2>1, <2>2 DEF Refused
<1> QED
  BY <1>1, <1>2, <1>3

LEMMA Deactivates ==
  ASSUME TypeOK, Field, out = <<>>, NEW to \in {"idle", "select", "discovering"},
         st \in {"active", "select"}, st = "active" \/ to # "discovering",
         Transceive(OnDeactivate(to))
  PROVE  /\ st = "active" => answer' = Rsp(6, 0) /\ out' = <<Deactivated>>
         /\ st # "active" => out' = <<>> /\ answer' \in {Rsp(6, 0), Rsp(6, 1)}
         /\ st' = to /\ act' = NoTag /\ fresh' = TRUE
         /\ found' = found /\ field' = field
         /\ answer' \in Packets /\ out' \in Seq(Packets)
PROOF
<1> DEFINE o == IF st = "active" THEN <<Rsp(6, 0), Deactivated>>
                ELSE IF to = "idle" THEN <<Rsp(6, 0)>> ELSE <<Rsp(6, 1)>>
<1>1. Rsp(6, 0) \in Packets /\ Rsp(6, 1) \in Packets /\ Deactivated \in Packets
  BY PacketTypes
<1>2. st # "active" => act = NoTag
  BY DEF Field
<1>3. OnDeactivate(to) = {Reply(o, to, NoTag)}
  BY <1>2, DeactivateReplies
<1>4. o \in Seq(Packets) /\ o # <<>>
  BY <1>1
<1>5. /\ st = "active" => Head(o) = Rsp(6, 0) /\ Tail(o) = <<Deactivated>>
      /\ st # "active" => Head(o) \in {Rsp(6, 0), Rsp(6, 1)} /\ Tail(o) = <<>>
  BY <1>1, OneOf, TwoOf
<1> HIDE DEF o
<1>6. \A r \in OnDeactivate(to) : r.out = o /\ r.st = to /\ r.act = NoTag
  BY <1>3, ReplyFields
<1>7. /\ answer' = Head(o) /\ out' = Tail(o) /\ st' = to /\ act' = NoTag
      /\ fresh' = TRUE /\ found' = found /\ field' = field
      /\ answer' \in Packets /\ out' \in Seq(Packets)
  BY <1>4, <1>6, Exchanged
<1> QED
  BY <1>5, <1>7

(* The replies to RF_DISCOVER_SELECT_CMD.                                    *)
LEMMA Selects ==
  ASSUME TypeOK, out = <<>>, st = "select", NEW id \in 1 .. Len(found), NEW proto,
         Transceive(OnSelect(id, proto))
  PROVE  /\ \/ Protocol[found[id]] # proto /\ answer' = Rsp(4, 1) /\ out' = <<>> /\ st' = st /\ act' = act
            \/ /\ Protocol[found[id]] = proto /\ answer' = Rsp(4, 0)
               /\ \/ out' = <<Activated(found[id])>> /\ st' = "active" /\ act' = found[id]
                  \/ out' = <<GenericError>> /\ st' = st /\ act' = act /\ found[id] \notin field
         /\ fresh' = TRUE /\ found' = found /\ field' = field
         /\ answer' \in Packets /\ out' \in Seq(Packets)
PROOF
<1>1. found[id] \in Tags /\ ~(id > Len(found))
  BY DEF TypeOK
<1>2. /\ Rsp(4, 0) \in Packets /\ Rsp(4, 1) \in Packets /\ GenericError \in Packets
      /\ Activated(found[id]) \in Packets
  BY <1>1, PacketTypes
<1> DEFINE last == IF found[id] \in field THEN Activated(found[id]) ELSE GenericError
           o == IF Protocol[found[id]] # proto THEN <<Rsp(4, 1)>> ELSE <<Rsp(4, 0), last>>
           s == IF Protocol[found[id]] = proto /\ found[id] \in field THEN "active" ELSE st
           a == IF Protocol[found[id]] = proto /\ found[id] \in field THEN found[id] ELSE act
<1>3. last \in Packets
  BY <1>2
<1>4. OnSelect(id, proto) = {Reply(o, s, a)}
  BY <1>1 DEF OnSelect, Refused
<1> HIDE DEF last
<1>5. /\ o \in Seq(Packets) /\ o # <<>>
      /\ Head(o) = IF Protocol[found[id]] # proto THEN Rsp(4, 1) ELSE Rsp(4, 0)
      /\ Tail(o) = IF Protocol[found[id]] # proto THEN <<>> ELSE <<last>>
  BY <1>2, <1>3, OneOf, TwoOf
<1> HIDE DEF o, s, a
<1>6. \A r \in OnSelect(id, proto) : r.out = o /\ r.st = s /\ r.act = a
  BY <1>4, ReplyFields
<1>7. /\ answer' = Head(o) /\ out' = Tail(o) /\ st' = s /\ act' = a
      /\ fresh' = TRUE /\ found' = found /\ field' = field
      /\ answer' \in Packets /\ out' \in Seq(Packets)
  BY <1>5, <1>6, Exchanged
<1> QED
  BY <1>5, <1>7 DEF last, s, a

(* The answer of the active tag to a data packet.                            *)
(* The last packet of an answer, if there is one.                            *)
Lasts == {<<>>, <<Data(0)>>, <<Data(1)>>, <<InterfaceError>>}

LEMMA DataReplies ==
  ASSUME st = "active", NEW r \in OnData
  PROVE  \E f \in {<<>>, <<Chained>>, <<Chained, Chained>>}, last \in Lasts :
           /\ r = Reply(<<Credits>> \o f \o last, st, act)
           /\ Protocol[act] # "isodep" => f = <<>>
           /\ act \in field => last = <<Data(0)>>
PROOF
<1> DEFINE F == IF act # NoTag /\ Protocol[act] = "isodep"
                THEN {<<>>, <<Chained>>, <<Chained, Chained>>} ELSE {<<>>}
           L == IF act \in field THEN {<<Data(0)>>} ELSE Failing
<1>0. OnData = {Reply(<<Credits>> \o f \o last, st, act) : f \in F, last \in L}
  BY SMTT(30) DEF OnData
<1>1. PICK f \in F, last \in L : r = Reply(<<Credits>> \o f \o last, st, act)
  <2> HIDE DEF F, L
  <2> QED
    BY <1>0
<1>2. f \in {<<>>, <<Chained>>, <<Chained, Chained>>} /\ (Protocol[act] # "isodep" => f = <<>>)
  BY <1>1
<1>3. last \in Lasts /\ (act \in field => last = <<Data(0)>>)
  BY <1>1 DEF Lasts, Failing
<1> QED
  BY <1>1, <1>2, <1>3

LEMMA SendsData ==
  ASSUME TypeOK, out = <<>>, st = "active", Transceive(OnData)
  PROVE  /\ \A i \in 1 .. Len(out') : out'[i].b0 = "10" \/ (out'[i].b0 \in {"00", "60"} /\ i = Len(out'))
         /\ act \in field => out' # <<>> /\ out'[Len(out')].b0 = "00"
         /\ Protocol[act] # "isodep" =>
              /\ out' \in Lasts
              /\ act \in field => out' = <<Data(0)>>
         /\ answer' = Credits /\ st' = st /\ act' = act
         /\ fresh' = TRUE /\ found' = found /\ field' = field
         /\ answer' \in Packets /\ out' \in Seq(Packets)
PROOF
<1> DEFINE Frm == {<<>>, <<Chained>>, <<Chained, Chained>>}
           Lst == Lasts
<1>1. /\ Credits \in Packets /\ Chained \in Packets
      /\ Data(0) \in Packets /\ Data(1) \in Packets /\ InterfaceError \in Packets
  BY PacketTypes
<1>2. /\ \A f \in Frm : f \in Seq(Packets) /\ \A i \in 1 .. Len(f) : f[i].b0 = "10"
      /\ \A l \in Lst : l \in Seq(Packets) /\ Len(l) \in {0, 1}
                          /\ \A i \in 1 .. Len(l) : l[i].b0 \in {"00", "60"}
  BY <1>1, PacketFields DEF Lasts
<1>3. <<Data(0)>> # <<>> /\ Len(<<Data(0)>>) = 1
  OBVIOUS
<1>4. \A r \in OnData : \E f \in Frm, last \in Lst :
         /\ r = Reply(<<Credits>> \o f \o last, st, act)
         /\ Protocol[act] # "isodep" => f = <<>>
         /\ act \in field => last = <<Data(0)>>
  BY DataReplies
<1> HIDE DEF Frm, Lst
<1>5. \A f \in Frm, last \in Lst :
        /\ <<Credits>> \o f \o last \in Seq(Packets) /\ <<Credits>> \o f \o last # <<>>
        /\ Head(<<Credits>> \o f \o last) = Credits /\ Tail(<<Credits>> \o f \o last) = f \o last
  <2> TAKE f \in Frm, last \in Lst
  <2>1. <<Credits>> \in Seq(Packets) /\ f \in Seq(Packets) /\ last \in Seq(Packets)
    BY <1>1, <1>2
  <2>2. f \o last \in Seq(Packets)
    BY <2>1, ConcatProperties
  <2>3. <<Credits>> \o f \o last = <<Credits>> \o (f \o last)
    BY <2>1, ConcatAssociative
  <2> QED
    BY <1>1, <2>2, <2>3, OneCat
<1>6. \A r \in OnData : r.out \in Seq(Packets) /\ r.out # <<>>
  <2> TAKE r \in OnData
  <2>1. PICK f \in Frm, last \in Lst : r = Reply(<<Credits>> \o f \o last, st, act)
    BY <1>4
  <2> DEFINE o == <<Credits>> \o f \o last
  <2>2. r = Reply(o, st, act) /\ o \in Seq(Packets) /\ o # <<>>
    BY <1>5, <2>1
  <2> HIDE DEF o
  <2> QED
    BY <2>2, ReplyFields
<1>7. PICK r \in OnData : answer' = Head(r.out) /\ out' = Tail(r.out) /\ st' = r.st /\ act' = r.act
  BY <1>6, Exchanged
<1>8. PICK f \in Frm, last \in Lst :
         /\ r = Reply(<<Credits>> \o f \o last, st, act)
         /\ Protocol[act] # "isodep" => f = <<>>
         /\ act \in field => last = <<Data(0)>>
  BY <1>4
<1>9. out' = f \o last /\ answer' = Credits /\ st' = st /\ act' = act
  <2> DEFINE o == <<Credits>> \o f \o last
  <2>1. r = Reply(o, st, act) /\ Head(o) = Credits /\ Tail(o) = f \o last
    BY <1>5, <1>8
  <2> HIDE DEF o
  <2>2. r.out = o /\ r.st = st /\ r.act = act
    BY <2>1, ReplyFields
  <2> QED
    BY <1>7, <2>1, <2>2
<1>10. fresh' = TRUE /\ found' = found /\ field' = field /\ answer' \in Packets /\ out' \in Seq(Packets)
  BY <1>6, Exchanged
<1>11. /\ f \in Seq(Packets) /\ last \in Seq(Packets) /\ Len(last) \in {0, 1}
       /\ \A i \in 1 .. Len(f) : f[i].b0 = "10"
       /\ \A i \in 1 .. Len(last) : last[i].b0 \in {"00", "60"}
  BY <1>2
<1>12. /\ Len(f) \in Nat /\ Len(f \o last) = Len(f) + Len(last)
       /\ \A i \in 1 .. Len(f) + Len(last) : (f \o last)[i] = IF i <= Len(f) THEN f[i] ELSE last[i - Len(f)]
  BY <1>11, ConcatProperties
<1>13. \A i \in 1 .. Len(out') : out'[i].b0 = "10" \/ (out'[i].b0 \in {"00", "60"} /\ i = Len(out'))
  BY <1>9, <1>11, <1>12
<1>14. act \in field => out' # <<>> /\ out'[Len(out')].b0 = "00"
  <2> SUFFICES ASSUME act \in field PROVE out' # <<>> /\ out'[Len(out')].b0 = "00"
    OBVIOUS
  <2>1. Len(last) = 1 /\ last[1].b0 = "00"
    BY <1>3, <1>8, PacketFields
  <2>2. Len(out') = Len(f) + 1
    BY <1>9, <1>12, <2>1
  <2> QED
    BY <1>9, <1>11, <1>12, <2>1, <2>2
<1>15. Protocol[act] # "isodep" =>
         /\ out' \in Lasts
         /\ act \in field => out' = <<Data(0)>>
  BY <1>8, <1>9, <1>11, EmptyCat DEF Lst
<1> QED
  BY <1>9, <1>10, <1>13, <1>14, <1>15

LEMMA SendsInVain ==
  ASSUME TypeOK, out = <<>>, st # "active", Transceive(OnData) \/ Transceive(OnPresence)
  PROVE  /\ out' = <<>> /\ st' = st /\ act' = act /\ answer' = GenericError
         /\ fresh' = TRUE /\ found' = found /\ field' = field
         /\ answer' \in Packets /\ out' \in Seq(Packets)
PROOF
<1>1. GenericError \in Packets
  BY PacketTypes
<1>2. OnData = {Reply(<<GenericError>>, st, act)} /\ OnPresence = {Reply(<<GenericError>>, st, act)}
  BY DEF OnData, OnPresence
<1> DEFINE o == <<GenericError>>
           r == Reply(o, st, act)
           R == {r}
<1>3. o \in Seq(Packets) /\ o # <<>> /\ Head(o) = GenericError /\ Tail(o) = <<>>
  BY <1>1, OneOf
<1>4. Transceive(R)
  BY <1>2
<1> HIDE DEF o
<1>5. r.out = o /\ r.st = st /\ r.act = act
  BY ReplyFields
<1> HIDE DEF r
<1>6. \A q \in R : q.out \in Seq(Packets) /\ q.out # <<>>
  BY <1>3, <1>5
<1>7. \A q \in R : q = r
  OBVIOUS
<1> HIDE DEF R
<1>8. PICK q \in R : answer' = Head(q.out) /\ out' = Tail(q.out) /\ st' = q.st /\ act' = q.act
  BY <1>4, <1>6, Exchanged
<1>9. fresh' = TRUE /\ found' = found /\ field' = field /\ answer' \in Packets /\ out' \in Seq(Packets)
  BY <1>4, <1>6, Exchanged
<1> QED
  BY <1>3, <1>5, <1>7, <1>8, <1>9

LEMMA PollsIsoDep ==
  ASSUME TypeOK, out = <<>>, st = "active", Transceive(OnPresence)
  PROVE  /\ out' \in {<<PresenceNtf(0)>>, <<PresenceNtf(1)>>}
         /\ act \in field => out' = <<PresenceNtf(1)>>
         /\ answer' = PresenceRsp /\ st' = st /\ act' = act
         /\ fresh' = TRUE /\ found' = found /\ field' = field
         /\ answer' \in Packets /\ out' \in Seq(Packets)
PROOF
<1> DEFINE p == PresenceNtf(IF act \in field THEN 1 ELSE 0)
<1>1. PresenceRsp \in Packets /\ PresenceNtf(0) \in Packets /\ PresenceNtf(1) \in Packets
  BY PacketTypes
<1>2. p \in Packets
  BY <1>1
<1>3. OnPresence = {Reply(<<PresenceRsp, p>>, st, act)}
  BY DEF OnPresence
<1>4. p \in {PresenceNtf(0), PresenceNtf(1)} /\ (act \in field => p = PresenceNtf(1))
  OBVIOUS
<1> HIDE DEF p
<1> DEFINE o == <<PresenceRsp, p>>
<1>5. /\ o \in Seq(Packets) /\ o # <<>>
      /\ Head(o) = PresenceRsp /\ Tail(o) = <<p>>
  BY <1>1, <1>2, TwoOf
<1> HIDE DEF o
<1>6. \A r \in OnPresence : r.out = o /\ r.st = st /\ r.act = act
  BY <1>3, ReplyFields DEF o
<1>7. /\ out' = <<p>> /\ answer' = PresenceRsp /\ st' = st /\ act' = act
      /\ fresh' = TRUE /\ found' = found /\ field' = field
      /\ answer' \in Packets /\ out' \in Seq(Packets)
  BY <1>5, <1>6, Exchanged
<1> QED
  BY <1>4, <1>7

LEMMA PollsInVain ==
  ASSUME TypeOK, out = <<>>, st # "active", Transceive(OnPolling)
  PROVE  /\ out' = <<>> /\ st' = st /\ act' = act /\ answer' = Rsp(8, 1)
         /\ fresh' = TRUE /\ found' = found /\ field' = field
         /\ answer' \in Packets /\ out' \in Seq(Packets)
PROOF
<1>1. Rsp(8, 1) \in Packets
  BY PacketTypes
<1>2. OnPolling = {Reply(<<Rsp(8, 1)>>, st, act)}
  BY DEF OnPolling, Refused
<1> DEFINE o == <<Rsp(8, 1)>>
           r == Reply(o, st, act)
           R == {r}
<1>3. o \in Seq(Packets) /\ o # <<>> /\ Head(o) = Rsp(8, 1) /\ Tail(o) = <<>>
  BY <1>1, OneOf
<1>4. Transceive(R)
  BY <1>2
<1> HIDE DEF o
<1>5. r.out = o /\ r.st = st /\ r.act = act
  BY ReplyFields
<1> HIDE DEF r
<1>6. \A q \in R : q.out \in Seq(Packets) /\ q.out # <<>>
  BY <1>3, <1>5
<1>7. \A q \in R : q = r
  OBVIOUS
<1> HIDE DEF R
<1>8. PICK q \in R : answer' = Head(q.out) /\ out' = Tail(q.out) /\ st' = q.st /\ act' = q.act
  BY <1>4, <1>6, Exchanged
<1>9. fresh' = TRUE /\ found' = found /\ field' = field /\ answer' \in Packets /\ out' \in Seq(Packets)
  BY <1>4, <1>6, Exchanged
<1> QED
  BY <1>3, <1>5, <1>7, <1>8, <1>9

LEMMA PollsT3T ==
  ASSUME TypeOK, out = <<>>, st = "active", Transceive(OnPolling)
  PROVE  /\ out' \in {<<PollingNtf(1)>>, <<PollingNtf(0)>>}
         /\ act \in field => out' = <<PollingNtf(0)>>
         /\ answer' = Rsp(8, 0) /\ st' = st /\ act' = act
         /\ fresh' = TRUE /\ found' = found /\ field' = field
         /\ answer' \in Packets /\ out' \in Seq(Packets)
PROOF
<1> DEFINE p == PollingNtf(IF act \in field THEN 0 ELSE 1)
<1>1. Rsp(8, 0) \in Packets /\ PollingNtf(1) \in Packets /\ PollingNtf(0) \in Packets
  BY PacketTypes
<1>2. p \in Packets
  BY <1>1
<1>3. OnPolling = {Reply(<<Rsp(8, 0), p>>, st, act)}
  BY DEF OnPolling
<1>4. p \in {PollingNtf(1), PollingNtf(0)} /\ (act \in field => p = PollingNtf(0))
  OBVIOUS
<1> HIDE DEF p
<1> DEFINE o == <<Rsp(8, 0), p>>
<1>5. /\ o \in Seq(Packets) /\ o # <<>>
      /\ Head(o) = Rsp(8, 0) /\ Tail(o) = <<p>>
  BY <1>1, <1>2, TwoOf
<1> HIDE DEF o
<1>6. \A r \in OnPolling : r.out = o /\ r.st = st /\ r.act = act
  BY <1>3, ReplyFields DEF o
<1>7. /\ out' = <<p>> /\ answer' = Rsp(8, 0) /\ st' = st /\ act' = act
      /\ fresh' = TRUE /\ found' = found /\ field' = field
      /\ answer' \in Packets /\ out' \in Seq(Packets)
  BY <1>5, <1>6, Exchanged
<1> QED
  BY <1>4, <1>7

LEMMA SameAnnouncements ==
  ASSUME found' = found
  PROVE  Announcements' = Announcements
BY DEF Announcements, Announcement, Discovered

(* The task hears the discovery it waits for, or nothing yet.                *)
LEMMA WaitsOn ==
  ASSUME TypeOK, Field, Awaits(<<>>), Receive
  PROVE  /\ \/ fresh' = FALSE /\ answer' = answer /\ st' = "discovering" /\ out' = <<>>
            \/ /\ fresh' = TRUE /\ answer' = Activated(act) /\ act \in Tags
               /\ st' = "active" /\ Len(found) = 1 /\ out' = <<>>
            \/ /\ fresh' = TRUE /\ answer'.b0 = "61" /\ answer'.b1 = 3 /\ answer'.tag = found[1]
               /\ st' = "select" /\ Len(found) > 1 /\ out' = SubSeq(Announcements, 2, Len(found))
         /\ found' = found /\ act' = act /\ field' = field
         /\ answer' \in Packets /\ out' \in Seq(Packets)
PROOF
<1>1. /\ found' = found /\ act' = act /\ field' = field /\ st' = st
      /\ answer' \in Packets /\ out' \in Seq(Packets)
  BY Listened
<1>2. CASE st = "discovering" /\ out = <<>>
  BY <1>1, <1>2, Listened
<1>3. CASE st = "active" /\ Len(found) = 1 /\ out = <<>> \o <<Activated(act)>>
  <2>1. act \in Tags
    BY <1>3 DEF Field, TypeOK
  <2>2. Activated(act) \in Packets
    BY <2>1, PacketTypes
  <2>3. out = <<Activated(act)>>
    BY <1>3, <2>2, EmptyCat
  <2> QED
    BY <1>1, <1>3, <2>1, <2>2, <2>3, HeardOne
<1>4. CASE st = "select" /\ Len(found) > 1 /\ out = <<>> \o Announcements
  <2>1. found \in Seq(Tags) /\ Len(found) \in Nat
    BY DEF TypeOK
  <2>2. /\ Announcements \in Seq(Packets) /\ Len(Announcements) = Len(found)
        /\ Announcements[1].b0 = "61" /\ Announcements[1].b1 = 3 /\ Announcements[1].tag = found[1]
    BY <1>4, <2>1, AnnouncementsType
  <2>3. out = Announcements
    BY <1>4, <2>2, EmptyCat
  <2>4. Announcements # <<>>
    BY <1>4, <2>2
  <2>5. Head(Announcements) = Announcements[1] /\ Tail(Announcements) = SubSeq(Announcements, 2, Len(found))
    BY <2>2, <2>4, HeadTail, TailIsSubSeq
  <2> QED
    BY <1>1, <1>4, <2>2, <2>3, <2>4, <2>5, Listened
<1> QED
  BY <1>2, <1>3, <1>4 DEF Awaits

(* It takes the packet before first.                                         *)
LEMMA WaitsPast ==
  ASSUME TypeOK, Field, NEW x \in Packets, Awaits(<<x>>), Receive
  PROVE  /\ fresh' = TRUE /\ answer' = x /\ Awaits(<<>>)'
         /\ st' = st /\ found' = found /\ act' = act /\ field' = field
         /\ answer' \in Packets /\ out' \in Seq(Packets)
PROOF
<1>1. /\ found' = found /\ act' = act /\ field' = field /\ st' = st
      /\ answer' \in Packets /\ out' \in Seq(Packets)
  BY Listened
<1>2. Announcements' = Announcements
  BY <1>1, SameAnnouncements
<1>3. ASSUME NEW s \in Seq(Packets), out = <<x>> \o s
      PROVE  fresh' = TRUE /\ answer' = x /\ out' = <<>> \o s
  <2>1. out # <<>> /\ Head(out) = x /\ Tail(out) = s
    BY <1>3, OneCat
  <2>2. <<>> \o s = s
    BY EmptyCat
  <2> QED
    BY <2>1, <2>2, Listened
<1>4. CASE st = "discovering" /\ out = <<x>>
  BY <1>1, <1>4, HeardOne DEF Awaits
<1>5. CASE st = "active" /\ Len(found) = 1 /\ out = <<x>> \o <<Activated(act)>>
  <2>1. Activated(act) \in Packets
    BY <1>5, PacketTypes DEF Field, TypeOK
  <2>2. <<Activated(act)>> \in Seq(Packets)
    BY <2>1
  <2>3. Activated(act)' = Activated(act)
    BY <1>1 DEF Activated
  <2> QED
    BY <1>1, <1>3, <1>5, <2>2, <2>3 DEF Awaits
<1>6. CASE st = "select" /\ Len(found) > 1 /\ out = <<x>> \o Announcements
  <2>1. Announcements \in Seq(Packets)
    BY AnnouncementsType DEF TypeOK
  <2> QED
    BY <1>1, <1>2, <1>3, <1>6, <2>1 DEF Awaits
<1> QED
  BY <1>4, <1>5, <1>6 DEF Awaits

-----------------------------------------------------------------------------
(* The initial state, and types *)

LEMMA InitInv ==
  ASSUME Init
  PROVE  IInv
PROOF
<1>1. Rsp(0, 0) \in Packets
  BY DEF Rsp, Packet, Packets
<1>2. TypeOK
  <2>1. <<>> \in Seq(Packets) /\ <<>> \in Seq(Tags) /\ 0 \in 0 .. MaxReads
    BY LinkAssumption
  <2>2. pc \in Locations /\ answer \in Packets /\ fresh \in BOOLEAN
    BY <1>1 DEF Init, Locations
  <2>3. rf \in [known : BOOLEAN, tag : Tags \cup {NoTag}, more : BOOLEAN]
    BY DEF Init, Unknown
  <2> QED
    BY <2>1, <2>2, <2>3 DEF Init, TypeOK
<1>3. Queue /\ Answered
  BY DEF Init, Queue, Answered
<1>4. Tracked /\ Progress /\ Field
  BY DEF Init, Tracked, Progress, Field, Selecting, Handed, Advancing, Polling
<1> QED
  BY <1>2, <1>3, <1>4 DEF IInv

(* What a step of the host keeps that sends or receives.                     *)
LEMMA HostTypes ==
  ASSUME TypeOK, pc' \in Locations,
         rf' \in RfType, next_tag' \in Tags \cup {NoTag}, saved' \in Tags \cup {NoTag},
         reads' \in 0 .. MaxReads, present' \in BOOLEAN, reported' \subseteq Tags, stayed' = stayed,
         answer' \in Packets, fresh' \in BOOLEAN, out' \in Seq(Packets),
         st' \in {"idle", "discovering", "select", "active"}, act' \in Tags \cup {NoTag},
         found' = found, field' = field
  PROVE  TypeOK'
BY DEF TypeOK, RfType

LEMMA LinkTypes ==
  ASSUME TypeOK, pc' \in Locations, UNCHANGED <<rf, next_tag, saved, reads, histVars>>,
         answer' \in Packets, fresh' \in BOOLEAN, out' \in Seq(Packets),
         st' \in {"idle", "discovering", "select", "active"}, act' \in Tags \cup {NoTag},
         found' = found, field' = field
  PROVE  TypeOK'
PROOF
<1>1. /\ rf' \in RfType /\ next_tag' \in Tags \cup {NoTag} /\ saved' \in Tags \cup {NoTag}
      /\ reads' \in 0 .. MaxReads /\ present' \in BOOLEAN /\ reported' \subseteq Tags /\ stayed' = stayed
  BY DEF TypeOK, RfType, histVars
<1> QED
  BY <1>1, HostTypes

LEMMA SameField ==
  ASSUME Field, st' = st, act' = act, found' = found, field' = field, stayed' = stayed
  PROVE  Field'
BY DEF Field

(* Nothing is claimed of the tags while discovery is stopped or awaited.     *)
LEMMA NothingKnown ==
  ASSUME pc' \in {"start", "wait", "flush", "stop"}
  PROVE  Answered' /\ Tracked' /\ Progress'
BY DEF Answered, Tracked, Progress, Selecting, Handed, Advancing, Polling

LEMMA Rechecking ==
  ASSUME pc' \in {"recheck", "recheck_ntf", "recheck_wait"},
         rf'.known, ~rf'.more, rf'.tag \in Tags, Protocol[rf'.tag] = "isodep",
         saved' \in Tags, Protocol[saved'] = "isodep"
  PROVE  Answered' /\ Tracked' /\ Progress'
BY DEF Answered, Tracked, Progress, Selecting, Handed, Advancing, Polling

-----------------------------------------------------------------------------
(* Discovery *)

LEMMA StartDiscoveryInv ==
  ASSUME IInv, StartDiscovery
  PROVE  IInv'
PROOF
<1>1. /\ pc' = "wait" /\ Transceive(OnDiscover) /\ UNCHANGED <<rf, next_tag, saved, reads, histVars>>
      /\ TypeOK /\ Field /\ st = "idle" /\ out \in {<<>>, <<Deactivated>>}
  BY DEF StartDiscovery, At, IInv, Queue
<1>2. Rsp(3, 0) \in Packets /\ Deactivated \in Packets
  BY PacketTypes
<1> DEFINE o == <<Rsp(3, 0)>>
           r == Reply(o, "discovering", NoTag)
<1>3. OnDiscover = {r}
  BY <1>1 DEF OnDiscover
<1>4. o \in Seq(Packets) /\ o # <<>> /\ Head(o) = Rsp(3, 0) /\ Tail(o) = <<>>
  BY <1>2, OneOf
<1>5. r.out = o /\ r.st = "discovering" /\ r.act = NoTag
  BY ReplyFields
<1> HIDE DEF r
<1>6. Take(out \o o) /\ st' = "discovering" /\ act' = NoTag /\ found' = found /\ field' = field
  BY <1>1, <1>3, <1>5 DEF Transceive
<1> HIDE DEF o
<1>7. /\ answer' \in Packets /\ fresh' = TRUE /\ out' \in Seq(Packets)
      /\ out' \in {<<>>, o}
  <2>1. CASE out = <<>>
    <3>1. out \o o = o
      BY <1>4, <2>1, EmptyCat
    <3> QED
      BY <1>2, <1>4, <1>6, <3>1 DEF Take
  <2>2. CASE out = <<Deactivated>>
    <3>1. Head(out \o o) = Deactivated /\ Tail(out \o o) = o
      BY <1>2, <1>4, <2>2, OneCat
    <3> QED
      BY <1>2, <1>4, <1>6, <3>1 DEF Take
  <2> QED
    BY <1>1, <2>1, <2>2
<1>8. TypeOK'
  BY <1>1, <1>6, <1>7, LinkTypes DEF Locations
<1>9. Queue'
  BY <1>1, <1>6, <1>7 DEF Queue, Awaits, o
<1>10. Field'
  BY <1>1, <1>6 DEF Field, histVars, TypeOK
<1> QED
  BY <1>1, <1>8, <1>9, <1>10, NothingKnown DEF IInv

LEMMA StopDiscoveryInv ==
  ASSUME IInv, StopDiscovery
  PROVE  IInv'
PROOF
<1>1. /\ pc' = "start" /\ Transceive(OnDeactivate("idle"))
      /\ UNCHANGED <<rf, next_tag, saved, reads, histVars>>
      /\ TypeOK /\ Field /\ st \in {"active", "select"} /\ out = <<>>
  BY DEF StopDiscovery, At, IInv, Queue
<1>2. /\ out' \in {<<>>, <<Deactivated>>} /\ st' = "idle" /\ act' = NoTag /\ fresh' = TRUE
      /\ found' = found /\ field' = field /\ answer' \in Packets /\ out' \in Seq(Packets)
  BY <1>1, Deactivates
<1>3. TypeOK'
  BY <1>1, <1>2, LinkTypes DEF Locations
<1>4. Queue'
  BY <1>1, <1>2 DEF Queue
<1>5. Field'
  BY <1>1, <1>2 DEF Field, histVars
<1> QED
  BY <1>1, <1>3, <1>4, <1>5, NothingKnown DEF IInv

(* What the task hears while it waits for a discovery.                       *)
LEMMA WaitHears ==
  ASSUME IInv, pc = "wait", Receive
  PROVE  /\ \/ ~(fresh' /\ Is("61", 5)) /\ ~(fresh' /\ Is("61", 3)) /\ Awaits(<<>>)'
            \/ /\ fresh' = TRUE /\ answer'.b0 = "61" /\ answer'.b1 = 5
               /\ answer'.tag = act /\ act \in Tags
               /\ st' = "active" /\ Len(found) = 1 /\ out' = <<>>
            \/ /\ fresh' = TRUE /\ answer'.b0 = "61" /\ answer'.b1 = 3
               /\ answer'.tag = found[1] /\ found[1] \in Tags
               /\ st' = "select" /\ Len(found) > 1 /\ out' = SubSeq(Announcements, 2, Len(found))
         /\ st' = st /\ found' = found /\ act' = act /\ field' = field
         /\ answer' \in Packets /\ fresh' \in BOOLEAN /\ out' \in Seq(Packets)
PROOF
<1>1. TypeOK /\ Field /\ (Awaits(<<>>) \/ Awaits(<<Rsp(3, 0)>>))
  BY DEF IInv, Queue
<1>2. /\ st' = st /\ found' = found /\ act' = act /\ field' = field
      /\ answer' \in Packets /\ fresh' \in BOOLEAN /\ out' \in Seq(Packets)
  BY <1>1, Listened
<1>3. Len(found) > 1 => found[1] \in Tags
  BY <1>1 DEF TypeOK
<1>4. CASE Awaits(<<>>)
  <2>1. CASE fresh' = FALSE /\ answer' = answer /\ st' = "discovering" /\ out' = <<>>
    BY <1>2, <2>1 DEF Awaits
  <2>2. CASE /\ fresh' = TRUE /\ answer' = Activated(act) /\ act \in Tags
             /\ st' = "active" /\ Len(found) = 1 /\ out' = <<>>
    BY <1>2, <2>2, PacketFields
  <2>3. CASE /\ fresh' = TRUE /\ answer'.b0 = "61" /\ answer'.b1 = 3 /\ answer'.tag = found[1]
             /\ st' = "select" /\ Len(found) > 1 /\ out' = SubSeq(Announcements, 2, Len(found))
    BY <1>2, <1>3, <2>3
  <2> QED
    BY <1>1, <1>4, <2>1, <2>2, <2>3, WaitsOn
<1>5. CASE Awaits(<<Rsp(3, 0)>>)
  <2>1. answer' = Rsp(3, 0) /\ Awaits(<<>>)'
    BY <1>1, <1>5, PacketTypes, WaitsPast
  <2>2. answer'.b0 = "41"
    BY <2>1, PacketFields
  <2> QED
    BY <1>2, <2>1, <2>2 DEF Is
<1> QED
  BY <1>1, <1>4, <1>5

LEMMA WaitSkipsInv ==
  ASSUME IInv, WaitSkips
  PROVE  IInv'
PROOF
<1>1. /\ pc = "wait" /\ pc' = "wait" /\ Receive /\ (fresh' => ~Is("61", 5) /\ ~Is("61", 3))
      /\ UNCHANGED <<rf, next_tag, saved, reads, histVars>> /\ TypeOK /\ Field
  BY DEF WaitSkips, At, IInv
<1>2. /\ Awaits(<<>>)' /\ st' = st /\ found' = found /\ act' = act /\ field' = field
      /\ answer' \in Packets /\ fresh' \in BOOLEAN /\ out' \in Seq(Packets)
  BY <1>1, WaitHears DEF Is
<1>3. TypeOK'
  BY <1>1, <1>2, LinkTypes DEF Locations, TypeOK
<1>4. Queue'
  BY <1>1, <1>2 DEF Queue
<1>5. Field'
  BY <1>1, <1>2, SameField DEF histVars
<1> QED
  BY <1>1, <1>3, <1>4, <1>5, NothingKnown DEF IInv

LEMMA WaitActivatedInv ==
  ASSUME IInv, WaitActivated
  PROVE  IInv'
PROOF
<1>1. /\ pc = "wait" /\ Receive /\ fresh' /\ Is("61", 5) /\ next_tag' = NoTag
      /\ rf' = [known |-> TRUE, tag |-> answer'.tag, more |-> FALSE]
      /\ reads' = reads /\ present' = present /\ reported' = reported /\ stayed' = stayed
      /\ TypeOK /\ Field
  BY DEF WaitActivated, IInv, histVars
<1>2. /\ fresh' = TRUE /\ answer'.tag = act /\ act \in Tags
      /\ st' = "active" /\ Len(found) = 1 /\ out' = <<>>
      /\ st' = st /\ found' = found /\ act' = act /\ field' = field
      /\ answer' \in Packets /\ out' \in Seq(Packets)
  BY <1>1, WaitHears DEF Is
<1>3. \/ Protocol[act] = "isodep" /\ saved' = act /\ pc' = "recheck"
      \/ Protocol[act] # "isodep" /\ pc' = "reader" /\ saved' = saved
  BY <1>2 DEF WaitActivated
<1>4. rf' \in RfType /\ rf'.known = TRUE /\ rf'.tag = act /\ rf'.more = FALSE
  BY <1>1, <1>2 DEF RfType
<1>5. TypeOK'
  <2>1. pc' \in Locations /\ saved' \in Tags \cup {NoTag} /\ next_tag' \in Tags \cup {NoTag}
    BY <1>1, <1>2, <1>3 DEF Locations, TypeOK
  <2>2. /\ reads' \in 0 .. MaxReads /\ present' \in BOOLEAN /\ reported' \subseteq Tags
        /\ st' \in {"idle", "discovering", "select", "active"} /\ act' \in Tags \cup {NoTag}
    BY <1>1, <1>2 DEF TypeOK
  <2> QED
    BY <1>1, <1>2, <1>4, <2>1, <2>2, HostTypes
<1>6. Queue'
  BY <1>2, <1>3 DEF Queue
<1>7. Field'
  BY <1>1, <1>2, SameField
<1>8. Answered' /\ Tracked' /\ Progress'
  <2>1. CASE pc' = "recheck"
    BY <1>2, <1>3, <1>4, <2>1, Rechecking
  <2>2. CASE pc' = "reader"
    <3>1. Answered'
      BY <2>2 DEF Answered
    <3>2. Tracked'
      BY <1>2, <1>4, <2>2 DEF Tracked, Selecting, Handed, Advancing, Polling
    <3>5. Len(found') = 1
      BY <1>2
    <3>3. ~(Len(found') > 1)
      BY <3>5
    <3>4. Progress'
      BY <3>3 DEF Progress
    <3> QED
      BY <3>1, <3>2, <3>4
  <2> QED
    BY <1>3, <2>1, <2>2
<1> QED
  BY <1>5, <1>6, <1>7, <1>8 DEF IInv

LEMMA WaitDiscoveredInv ==
  ASSUME IInv, WaitDiscovered
  PROVE  IInv'
PROOF
<1>1. /\ pc = "wait" /\ pc' = "next_ntf" /\ Receive /\ fresh' /\ Is("61", 3) /\ next_tag' = NoTag
      /\ rf' = [known |-> FALSE, tag |-> answer'.tag, more |-> TRUE]
      /\ saved' = saved /\ reads' = reads
      /\ present' = present /\ reported' = reported /\ stayed' = stayed
      /\ TypeOK /\ Field
  BY DEF WaitDiscovered, At, IInv, histVars
<1>2. /\ fresh' = TRUE /\ answer'.tag = found[1] /\ found[1] \in Tags
      /\ st' = "select" /\ Len(found) > 1 /\ out' = SubSeq(Announcements, 2, Len(found))
      /\ st' = st /\ found' = found /\ act' = act /\ field' = field
      /\ answer' \in Packets /\ out' \in Seq(Packets)
  BY <1>1, WaitHears DEF Is
<1>3. rf' \in RfType /\ rf'.known = FALSE /\ rf'.tag = found[1] /\ rf'.more = TRUE
  BY <1>1, <1>2 DEF RfType
<1>4. TypeOK'
  <2>1. /\ pc' \in Locations /\ saved' \in Tags \cup {NoTag} /\ next_tag' \in Tags \cup {NoTag}
        /\ reads' \in 0 .. MaxReads /\ present' \in BOOLEAN /\ reported' \subseteq Tags
        /\ st' \in {"idle", "discovering", "select", "active"} /\ act' \in Tags \cup {NoTag}
    BY <1>1, <1>2 DEF Locations, TypeOK
  <2> QED
    BY <1>1, <1>2, <1>3, <2>1, HostTypes
<1>5. Queue'
  <2>1. Announcements' = Announcements
    BY <1>2, SameAnnouncements
  <2> QED
    BY <1>1, <1>2, <2>1 DEF Queue
<1>6. Field'
  BY <1>1, <1>2, SameField
<1>7. Answered' /\ Progress'
  BY <1>1 DEF Answered, Progress, Handed, Advancing, Polling
<1>8. Tracked'
  BY <1>1, <1>2, <1>3 DEF Tracked, Selecting, Handed, Advancing, Polling
<1> QED
  BY <1>4, <1>5, <1>6, <1>7, <1>8 DEF IInv

LEMMA RecheckInv ==
  ASSUME IInv, Recheck
  PROVE  IInv'
PROOF
<1>1. /\ pc = "recheck" /\ pc' = "recheck_ntf" /\ Transceive(OnDeactivate("discovering"))
      /\ UNCHANGED <<rf, next_tag, saved, reads, histVars>>
      /\ TypeOK /\ Field /\ st = "active" /\ out = <<>>
  BY DEF Recheck, At, IInv, Queue
<1>2. /\ out' = <<Deactivated>> /\ st' = "discovering" /\ act' = NoTag /\ fresh' = TRUE
      /\ found' = found /\ field' = field /\ answer' \in Packets /\ out' \in Seq(Packets)
  BY <1>1, Deactivates
<1>3. TypeOK'
  BY <1>1, <1>2, LinkTypes DEF Locations
<1>4. Queue'
  BY <1>1, <1>2 DEF Queue, Awaits
<1>5. Field'
  BY <1>1, <1>2 DEF Field, histVars
<1>6. Answered' /\ Tracked' /\ Progress'
  BY <1>1, Rechecking DEF IInv, Tracked
<1> QED
  BY <1>3, <1>4, <1>5, <1>6 DEF IInv

LEMMA RecheckNtfInv ==
  ASSUME IInv, RecheckNtf
  PROVE  IInv'
PROOF
<1>1. /\ pc = "recheck_ntf" /\ pc' = "recheck_wait" /\ Receive
      /\ UNCHANGED <<rf, next_tag, saved, reads, histVars>>
      /\ TypeOK /\ Field /\ Awaits(<<Deactivated>>)
  BY DEF RecheckNtf, At, IInv, Queue
<1>2. /\ fresh' = TRUE /\ Awaits(<<>>)' /\ st' = st /\ found' = found /\ act' = act /\ field' = field
      /\ answer' \in Packets /\ out' \in Seq(Packets)
  BY <1>1, PacketTypes, WaitsPast
<1>3. TypeOK'
  BY <1>1, <1>2, LinkTypes DEF Locations, TypeOK
<1>4. Queue'
  BY <1>1, <1>2 DEF Queue
<1>5. Field'
  BY <1>1, <1>2, SameField DEF histVars
<1>6. Answered' /\ Tracked' /\ Progress'
  BY <1>1, Rechecking DEF IInv, Tracked
<1> QED
  BY <1>3, <1>4, <1>5, <1>6 DEF IInv

LEMMA RecheckWaitInv ==
  ASSUME IInv, RecheckWait
  PROVE  IInv'
PROOF
<1>1. /\ pc = "recheck_wait" /\ Receive
      /\ rf' = rf /\ next_tag' = next_tag /\ saved' = saved /\ reads' = reads
      /\ present' = present /\ reported' = reported /\ stayed' = stayed
      /\ UNCHANGED <<rf, next_tag, saved, reads, histVars>>
      /\ TypeOK /\ Field /\ Awaits(<<>>)
  BY DEF RecheckWait, IInv, Queue, histVars
<1>2. /\ rf.known /\ ~rf.more /\ rf.tag \in Tags /\ Protocol[rf.tag] = "isodep"
      /\ saved \in Tags /\ Protocol[saved] = "isodep"
  BY <1>1 DEF IInv, Tracked
<1>3. /\ st' = st /\ found' = found /\ act' = act /\ field' = field
      /\ answer' \in Packets /\ fresh' \in BOOLEAN /\ out' \in Seq(Packets)
  BY <1>1, Listened
<1>4. pc' = IF ~fresh' THEN "wait"
            ELSE IF Is("60", 7) THEN "recheck_wait"
            ELSE IF ~Is("61", 5) THEN "flush"
            ELSE IF SameDevice(saved, answer'.tag) THEN "reader" ELSE "recheck"
  BY DEF RecheckWait
<1>5. TypeOK'
  BY <1>1, <1>3, <1>4, LinkTypes DEF Locations, TypeOK
<1>6. Field'
  BY <1>1, <1>3, SameField
<1>7. CASE fresh' = FALSE /\ st' = "discovering" /\ out' = <<>>
  <2>1. pc' = "wait"
    BY <1>4, <1>7
  <2>2. Queue'
    BY <1>7, <2>1 DEF Queue, Awaits
  <2> QED
    BY <1>5, <1>6, <2>1, <2>2, NothingKnown DEF IInv
<1>8. CASE /\ fresh' = TRUE /\ answer' = Activated(act) /\ act \in Tags
           /\ st' = "active" /\ Len(found) = 1 /\ out' = <<>>
  <2>1. answer'.b0 = "61" /\ answer'.b1 = 5 /\ answer'.tag = act
    BY <1>8, PacketFields
  <2>2. \/ pc' = "reader" /\ Protocol[act] = "isodep"
        \/ pc' = "recheck"
    BY <1>2, <1>4, <1>8, <2>1, LinkAssumption DEF Is, SameDevice
  <2>3. Queue'
    BY <1>8, <2>2 DEF Queue
  <2>4. CASE pc' = "reader" /\ Protocol[act] = "isodep"
    <3>1. Answered'
      BY <2>4 DEF Answered
    <3>2. Tracked'
      BY <1>1, <1>2, <1>3, <1>8, <2>4 DEF Tracked, Selecting, Handed, Advancing, Polling
    <3>3. Progress'
      BY <1>3, <1>8 DEF Progress
    <3> QED
      BY <1>5, <1>6, <2>3, <3>1, <3>2, <3>3 DEF IInv
  <2>5. CASE pc' = "recheck"
    BY <1>1, <1>2, <1>5, <1>6, <2>3, <2>5, Rechecking DEF IInv
  <2> QED
    BY <2>2, <2>4, <2>5
<1>9. CASE fresh' = TRUE /\ answer'.b0 = "61" /\ answer'.b1 = 3 /\ st' = "select"
  <2>1. pc' = "flush"
    BY <1>4, <1>9 DEF Is
  <2>2. Queue'
    BY <1>9, <2>1 DEF Queue
  <2> QED
    BY <1>5, <1>6, <2>1, <2>2, NothingKnown DEF IInv
<1> QED
  BY <1>1, <1>7, <1>8, <1>9, WaitsOn

LEMMA FlushInv ==
  ASSUME IInv, Flush
  PROVE  IInv'
PROOF
<1>1. /\ pc' = "flush" /\ Receive /\ UNCHANGED <<rf, next_tag, saved, reads, histVars>>
      /\ TypeOK /\ Field /\ st = "select"
  BY DEF Flush, At, IInv, Queue
<1>2. /\ st' = st /\ found' = found /\ act' = act /\ field' = field
      /\ answer' \in Packets /\ fresh' \in BOOLEAN /\ out' \in Seq(Packets)
  BY <1>1, Listened
<1>3. TypeOK'
  BY <1>1, <1>2, LinkTypes DEF Locations, TypeOK
<1>4. Queue'
  BY <1>1, <1>2 DEF Queue
<1>5. Field'
  BY <1>1, <1>2, SameField DEF histVars
<1> QED
  BY <1>1, <1>3, <1>4, <1>5, NothingKnown DEF IInv

-----------------------------------------------------------------------------
(* Several tags *)

(* The oldest announcement is read.                                          *)
LEMMA HearsAnnouncement ==
  ASSUME TypeOK, Receive, NEW k \in 2 .. Len(found), out = SubSeq(Announcements, k, Len(found))
  PROVE  /\ fresh' = TRUE /\ answer'.b0 = "61" /\ answer'.b1 = 3 /\ answer'.tag = found[k]
         /\ answer'.b3 = 2 <=> k # Len(found)
         /\ out' = SubSeq(Announcements, k + 1, Len(found))
         /\ k = Len(found) => out' = <<>>
PROOF
<1>1. found \in Seq(Tags) /\ Len(found) \in Nat /\ k \in 1 .. Len(found)
  BY DEF TypeOK
<1>2. Announcements \in Seq(Packets) /\ Len(Announcements) = Len(found)
  BY <1>1, AnnouncementsType
<1>3. /\ Announcements[k].b0 = "61" /\ Announcements[k].b1 = 3 /\ Announcements[k].tag = found[k]
      /\ Announcements[k].b3 = IF k = Len(found) THEN 0 ELSE 2
  BY <1>1, AnnouncementsType
<1>4. /\ out # <<>> /\ Head(out) = Announcements[k]
      /\ Tail(out) = SubSeq(Announcements, k + 1, Len(found))
      /\ k = Len(found) => Tail(out) = <<>>
  BY <1>1, <1>2, SuffixStep
<1>5. fresh' = TRUE /\ answer' = Announcements[k] /\ out' = Tail(out)
  BY <1>4, Listened
<1> QED
  BY <1>3, <1>4, <1>5

LEMMA NextNtfInv ==
  ASSUME IInv, NextNtf
  PROVE  IInv'
PROOF
<1>1. /\ pc = "next_ntf" /\ Receive
      /\ rf' = rf /\ saved' = saved /\ reads' = reads
      /\ present' = present /\ reported' = reported /\ stayed' = stayed
      /\ TypeOK /\ Field /\ st = "select" /\ out = SubSeq(Announcements, 2, Len(found))
  BY DEF NextNtf, IInv, Queue, histVars
<1>2. ~rf.known /\ rf.more /\ Len(found) > 1 /\ rf.tag = found[1]
  BY <1>1 DEF IInv, Tracked, Selecting
<1>3. Len(found) \in Nat /\ 2 \in 2 .. Len(found) /\ found[2] \in Tags
  BY <1>1, <1>2 DEF TypeOK
<1>4. /\ fresh' = TRUE /\ answer'.b0 = "61" /\ answer'.b1 = 3 /\ answer'.tag = found[2]
      /\ answer'.b3 = 2 <=> 2 # Len(found)
      /\ out' = SubSeq(Announcements, 3, Len(found))
      /\ 2 = Len(found) => out' = <<>>
  <2>1. 2 + 1 = 3
    OBVIOUS
  <2> QED
    BY <1>1, <1>3, <2>1, HearsAnnouncement, Zenon
<1>5. /\ st' = st /\ found' = found /\ act' = act /\ field' = field
      /\ answer' \in Packets /\ out' \in Seq(Packets)
  BY <1>1, Listened
<1>6. next_tag' = found[2] /\ pc' = IF answer'.b3 = 2 THEN "remaining" ELSE "select"
  BY <1>4 DEF NextNtf, Is
<1>7. TypeOK'
  <2>1. /\ pc' \in Locations /\ next_tag' \in Tags \cup {NoTag}
    BY <1>3, <1>6 DEF Locations
  <2>2. /\ rf' \in RfType /\ saved' \in Tags \cup {NoTag}
        /\ reads' \in 0 .. MaxReads /\ present' \in BOOLEAN /\ reported' \subseteq Tags
        /\ st' \in {"idle", "discovering", "select", "active"} /\ act' \in Tags \cup {NoTag}
    BY <1>1, <1>5 DEF TypeOK, RfType
  <2> QED
    BY <1>1, <1>4, <1>5, <2>1, <2>2, HostTypes
<1>8. Queue'
  <2>1. Announcements' = Announcements
    BY <1>5, SameAnnouncements
  <2>2. CASE pc' = "remaining"
    <3>1. 2 # Len(found)
      BY <1>4, <1>6, <2>2
    <3>2. Len(found) \in Nat /\ Len(found) > 1
      BY <1>2, <1>3
    <3>3. \A n \in Nat : n > 1 /\ n # 2 => 3 \in 3 .. n
      OBVIOUS
    <3>4. 3 \in 3 .. Len(found)
      BY <3>1, <3>2, <3>3, Zenon
    <3> QED
      BY <1>1, <1>4, <1>5, <2>1, <2>2, <3>4 DEF Queue
  <2>3. CASE pc' = "select"
    <3>1. out' = <<>>
      BY <1>4, <1>6, <2>3
    <3> QED
      BY <1>1, <1>5, <2>3, <3>1 DEF Queue
  <2> QED
    BY <1>6, <2>2, <2>3
<1>9. Field'
  BY <1>1, <1>5, SameField
<1>10. Answered' /\ Progress'
  BY <1>6 DEF Answered, Progress, Handed, Advancing, Polling
<1>11. Tracked'
  BY <1>1, <1>2, <1>5, <1>6 DEF Tracked, Selecting, Handed, Advancing, Polling
<1> QED
  BY <1>7, <1>8, <1>9, <1>10, <1>11 DEF IInv

LEMMA RemainingInv ==
  ASSUME IInv, Remaining
  PROVE  IInv'
PROOF
<1>1. /\ pc = "remaining" /\ Receive
      /\ rf' = rf /\ next_tag' = next_tag
      /\ UNCHANGED <<rf, next_tag, saved, reads, histVars>> /\ stayed' = stayed
      /\ TypeOK /\ Field /\ st = "select"
  BY DEF Remaining, IInv, Queue, histVars
<1>2. ~rf.known /\ rf.more /\ Len(found) > 1 /\ rf.tag = found[1] /\ next_tag = found[2]
  BY <1>1 DEF IInv, Tracked, Selecting
<1>3. PICK k \in 3 .. Len(found) : out = SubSeq(Announcements, k, Len(found))
  BY <1>1 DEF IInv, Queue
<1>4. Len(found) \in Nat /\ k \in 2 .. Len(found)
  BY <1>1 DEF TypeOK
<1>5. /\ fresh' = TRUE
      /\ answer'.b3 = 2 <=> k # Len(found)
      /\ out' = SubSeq(Announcements, k + 1, Len(found))
      /\ k = Len(found) => out' = <<>>
  BY <1>1, <1>3, <1>4, HearsAnnouncement
<1>6. /\ st' = st /\ found' = found /\ act' = act /\ field' = field
      /\ answer' \in Packets /\ out' \in Seq(Packets)
  BY <1>1, Listened
<1>7. pc' = IF answer'.b3 = 2 THEN "remaining" ELSE "select"
  BY <1>5 DEF Remaining
<1>8. TypeOK'
  BY <1>1, <1>5, <1>6, <1>7, LinkTypes DEF Locations, TypeOK
<1>9. Queue'
  <2>1. Announcements' = Announcements
    BY <1>6, SameAnnouncements
  <2>2. CASE pc' = "remaining"
    <3>1. k + 1 \in 3 .. Len(found)
      BY <1>4, <1>5, <1>7, <2>2
    <3> QED
      BY <1>1, <1>5, <1>6, <2>1, <2>2, <3>1 DEF Queue
  <2>3. CASE pc' = "select"
    <3>1. out' = <<>>
      BY <1>5, <1>7, <2>3
    <3> QED
      BY <1>1, <1>6, <2>3, <3>1 DEF Queue
  <2> QED
    BY <1>7, <2>2, <2>3
<1>10. Field'
  BY <1>1, <1>6, SameField
<1>11. Answered' /\ Progress'
  BY <1>7 DEF Answered, Progress, Handed, Advancing, Polling
<1>12. Tracked'
  BY <1>1, <1>2, <1>6, <1>7 DEF Tracked, Selecting, Handed, Advancing, Polling
<1> QED
  BY <1>8, <1>9, <1>10, <1>11, <1>12 DEF IInv

(* A tag that is away has not stayed.                                        *)
LEMMA Away ==
  ASSUME Field, NEW t, t \notin field
  PROVE  t \notin stayed
BY DEF Field

LEMMA SelectInv ==
  ASSUME IInv, Select
  PROVE  IInv'
PROOF
<1>1. /\ pc = "select" /\ Transceive(OnSelect(1, Protocol[rf.tag]))
      /\ pc' = IF answer'.b0 = "41" \/ answer'.b1 = 4 \/ answer'.b3 = 0
               THEN "select_ntf" ELSE "reader"
      /\ rf' = rf /\ next_tag' = next_tag /\ stayed' = stayed
      /\ UNCHANGED <<rf, next_tag, saved, reads, histVars>>
      /\ TypeOK /\ Field /\ st = "select" /\ out = <<>>
  BY DEF Select, IInv, Queue, histVars
<1>2. ~rf.known /\ rf.more /\ Len(found) > 1 /\ rf.tag = found[1] /\ next_tag = found[2]
  BY <1>1 DEF IInv, Tracked, Selecting
<1>3. 1 \in 1 .. Len(found) /\ found[1] \in Tags
  BY <1>1, <1>2 DEF TypeOK
<1>4. /\ answer' = Rsp(4, 0)
      /\ \/ out' = <<Activated(found[1])>> /\ st' = "active" /\ act' = found[1]
         \/ out' = <<GenericError>> /\ st' = st /\ act' = act /\ found[1] \notin field
      /\ fresh' = TRUE /\ found' = found /\ field' = field
      /\ answer' \in Packets /\ out' \in Seq(Packets)
  BY <1>1, <1>2, <1>3, Selects
<1>5. pc' = "select_ntf"
  BY <1>1, <1>4, PacketFields
<1>6. TypeOK'
  BY <1>1, <1>3, <1>4, <1>5, LinkTypes DEF Locations, TypeOK
<1>7. Queue'
  BY <1>5 DEF Queue
<1>8. Answered'
  <2>1. found[1] \notin field => found[1] \notin stayed
    BY <1>1, Away
  <2> QED
    BY <1>1, <1>4, <1>5, <2>1 DEF Answered
<1>9. Tracked'
  BY <1>1, <1>2, <1>4, <1>5 DEF Tracked, Selecting, Handed, Advancing, Polling
<1>10. Progress'
  BY <1>5 DEF Progress, Handed, Advancing, Polling
<1>11. Field'
  <2>1. CASE st' = "active" /\ act' = found[1]
    BY <1>1, <1>3, <1>4, <2>1, LinkAssumption DEF Field
  <2>2. CASE st' = st /\ act' = act
    BY <1>1, <1>4, <2>2, SameField
  <2> QED
    BY <1>4, <2>1, <2>2
<1> QED
  BY <1>6, <1>7, <1>8, <1>9, <1>10, <1>11 DEF IInv

LEMMA SelectNtfInv ==
  ASSUME IInv, SelectNtf
  PROVE  IInv'
PROOF
<1>1. /\ pc = "select_ntf" /\ pc' = "reader" /\ Receive
      /\ rf' = IF LooksActivated
               THEN [rf EXCEPT !.known = TRUE, !.tag = answer'.tag] ELSE rf
      /\ next_tag' = next_tag /\ saved' = saved /\ reads' = reads
      /\ present' = present /\ reported' = reported /\ stayed' = stayed
      /\ TypeOK /\ Field
  BY DEF SelectNtf, At, IInv, histVars
<1>2. ~rf.known /\ rf.more /\ Len(found) > 1 /\ rf.tag = found[1] /\ next_tag = found[2]
  BY <1>1 DEF IInv, Tracked, Selecting
<1>3. found[1] \in Tags /\ rf \in RfType
  BY <1>1, <1>2 DEF TypeOK, RfType
<1>4. /\ st' = st /\ found' = found /\ act' = act /\ field' = field
      /\ answer' \in Packets /\ fresh' \in BOOLEAN /\ out' \in Seq(Packets)
  BY <1>1, Listened
<1>5. Field'
  BY <1>1, <1>4, SameField
<1>6. /\ rf' \in RfType /\ rf'.more = TRUE /\ out' = <<>> /\ st \in {"active", "select"}
      /\ rf'.known => rf'.tag = found[1] /\ st = "active" /\ act = found[1]
      /\ rf'.known \/ found[1] \notin stayed
  <2>1. CASE st = "active" /\ act = found[1] /\ out = <<Activated(act)>>
    <3>1. Activated(act) \in Packets
      BY <1>3, <2>1, PacketTypes
    <3>2. answer' = Activated(act) /\ out' = <<>>
      BY <1>1, <2>1, <3>1, HeardOne
    <3>3. answer'.b0 = "61" /\ answer'.tag = found[1]
      BY <2>1, <3>2, PacketFields
    <3>4. rf' = [rf EXCEPT !.known = TRUE, !.tag = answer'.tag]
      BY <1>1, <3>3 DEF LooksActivated
    <3> QED
      BY <1>2, <1>3, <2>1, <3>2, <3>3, <3>4 DEF RfType
  <2>2. CASE st = "select" /\ out = <<GenericError>> /\ found[1] \notin stayed
    <3>1. answer' = GenericError /\ out' = <<>>
      BY <1>1, <2>2, PacketTypes, HeardOne
    <3>2. answer'.b0 = "60" /\ answer'.b1 = 7
      BY <3>1, PacketFields
    <3>3. rf' = rf
      BY <1>1, <3>2 DEF LooksActivated
    <3> QED
      BY <1>2, <1>3, <2>2, <3>1, <3>3 DEF RfType
  <2> QED
    BY <1>1, <2>1, <2>2 DEF IInv, Answered
<1>7. TypeOK'
  <2>1. /\ pc' \in Locations /\ saved' \in Tags \cup {NoTag} /\ next_tag' \in Tags \cup {NoTag}
        /\ reads' \in 0 .. MaxReads /\ present' \in BOOLEAN /\ reported' \subseteq Tags
        /\ st' \in {"idle", "discovering", "select", "active"} /\ act' \in Tags \cup {NoTag}
    BY <1>1, <1>4 DEF Locations, TypeOK
  <2> QED
    BY <1>1, <1>4, <1>6, <2>1, HostTypes
<1>8. Queue' /\ Answered'
  BY <1>1, <1>4, <1>6 DEF Queue, Answered
<1>9. Tracked'
  BY <1>1, <1>2, <1>3, <1>4, <1>6 DEF Tracked, Selecting, Handed, Advancing, Polling
<1>10. Progress'
  BY <1>1, <1>4, <1>6 DEF Progress, Handed, Advancing, Polling
<1> QED
  BY <1>5, <1>7, <1>8, <1>9, <1>10 DEF IInv

LEMMA ActivateNextInv ==
  ASSUME IInv, ActivateNext
  PROVE  IInv'
PROOF
<1>1. /\ pc = "more" /\ rf.more
      /\ answer' = answer /\ fresh' = fresh /\ next_tag' = next_tag /\ saved' = saved
      /\ reads' = reads /\ st' = st /\ found' = found /\ act' = act /\ out' = out
      /\ field' = field /\ present' = present /\ reported' = reported /\ stayed' = stayed
      /\ TypeOK /\ Field /\ st \in {"active", "select"} /\ out = <<>>
  BY DEF ActivateNext, IInv, Queue, ctlVars, histVars
<1>2. Len(found) > 1 /\ next_tag = found[2] /\ rf \in RfType /\ next_tag \in Tags \cup {NoTag}
  BY <1>1 DEF IInv, Tracked, Handed, TypeOK, RfType
<1>3. next_tag # NoTag
  <2>1. found[2] \in Tags
    BY <1>1, <1>2 DEF TypeOK
  <2> QED
    BY <1>2, <2>1, LinkAssumption
<1>4. pc' = "sleep" /\ rf' = [rf EXCEPT !.more = FALSE]
  BY <1>3 DEF ActivateNext
<1>5. rf' \in RfType /\ rf'.known = rf.known /\ rf'.tag = rf.tag
  BY <1>2, <1>4 DEF RfType
<1>6. TypeOK'
  <2>1. /\ pc' \in Locations /\ saved' \in Tags \cup {NoTag} /\ next_tag' \in Tags \cup {NoTag}
        /\ reads' \in 0 .. MaxReads /\ present' \in BOOLEAN /\ reported' \subseteq Tags
    BY <1>1, <1>4 DEF Locations, TypeOK
  <2>2. /\ st' \in {"idle", "discovering", "select", "active"} /\ act' \in Tags \cup {NoTag}
        /\ answer' \in Packets /\ fresh' \in BOOLEAN /\ out' \in Seq(Packets)
    BY <1>1 DEF TypeOK
  <2> QED
    BY <1>1, <1>5, <2>1, <2>2, HostTypes
<1>7. Queue' /\ Answered'
  BY <1>1, <1>4 DEF Queue, Answered
<1>8. Tracked'
  <2>1. rf.known => /\ rf.tag \in Tags
                    /\ st = "active" => Protocol[act] = Protocol[rf.tag]
    BY <1>1 DEF IInv, Tracked, Handed
  <2> QED
    BY <1>1, <1>2, <1>4, <1>5, <2>1 DEF Tracked, Selecting, Handed, Advancing, Polling
<1>9. Progress'
  <2>1. Given(1)
    BY <1>1, <1>2 DEF IInv, Progress, Handed
  <2>2. Given(1)'
    BY <1>1, <2>1 DEF Given
  <2> QED
    BY <1>4, <2>2 DEF Progress, Handed, Advancing, Polling
<1>10. Field'
  BY <1>1, SameField
<1> QED
  BY <1>6, <1>7, <1>8, <1>9, <1>10 DEF IInv

(* What is known while the second tag is being activated.                    *)
LEMMA Advances ==
  ASSUME IInv, pc \in Advancing
  PROVE  /\ Len(found) > 1 /\ next_tag = found[2] /\ found[2] \in Tags /\ 2 \in 1 .. Len(found)
         /\ Given(1)
         /\ rf.known => rf.tag \in Tags
PROOF
<1>1. Len(found) > 1 /\ next_tag = found[2] /\ (rf.known => rf.tag \in Tags)
  BY DEF IInv, Tracked
<1>2. found[2] \in Tags /\ 2 \in 1 .. Len(found)
  BY <1>1 DEF IInv, TypeOK
<1>3. Given(1)
  BY <1>1 DEF IInv, Progress
<1> QED
  BY <1>1, <1>2, <1>3

LEMMA AdvancesOn ==
  ASSUME IInv, pc \in Advancing, pc' \in Advancing, rf' = rf, next_tag' = next_tag,
         stayed' = stayed, reported' = reported, found' = found, st' = "select" \/ pc' = "next_act"
  PROVE  Tracked' /\ Progress'
PROOF
<1>1. /\ Len(found) > 1 /\ next_tag = found[2] /\ Given(1)
      /\ rf.known => rf.tag \in Tags
  BY Advances
<1>2. Given(1)'
  BY <1>1 DEF Given
<1>3. Tracked'
  BY <1>1 DEF Tracked, Selecting, Handed, Advancing, Polling
<1>4. Progress'
  BY <1>2 DEF Progress, Handed, Advancing, Polling
<1> QED
  BY <1>3, <1>4

LEMMA SleepInv ==
  ASSUME IInv, Sleep
  PROVE  IInv'
PROOF
<1>1. /\ pc = "sleep" /\ Transceive(OnDeactivate("select"))
      /\ pc' = IF answer'.b0 # "41" /\ answer'.b1 # 6 /\ answer'.b3 # 0
               THEN "presence" ELSE "sleep_ntf"
      /\ rf' = rf /\ next_tag' = next_tag /\ reported' = reported /\ stayed' = stayed
      /\ UNCHANGED <<rf, next_tag, saved, reads, histVars>>
      /\ TypeOK /\ Field /\ st \in {"active", "select"} /\ out = <<>>
  BY DEF Sleep, IInv, Queue, histVars
<1>2. /\ out' \in {<<>>, <<Deactivated>>} /\ answer' \in {Rsp(6, 0), Rsp(6, 1)}
      /\ st' = "select" /\ act' = NoTag /\ fresh' = TRUE
      /\ found' = found /\ field' = field /\ answer' \in Packets /\ out' \in Seq(Packets)
  BY <1>1, Deactivates
<1>3. answer'.b0 = "41" /\ answer'.b1 = 6
  BY <1>2, PacketFields
<1>4. pc' = "sleep_ntf"
  BY <1>1, <1>3
<1>5. TypeOK'
  BY <1>1, <1>2, <1>4, LinkTypes DEF Locations
<1>6. Queue' /\ Answered'
  BY <1>2, <1>3, <1>4 DEF Queue, Answered
<1>7. Tracked' /\ Progress'
  BY <1>1, <1>2, <1>4, AdvancesOn DEF Advancing
<1>8. Field'
  BY <1>1, <1>2 DEF Field
<1> QED
  BY <1>5, <1>6, <1>7, <1>8 DEF IInv

LEMMA SleepNtfInv ==
  ASSUME IInv, SleepNtf
  PROVE  IInv'
PROOF
<1>1. /\ pc = "sleep_ntf" /\ Receive
      /\ pc' = IF answer'.b0 # "61" /\ answer'.b1 # 6 THEN "presence" ELSE "select_next"
      /\ rf' = rf /\ next_tag' = next_tag /\ reported' = reported /\ stayed' = stayed
      /\ UNCHANGED <<rf, next_tag, saved, reads, histVars>>
      /\ TypeOK /\ Field /\ st = "select" /\ out \in {<<>>, <<Deactivated>>}
      /\ out = <<>> => answer.b1 = 6
  BY DEF SleepNtf, IInv, Queue, histVars
<1>2. /\ st' = st /\ found' = found /\ act' = act /\ field' = field
      /\ answer' \in Packets /\ fresh' \in BOOLEAN /\ out' \in Seq(Packets)
  BY <1>1, Listened
<1>3. out' = <<>> /\ answer'.b1 = 6
  <2>1. CASE out = <<>>
    BY <1>1, <2>1, Listened
  <2>2. CASE out = <<Deactivated>>
    BY <1>1, <2>2, PacketTypes, PacketFields, HeardOne
  <2> QED
    BY <1>1, <2>1, <2>2
<1>4. pc' = "select_next"
  BY <1>1, <1>3
<1>5. TypeOK'
  BY <1>1, <1>2, <1>4, LinkTypes DEF Locations, TypeOK
<1>6. Queue' /\ Answered'
  BY <1>1, <1>2, <1>3, <1>4 DEF Queue, Answered
<1>7. Tracked' /\ Progress'
  BY <1>1, <1>2, <1>4, AdvancesOn DEF Advancing
<1>8. Field'
  BY <1>1, <1>2, SameField
<1> QED
  BY <1>5, <1>6, <1>7, <1>8 DEF IInv

LEMMA SelectNextInv ==
  ASSUME IInv, SelectNext
  PROVE  IInv'
PROOF
<1>1. /\ pc = "select_next" /\ Transceive(OnSelect(2, Protocol[next_tag]))
      /\ pc' = IF Is("41", 4) /\ answer'.b3 = 0 THEN "next_act" ELSE "presence"
      /\ rf' = rf /\ next_tag' = next_tag /\ reported' = reported /\ stayed' = stayed
      /\ UNCHANGED <<rf, next_tag, saved, reads, histVars>>
      /\ TypeOK /\ Field /\ st = "select" /\ out = <<>>
  BY DEF SelectNext, IInv, Queue, histVars
<1>2. next_tag = found[2] /\ found[2] \in Tags /\ 2 \in 1 .. Len(found)
  BY <1>1, Advances DEF Advancing
<1>3. /\ answer' = Rsp(4, 0)
      /\ \/ out' = <<Activated(found[2])>> /\ st' = "active" /\ act' = found[2]
         \/ out' = <<GenericError>> /\ st' = st /\ act' = act /\ found[2] \notin field
      /\ fresh' = TRUE /\ found' = found /\ field' = field
      /\ answer' \in Packets /\ out' \in Seq(Packets)
  <2>1. Transceive(OnSelect(2, Protocol[found[2]]))
    BY <1>1, <1>2
  <2>2. TypeOK /\ out = <<>> /\ st = "select" /\ 2 \in 1 .. Len(found)
    BY <1>1, <1>2
  <2>3. /\ \/ /\ Protocol[found[2]] # Protocol[found[2]] /\ answer' = Rsp(4, 1)
              /\ out' = <<>> /\ st' = st /\ act' = act
           \/ /\ Protocol[found[2]] = Protocol[found[2]] /\ answer' = Rsp(4, 0)
              /\ \/ out' = <<Activated(found[2])>> /\ st' = "active" /\ act' = found[2]
                 \/ out' = <<GenericError>> /\ st' = st /\ act' = act /\ found[2] \notin field
        /\ fresh' = TRUE /\ found' = found /\ field' = field
        /\ answer' \in Packets /\ out' \in Seq(Packets)
    BY <2>1, <2>2, Selects, Zenon
  <2> QED
    BY <2>3
<1>4. pc' = "next_act"
  <2>1. answer'.b0 = "41" /\ answer'.b1 = 4 /\ answer'.b3 = 0
    BY <1>3, PacketFields
  <2> QED
    BY <1>1, <2>1 DEF Is
<1>5. TypeOK'
  BY <1>1, <1>2, <1>3, <1>4, LinkTypes DEF Locations, TypeOK
<1>6. Queue'
  BY <1>4 DEF Queue
<1>7. Answered'
  <2>1. found[2] \notin field => found[2] \notin stayed
    BY <1>1, Away
  <2> QED
    BY <1>1, <1>3, <1>4, <2>1 DEF Answered
<1>8. Tracked' /\ Progress'
  BY <1>1, <1>3, <1>4, AdvancesOn DEF Advancing
<1>9. Field'
  <2>1. CASE st' = "active" /\ act' = found[2]
    BY <1>1, <1>2, <1>3, <2>1, LinkAssumption DEF Field
  <2>2. CASE st' = st /\ act' = act
    BY <1>1, <1>3, <2>2, SameField
  <2> QED
    BY <1>3, <2>1, <2>2
<1> QED
  BY <1>5, <1>6, <1>7, <1>8, <1>9 DEF IInv

LEMMA NextActInv ==
  ASSUME IInv, NextAct
  PROVE  IInv'
PROOF
<1>1. /\ pc = "next_act" /\ Receive
      /\ IF LooksActivated
         THEN /\ rf' = [known |-> TRUE, tag |-> answer'.tag, more |-> FALSE]
              /\ pc' = "reader"
         ELSE pc' = "presence" /\ rf' = rf
      /\ next_tag' = next_tag /\ saved' = saved /\ reads' = reads
      /\ present' = present /\ reported' = reported /\ stayed' = stayed
      /\ TypeOK /\ Field
  BY DEF NextAct, IInv, histVars
<1>2. /\ Len(found) > 1 /\ next_tag = found[2] /\ found[2] \in Tags /\ Given(1)
      /\ rf.known => rf.tag \in Tags
  BY <1>1, Advances DEF Advancing
<1>3. /\ st' = st /\ found' = found /\ act' = act /\ field' = field
      /\ answer' \in Packets /\ fresh' \in BOOLEAN /\ out' \in Seq(Packets)
  BY <1>1, Listened
<1>4. rf \in RfType
  BY <1>1 DEF TypeOK, RfType
<1>5. Field' /\ Given(1)'
  BY <1>1, <1>2, <1>3, SameField DEF Given
<1>6. /\ rf' \in RfType /\ out' = <<>> /\ st' \in {"active", "select"}
      /\ \/ /\ pc' = "reader" /\ rf'.known = TRUE /\ rf'.more = FALSE /\ rf'.tag = found[2]
            /\ st' = "active" /\ act' = found[2]
         \/ pc' = "presence" /\ rf' = rf /\ st' = "select" /\ found[2] \notin stayed
  <2>1. CASE st = "active" /\ act = found[2] /\ out = <<Activated(act)>>
    <3>1. Activated(act) \in Packets
      BY <1>2, <2>1, PacketTypes
    <3>2. answer' = Activated(act) /\ out' = <<>>
      BY <1>1, <2>1, <3>1, HeardOne
    <3>3. answer'.b0 = "61" /\ answer'.tag = found[2]
      BY <2>1, <3>2, PacketFields
    <3>4. rf' = [known |-> TRUE, tag |-> answer'.tag, more |-> FALSE] /\ pc' = "reader"
      BY <1>1, <3>3 DEF LooksActivated
    <3> QED
      BY <1>2, <1>3, <2>1, <3>2, <3>3, <3>4 DEF RfType
  <2>2. CASE st = "select" /\ out = <<GenericError>> /\ found[2] \notin stayed
    <3>1. answer' = GenericError /\ out' = <<>>
      BY <1>1, <2>2, PacketTypes, HeardOne
    <3>2. answer'.b0 = "60" /\ answer'.b1 = 7
      BY <3>1, PacketFields
    <3>3. rf' = rf /\ pc' = "presence"
      BY <1>1, <3>2 DEF LooksActivated
    <3> QED
      BY <1>3, <1>4, <2>2, <3>1, <3>3
  <2> QED
    BY <1>1, <2>1, <2>2 DEF IInv, Answered
<1>7. TypeOK'
  <2>1. pc' \in Locations
    BY <1>6 DEF Locations
  <2>2. /\ saved' \in Tags \cup {NoTag} /\ next_tag' \in Tags \cup {NoTag}
        /\ reads' \in 0 .. MaxReads /\ present' \in BOOLEAN /\ reported' \subseteq Tags
        /\ st' \in {"idle", "discovering", "select", "active"} /\ act' \in Tags \cup {NoTag}
    BY <1>1, <1>3 DEF TypeOK
  <2> QED
    BY <1>1, <1>3, <1>6, <2>1, <2>2, HostTypes
<1>8. Queue' /\ Answered'
  BY <1>6 DEF Queue, Answered
<1>9. Tracked'
  BY <1>2, <1>6 DEF Tracked, Selecting, Handed, Advancing, Polling
<1>10. Progress'
  <2>1. CASE pc' = "reader"
    BY <1>3, <1>5, <1>6, <2>1 DEF Progress, Handed, Advancing, Polling
  <2>2. CASE pc' = "presence"
    <3>1. Given(2)'
      BY <1>1, <1>3, <1>6, <2>2 DEF Given
    <3> QED
      BY <1>5, <2>2, <3>1 DEF Progress, Handed, Advancing, Polling
  <2> QED
    BY <1>6, <2>1, <2>2
<1> QED
  BY <1>5, <1>7, <1>8, <1>9, <1>10 DEF IInv

-----------------------------------------------------------------------------
(* Reading *)

LEMMA ReaderInv ==
  ASSUME IInv, Reader
  PROVE  IInv'
PROOF
<1>1. /\ pc = "reader" /\ pc' \in IF rf.known THEN {"read", "more"} ELSE {"more"}
      /\ reported' = IF rf.known THEN reported \cup {rf.tag} ELSE reported
      /\ reads' = 0
      /\ answer' = answer /\ fresh' = fresh /\ rf' = rf /\ next_tag' = next_tag /\ saved' = saved
      /\ st' = st /\ found' = found /\ act' = act /\ out' = out
      /\ field' = field /\ present' = present /\ stayed' = stayed
      /\ TypeOK /\ Field /\ st \in {"active", "select"} /\ out = <<>>
  BY DEF Reader, IInv, Queue, ctlVars
<1>2. /\ rf.known => /\ rf.tag \in Tags
                     /\ st = "active" => Protocol[act] = Protocol[rf.tag]
                     /\ st = "active" /\ (act = rf.tag \/ Protocol[act] = "isodep")
      /\ rf.more => Len(found) > 1 /\ rf.tag = found[1] /\ next_tag = found[2]
  BY <1>1 DEF IInv, Tracked, Handed
<1>3. TypeOK'
  <2>1. /\ pc' \in Locations /\ reported' \subseteq Tags /\ reads' \in 0 .. MaxReads
    BY <1>1, <1>2, LinkAssumption DEF Locations, TypeOK
  <2>2. /\ rf' \in RfType /\ saved' \in Tags \cup {NoTag} /\ next_tag' \in Tags \cup {NoTag}
        /\ present' \in BOOLEAN
        /\ st' \in {"idle", "discovering", "select", "active"} /\ act' \in Tags \cup {NoTag}
        /\ answer' \in Packets /\ fresh' \in BOOLEAN /\ out' \in Seq(Packets)
    BY <1>1 DEF TypeOK, RfType
  <2> QED
    BY <1>1, <2>1, <2>2, HostTypes
<1>4. pc' \in {"read", "more"} /\ (pc' = "read" => rf.known)
  BY <1>1
<1>5. Queue' /\ Answered'
  BY <1>1, <1>4 DEF Queue, Answered
<1>6. Tracked'
  BY <1>1, <1>2, <1>4 DEF Tracked, Selecting, Handed, Advancing, Polling
<1>7. Progress'
  <2> SUFFICES ASSUME Len(found) > 1
               PROVE  Given(1)' /\ (~rf.more => Given(2)')
    BY <1>1, <1>4 DEF Progress, Handed, Advancing, Polling
  <2>1. /\ rf.more => (found[1] \in stayed => rf.known)
        /\ ~rf.more => Given(1) /\ rf.known /\ rf.tag = found[2]
    BY <1>1 DEF IInv, Progress
  <2>2. CASE rf.more
    BY <1>1, <1>2, <2>1, <2>2 DEF Given
  <2>3. CASE ~rf.more
    BY <1>1, <2>1, <2>3 DEF Given
  <2> QED
    BY <2>2, <2>3
<1>8. Field'
  BY <1>1, SameField
<1> QED
  BY <1>3, <1>5, <1>6, <1>7, <1>8 DEF IInv

(* What is known, and stays so, from the first exchange of a read to its end. *)
LEMMA Reads ==
  ASSUME IInv, pc \in {"read", "read_data", "chain"}
  PROVE  rf.known /\ st = "active" /\ act # NoTag
BY DEF IInv, Tracked, Handed, Field

LEMMA ReadsOn ==
  ASSUME IInv, pc \in {"read", "read_data", "chain"}, pc' \in {"read", "read_data", "chain", "more"},
         rf' = rf, next_tag' = next_tag, stayed' = stayed, reported' = reported,
         found' = found, st' = st, act' = act
  PROVE  Answered' /\ Tracked' /\ Progress'
PROOF
<1>1. /\ rf.known /\ st = "active" /\ rf.tag \in Tags /\ Protocol[act] = Protocol[rf.tag]
      /\ act = rf.tag \/ Protocol[act] = "isodep"
      /\ rf.more => Len(found) > 1 /\ rf.tag = found[1] /\ next_tag = found[2]
  BY DEF IInv, Tracked, Handed
<1>2. Answered'
  BY DEF Answered
<1>3. Tracked'
  BY <1>1 DEF Tracked, Selecting, Handed, Advancing, Polling
<1>4. Progress'
  <2> SUFFICES ASSUME Len(found) > 1
               PROVE  Given(1)' /\ (~rf.more => Given(2)')
    BY DEF Progress, Handed, Advancing, Polling
  <2>1. Given(1) /\ (~rf.more => Given(2))
    BY DEF IInv, Progress, Handed
  <2> QED
    BY <2>1 DEF Given
<1> QED
  BY <1>2, <1>3, <1>4

LEMMA ReadExchangeInv ==
  ASSUME IInv, ReadExchange
  PROVE  IInv'
PROOF
<1>1. /\ pc = "read" /\ pc' = "read_data" /\ reads < MaxReads /\ reads' = reads + 1
      /\ Transceive(OnData)
      /\ rf' = rf /\ next_tag' = next_tag /\ saved' = saved
      /\ present' = present /\ reported' = reported /\ stayed' = stayed
      /\ TypeOK /\ Field /\ out = <<>>
  BY DEF ReadExchange, At, IInv, Queue, histVars
<1>2. rf.known /\ st = "active" /\ act # NoTag
  BY <1>1, Reads
<1>3. /\ \A i \in 1 .. Len(out') : out'[i].b0 = "10" \/ (out'[i].b0 \in {"00", "60"} /\ i = Len(out'))
      /\ act \in field => out' # <<>> /\ out'[Len(out')].b0 = "00"
      /\ answer' = Credits /\ st' = st /\ act' = act
      /\ fresh' = TRUE /\ found' = found /\ field' = field
      /\ answer' \in Packets /\ out' \in Seq(Packets)
  BY <1>1, <1>2, SendsData
<1>4. TypeOK'
  <2>1. pc' \in Locations /\ reads' \in 0 .. MaxReads
    BY <1>1, LinkAssumption DEF Locations, TypeOK
  <2>2. /\ rf' \in RfType /\ saved' \in Tags \cup {NoTag} /\ next_tag' \in Tags \cup {NoTag}
        /\ present' \in BOOLEAN /\ reported' \subseteq Tags
        /\ st' \in {"idle", "discovering", "select", "active"} /\ act' \in Tags \cup {NoTag}
    BY <1>1, <1>3 DEF TypeOK, RfType
  <2> QED
    BY <1>1, <1>3, <2>1, <2>2, HostTypes
<1>5. Frames'
  <2>1. act' \in stayed' => act \in field
    BY <1>1, <1>3 DEF Field
  <2> QED
    BY <1>3, <2>1 DEF Frames
<1>6. Queue'
  <2>1. answer'.b0 # "10"
    BY <1>3, PacketFields
  <2> QED
    BY <1>1, <1>5, <2>1 DEF Queue
<1>7. Answered' /\ Tracked' /\ Progress'
  BY <1>1, <1>3, ReadsOn
<1>8. Field'
  BY <1>1, <1>3, SameField
<1> QED
  BY <1>4, <1>6, <1>7, <1>8 DEF IInv

(* A frame is read; the buffer may keep the one before.                      *)
LEMMA HearsFrame ==
  ASSUME TypeOK, Frames, Receive, stayed' = stayed
  PROVE  /\ answer'.b0 = "10" => Frames'
         /\ answer'.b0 # "10" => out' = <<>>
         /\ out = <<>> => answer' = answer
PROOF
<1>1. act' = act /\ out \in Seq(Packets)
  BY Listened DEF TypeOK
<1>2. CASE out = <<>>
  BY <1>1, <1>2, Listened DEF Frames
<1>3. CASE out # <<>>
  <2>1. /\ answer' = out[1] /\ out' = Tail(out) /\ Len(out) \in Nat \ {0}
        /\ out' \in Seq(Packets) /\ Len(out') = Len(out) - 1
        /\ \A i \in 1 .. Len(out') : out'[i] = out[i + 1]
    BY <1>1, <1>3, Listened, HeadTail
  <2>2. /\ \A i \in 1 .. Len(out) : out[i].b0 = "10" \/ (out[i].b0 \in {"00", "60"} /\ i = Len(out))
        /\ act \in stayed => out[Len(out)].b0 = "00"
    BY DEF Frames
  <2>3. CASE answer'.b0 = "10"
    <3>1. ASSUME NEW i \in 1 .. Len(out')
          PROVE  out'[i].b0 = "10" \/ (out'[i].b0 \in {"00", "60"} /\ i = Len(out'))
      <4>1. \A m \in Nat \ {0} : \A j \in 1 .. m - 1 :
               j + 1 \in 1 .. m /\ (j + 1 = m => j = m - 1)
        OBVIOUS
      <4>2. i + 1 \in 1 .. Len(out) /\ (i + 1 = Len(out) => i = Len(out'))
        BY <2>1, <4>1, Zenon
      <4>3. out[i + 1].b0 = "10" \/ (out[i + 1].b0 \in {"00", "60"} /\ i + 1 = Len(out))
        BY <2>2, <4>2
      <4>4. out'[i] = out[i + 1]
        BY <2>1
      <4> QED
        BY <4>2, <4>3, <4>4
    <3>2. ASSUME act \in stayed
          PROVE  out' # <<>> /\ out'[Len(out')].b0 = "00"
      <4>1. Len(out) # 1
        BY <2>1, <2>2, <2>3, <3>2
      <4>2. Len(out') \in 1 .. Len(out') /\ Len(out') + 1 = Len(out)
        BY <2>1, <4>1
      <4>3. out'[Len(out')] = out[Len(out)]
        BY <2>1, <4>2
      <4> QED
        BY <2>2, <3>2, <4>2, <4>3
    <3>3. act' \in stayed' => act \in stayed
      BY <1>1
    <3>4. Frames'
      BY <3>1, <3>2, <3>3, Zenon DEF Frames
    <3> QED
      BY <1>3, <2>3, <3>4
  <2>4. CASE answer'.b0 # "10"
    <3>1. Len(out) = 1
      <4>1. 1 \in 1 .. Len(out) /\ out[1].b0 # "10"
        BY <2>1, <2>4
      <4> QED
        BY <2>2, <4>1
    <3>2. Len(out') = 0
      BY <2>1, <3>1
    <3> QED
      BY <1>3, <2>1, <2>4, <3>2
  <2> QED
    BY <1>3, <2>3, <2>4
<1> QED
  BY <1>2, <1>3

LEMMA ReadDataInv ==
  ASSUME IInv, ReadData \/ ChainFrame
  PROVE  IInv'
PROOF
<1>1. /\ pc \in {"read_data", "chain"} /\ Receive
      /\ pc' = IF answer'.b0 = "10" THEN "chain" ELSE "read"
      /\ rf' = rf /\ next_tag' = next_tag /\ reported' = reported /\ stayed' = stayed
      /\ UNCHANGED <<rf, next_tag, saved, reads, histVars>>
      /\ TypeOK /\ Field /\ Frames
  BY DEF ReadData, ChainFrame, IInv, Queue, histVars
<1>2. st = "active"
  BY <1>1, Reads
<1>3. /\ st' = st /\ found' = found /\ act' = act /\ field' = field
      /\ answer' \in Packets /\ fresh' \in BOOLEAN /\ out' \in Seq(Packets)
  BY <1>1, Listened
<1>4. /\ answer'.b0 = "10" => Frames'
      /\ answer'.b0 # "10" => out' = <<>>
  BY <1>1, HearsFrame
<1>5. TypeOK'
  BY <1>1, <1>3, LinkTypes DEF Locations, TypeOK
<1>6. Queue'
  <2>1. CASE answer'.b0 = "10"
    BY <1>1, <1>4, <2>1 DEF Queue
  <2>2. CASE answer'.b0 # "10"
    BY <1>1, <1>2, <1>3, <1>4, <2>2 DEF Queue
  <2> QED
    BY <2>1, <2>2
<1>7. Answered' /\ Tracked' /\ Progress'
  BY <1>1, <1>3, ReadsOn
<1>8. Field'
  BY <1>1, <1>3, SameField
<1> QED
  BY <1>5, <1>6, <1>7, <1>8 DEF IInv

(* Steps that move the task on and nothing else.                             *)
LEMMA MovesOn ==
  ASSUME IInv, pc' \in Locations,
         UNCHANGED <<answer, fresh, rf, next_tag, saved, reads, ctlVars, field, histVars>>
  PROVE  TypeOK' /\ Field'
BY DEF IInv, TypeOK, Field, ctlVars, histVars

LEMMA ReadEndsInv ==
  ASSUME IInv, ReadEnds
  PROVE  IInv'
PROOF
<1>1. /\ pc = "read" /\ pc' = "more"
      /\ UNCHANGED <<answer, fresh, rf, next_tag, saved, reads, ctlVars, field, histVars>>
      /\ st' = st /\ out' = out /\ found' = found /\ act' = act /\ rf' = rf /\ next_tag' = next_tag
      /\ reported' = reported /\ stayed' = stayed
      /\ st \in {"active", "select"} /\ out = <<>>
  BY DEF ReadEnds, At, IInv, Queue, ctlVars, histVars
<1>2. TypeOK' /\ Field'
  BY <1>1, MovesOn DEF Locations
<1>3. Queue'
  BY <1>1 DEF Queue
<1>4. Answered' /\ Tracked' /\ Progress'
  BY <1>1, ReadsOn
<1> QED
  BY <1>2, <1>3, <1>4 DEF IInv

LEMMA NoMoreTagsInv ==
  ASSUME IInv, NoMoreTags
  PROVE  IInv'
PROOF
<1>1. /\ pc = "more" /\ pc' = "presence" /\ ~rf.more
      /\ UNCHANGED <<answer, fresh, rf, next_tag, saved, reads, ctlVars, field, histVars>>
      /\ st' = st /\ out' = out /\ found' = found /\ act' = act /\ rf' = rf
      /\ reported' = reported /\ stayed' = stayed
      /\ st \in {"active", "select"} /\ out = <<>>
  BY DEF NoMoreTags, At, IInv, Queue, ctlVars, histVars
<1>2. TypeOK' /\ Field'
  BY <1>1, MovesOn DEF Locations
<1>3. Queue' /\ Answered'
  BY <1>1 DEF Queue, Answered
<1>4. Tracked'
  <2>1. rf.known => /\ rf.tag \in Tags
                    /\ st = "active" => Protocol[act] = Protocol[rf.tag]
    BY <1>1 DEF IInv, Tracked, Handed
  <2> QED
    BY <1>1, <2>1 DEF Tracked, Selecting, Handed, Advancing, Polling
<1>5. Progress'
  <2> SUFFICES ASSUME Len(found) > 1
               PROVE  Given(1)' /\ Given(2)'
    BY <1>1 DEF Progress, Handed, Advancing, Polling
  <2>1. Given(1) /\ Given(2)
    BY <1>1 DEF IInv, Progress, Handed
  <2> QED
    BY <1>1, <2>1 DEF Given
<1> QED
  BY <1>2, <1>3, <1>4, <1>5 DEF IInv

-----------------------------------------------------------------------------
(* The presence check *)

(* What is known while the presence of the tag is checked.                   *)
LEMMA Polls ==
  ASSUME IInv, pc \in Polling, rf.known
  PROVE  /\ rf.tag \in Tags /\ rf.tag # NoTag
         /\ st = "active" => Protocol[act] = Protocol[rf.tag]
         /\ st # "active" => act = NoTag
BY LinkAssumption DEF IInv, Tracked, Field, Polling, Handed, Advancing

LEMMA PollsOn ==
  ASSUME IInv, pc \in Polling, pc' \in Polling, rf' = rf, stayed' = stayed, reported' = reported,
         found' = found, rf.known \/ pc' = "presence",
         pc' \in {"mifare_ntf", "mifare_select"} => Protocol[rf.tag] = "mifare",
         rf.known /\ st' = "active" => Protocol[act'] = Protocol[rf.tag]
  PROVE  Tracked' /\ Progress'
PROOF
<1>1. rf.known => rf.tag \in Tags
  BY DEF IInv, Tracked
<1>2. Tracked'
  BY <1>1 DEF Tracked, Selecting, Handed, Advancing, Polling
<1>3. Progress'
  <2> SUFFICES ASSUME Len(found) > 1
               PROVE  Given(1)' /\ Given(2)'
    BY DEF Progress, Handed, Advancing, Polling
  <2>1. Given(1) /\ Given(2)
    BY DEF IInv, Progress
  <2> QED
    BY <2>1 DEF Given
<1> QED
  BY <1>2, <1>3

LEMMA PresenceNoneInv ==
  ASSUME IInv, PresenceNone
  PROVE  IInv'
PROOF
<1>1. /\ pc = "presence" /\ pc' = "stop"
      /\ UNCHANGED <<answer, fresh, rf, next_tag, saved, reads, ctlVars, field, histVars>>
      /\ st' = st /\ out' = out
      /\ st \in {"active", "select"} /\ out = <<>>
  BY DEF PresenceNone, At, IInv, Queue, ctlVars
<1>2. TypeOK' /\ Field'
  BY <1>1, MovesOn DEF Locations
<1>3. Queue'
  BY <1>1 DEF Queue
<1> QED
  BY <1>1, <1>2, <1>3, NothingKnown DEF IInv

(* A poll of a tag: what it queues, and the tag that is away if it fails.    *)
LEMMA PollInv ==
  ASSUME IInv, pc \in {"presence", "mifare_select"}, pc' = "presence_end", rf.known,
         st' \in {"active", "select"}, act' \in Tags \cup {NoTag},
         found' = found, field' = field, fresh' = TRUE,
         answer' \in Packets, out' \in Seq(Packets),
         present' = (rf.tag \in field),
         UNCHANGED <<rf, next_tag, saved, reads, reported, stayed>>,
         Answered', Field', st' = "active" => Protocol[act'] = Protocol[rf.tag]
  PROVE  IInv'
PROOF
<1>1. TypeOK'
  <2>1. /\ rf' \in RfType /\ next_tag' \in Tags \cup {NoTag} /\ saved' \in Tags \cup {NoTag}
        /\ reads' \in 0 .. MaxReads /\ present' \in BOOLEAN /\ reported' \subseteq Tags
        /\ stayed' = stayed
    BY DEF IInv, TypeOK, RfType
  <2>2. pc' \in Locations /\ fresh' \in BOOLEAN /\ st' \in {"idle", "discovering", "select", "active"}
    BY DEF Locations
  <2>3. TypeOK
    BY DEF IInv
  <2> QED
    BY <2>1, <2>2, <2>3, HostTypes
<1>2. Queue'
  BY DEF Queue
<1>3. Tracked' /\ Progress'
  BY PollsOn DEF Polling
<1> QED
  BY <1>1, <1>2, <1>3 DEF IInv

LEMMA PresenceFrameInv ==
  ASSUME IInv, PresenceFrame
  PROVE  IInv'
PROOF
<1>1. /\ pc = "presence" /\ pc' = "presence_end" /\ rf.known /\ Protocol[rf.tag] \in FrameKinds
      /\ Transceive(OnData) /\ present' = (rf.tag \in field)
      /\ UNCHANGED <<rf, next_tag, saved, reads, reported, stayed>> /\ rf' = rf /\ stayed' = stayed
      /\ TypeOK /\ Field /\ st \in {"active", "select"} /\ out = <<>>
  BY DEF PresenceFrame, FrameKinds, At, Poll, IInv, Queue
<1>2. /\ rf.tag \in Tags /\ rf.tag # NoTag
      /\ st = "active" => Protocol[act] = Protocol[rf.tag]
      /\ st # "active" => act = NoTag
  BY <1>1, Polls DEF Polling
<1>3. /\ st' = st /\ act' = act /\ fresh' = TRUE /\ found' = found /\ field' = field
      /\ answer' \in Packets /\ out' \in Seq(Packets)
      /\ out' \in Lasts
      /\ act = rf.tag /\ present' => out' = <<Data(0)>>
  <2>1. CASE st = "active"
    <3>1. Protocol[act] # "isodep"
      BY <1>1, <1>2, <2>1 DEF FrameKinds
    <3> QED
      BY <1>1, <2>1, <3>1, SendsData
  <2>2. CASE st # "active"
    BY <1>1, <1>2, <2>2, SendsInVain DEF Lasts
  <2> QED
    BY <2>1, <2>2
<1>4. Answered'
  <2>1. Pollable' => act = rf.tag
    BY <1>1, <1>3 DEF Pollable, FrameKinds
  <2>2. \/ \E p \in {0, 1} : out' = <<Data(p)>>
        \/ out' \in {<<>>, <<GenericError>>, <<InterfaceError>>}
    BY <1>3 DEF Lasts
  <2> QED
    BY <1>1, <1>3, <2>1, <2>2 DEF Answered
<1>5. Field'
  BY <1>1, <1>3, SameField
<1>6. act' \in Tags \cup {NoTag}
  BY <1>1, <1>3 DEF TypeOK
<1> QED
  BY <1>1, <1>2, <1>3, <1>4, <1>5, <1>6, PollInv

LEMMA PresenceT3TInv ==
  ASSUME IInv, PresenceT3T
  PROVE  IInv'
PROOF
<1>1. /\ pc = "presence" /\ pc' = "presence_end" /\ rf.known /\ Protocol[rf.tag] = "t3t"
      /\ Transceive(OnPolling) /\ present' = (rf.tag \in field)
      /\ UNCHANGED <<rf, next_tag, saved, reads, reported, stayed>> /\ rf' = rf /\ stayed' = stayed
      /\ TypeOK /\ Field /\ st \in {"active", "select"} /\ out = <<>>
  BY DEF PresenceT3T, At, Poll, IInv, Queue
<1>2. /\ rf.tag \in Tags /\ rf.tag # NoTag
      /\ st = "active" => Protocol[act] = Protocol[rf.tag]
      /\ st # "active" => act = NoTag
  BY <1>1, Polls DEF Polling
<1>3. /\ st' = st /\ act' = act /\ fresh' = TRUE /\ found' = found /\ field' = field
      /\ answer' \in Packets /\ out' \in Seq(Packets)
      /\ out' \in {<<>>, <<PollingNtf(1)>>, <<PollingNtf(0)>>}
      /\ act = rf.tag /\ present' => out' = <<PollingNtf(0)>>
  <2>1. CASE st = "active"
    BY <1>1, <2>1, PollsT3T
  <2>2. CASE st # "active"
    BY <1>1, <1>2, <2>2, PollsInVain
  <2> QED
    BY <2>1, <2>2
<1>4. Answered'
  <2>1. Pollable' => act = rf.tag
    BY <1>1, <1>3 DEF Pollable
  <2>2. \/ \E p \in {0, 1} : out' = <<PollingNtf(p)>>
        \/ out' \in {<<>>, <<GenericError>>}
    BY <1>3
  <2> QED
    BY <1>1, <1>3, <2>1, <2>2 DEF Answered
<1>5. Field'
  BY <1>1, <1>3, SameField
<1>6. act' \in Tags \cup {NoTag}
  BY <1>1, <1>3 DEF TypeOK
<1> QED
  BY <1>1, <1>2, <1>3, <1>4, <1>5, <1>6, PollInv

LEMMA PresenceIsoDepInv ==
  ASSUME IInv, PresenceIsoDep
  PROVE  IInv'
PROOF
<1>1. /\ pc = "presence" /\ pc' = "presence_end" /\ rf.known /\ Protocol[rf.tag] = "isodep"
      /\ Transceive(OnPresence) /\ present' = (rf.tag \in field)
      /\ UNCHANGED <<rf, next_tag, saved, reads, reported, stayed>> /\ rf' = rf /\ stayed' = stayed
      /\ TypeOK /\ Field /\ st \in {"active", "select"} /\ out = <<>>
  BY DEF PresenceIsoDep, At, Poll, IInv, Queue
<1>2. /\ rf.tag \in Tags /\ rf.tag # NoTag
      /\ st = "active" => Protocol[act] = Protocol[rf.tag]
      /\ st # "active" => act = NoTag
  BY <1>1, Polls DEF Polling
<1>3. /\ st' = st /\ act' = act /\ fresh' = TRUE /\ found' = found /\ field' = field
      /\ answer' \in Packets /\ out' \in Seq(Packets)
      /\ out' \in {<<>>, <<PresenceNtf(0)>>, <<PresenceNtf(1)>>}
      /\ act = rf.tag /\ present' => out' = <<PresenceNtf(1)>>
  <2>1. CASE st = "active"
    BY <1>1, <2>1, PollsIsoDep
  <2>2. CASE st # "active"
    BY <1>1, <1>2, <2>2, SendsInVain
  <2> QED
    BY <2>1, <2>2
<1>4. Answered'
  <2>1. Pollable' => act = rf.tag
    BY <1>1, <1>3 DEF Pollable
  <2>2. \/ \E p \in {0, 1} : out' = <<PresenceNtf(p)>>
        \/ out' \in {<<>>, <<GenericError>>}
    BY <1>3
  <2> QED
    BY <1>1, <1>3, <2>1, <2>2 DEF Answered
<1>5. Field'
  BY <1>1, <1>3, SameField
<1>6. act' \in Tags \cup {NoTag}
  BY <1>1, <1>3 DEF TypeOK
<1> QED
  BY <1>1, <1>2, <1>3, <1>4, <1>5, <1>6, PollInv

LEMMA PresenceMifareInv ==
  ASSUME IInv, PresenceMifare
  PROVE  IInv'
PROOF
<1>1. /\ pc = "presence" /\ pc' = "mifare_ntf" /\ rf.known /\ Protocol[rf.tag] = "mifare"
      /\ Transceive(OnDeactivate("select"))
      /\ rf' = rf /\ reported' = reported /\ stayed' = stayed
      /\ UNCHANGED <<rf, next_tag, saved, reads, histVars>>
      /\ TypeOK /\ Field /\ st \in {"active", "select"} /\ out = <<>>
  BY DEF PresenceMifare, At, IInv, Queue, histVars
<1>2. /\ out' \in {<<>>, <<Deactivated>>} /\ st' = "select" /\ act' = NoTag /\ fresh' = TRUE
      /\ found' = found /\ field' = field /\ answer' \in Packets /\ out' \in Seq(Packets)
  BY <1>1, Deactivates
<1>3. TypeOK'
  BY <1>1, <1>2, LinkTypes DEF Locations
<1>4. Queue' /\ Answered'
  BY <1>1, <1>2 DEF Queue, Answered
<1>5. Tracked' /\ Progress'
  BY <1>1, <1>2, PollsOn DEF Polling
<1>6. Field'
  BY <1>1, <1>2 DEF Field
<1> QED
  BY <1>3, <1>4, <1>5, <1>6 DEF IInv

LEMMA MifareNtfInv ==
  ASSUME IInv, MifareNtf
  PROVE  IInv'
PROOF
<1>1. /\ pc = "mifare_ntf" /\ pc' = "mifare_select" /\ Receive
      /\ rf' = rf /\ reported' = reported /\ stayed' = stayed
      /\ UNCHANGED <<rf, next_tag, saved, reads, histVars>>
      /\ TypeOK /\ Field /\ st = "select" /\ out \in {<<>>, <<Deactivated>>}
  BY DEF MifareNtf, At, IInv, Queue, histVars
<1>2. rf.known /\ Protocol[rf.tag] = "mifare"
  BY <1>1 DEF IInv, Tracked
<1>3. /\ st' = st /\ found' = found /\ act' = act /\ field' = field
      /\ answer' \in Packets /\ fresh' \in BOOLEAN /\ out' \in Seq(Packets)
  BY <1>1, Listened
<1>4. out' = <<>>
  <2>1. CASE out = <<>>
    BY <1>1, <2>1, Listened
  <2>2. CASE out = <<Deactivated>>
    BY <1>1, <2>2, PacketTypes, HeardOne
  <2> QED
    BY <1>1, <2>1, <2>2
<1>5. TypeOK'
  BY <1>1, <1>3, LinkTypes DEF Locations, TypeOK
<1>6. Queue' /\ Answered'
  BY <1>1, <1>3, <1>4 DEF Queue, Answered
<1>7. Tracked' /\ Progress'
  BY <1>1, <1>2, <1>3, PollsOn DEF Polling
<1>8. Field'
  BY <1>1, <1>3, SameField
<1> QED
  BY <1>5, <1>6, <1>7, <1>8 DEF IInv

LEMMA MifareSelectInv ==
  ASSUME IInv, MifareSelect
  PROVE  IInv'
PROOF
<1>1. /\ pc = "mifare_select" /\ pc' = "presence_end"
      /\ Transceive(OnSelect(1, "mifare")) /\ present' = (rf.tag \in field)
      /\ UNCHANGED <<rf, next_tag, saved, reads, reported, stayed>> /\ rf' = rf /\ stayed' = stayed
      /\ TypeOK /\ Field /\ st = "select" /\ out = <<>>
  BY DEF MifareSelect, At, Poll, IInv, Queue
<1>2. rf.known /\ Protocol[rf.tag] = "mifare"
  BY <1>1 DEF IInv, Tracked
<1>3. 1 \in 1 .. Len(found) /\ found[1] \in Tags
  <2>1. found \in Seq(Tags) /\ found # <<>>
    BY <1>1 DEF TypeOK, Field
  <2> QED
    BY <2>1
<1>4. /\ \/ Protocol[found[1]] # "mifare" /\ out' = <<>> /\ st' = st /\ act' = act
         \/ /\ Protocol[found[1]] = "mifare"
            /\ \/ out' = <<Activated(found[1])>> /\ st' = "active" /\ act' = found[1]
               \/ out' = <<GenericError>> /\ st' = st /\ act' = act /\ found[1] \notin field
      /\ fresh' = TRUE /\ found' = found /\ field' = field
      /\ answer' \in Packets /\ out' \in Seq(Packets)
  BY <1>1, <1>3, Selects
<1>5. Pollable' => rf.tag = found[1]
  BY <1>1, <1>2, <1>4 DEF Pollable
<1>6. CASE out' = <<Activated(found[1])>> /\ st' = "active" /\ act' = found[1] /\ Protocol[found[1]] = "mifare"
  <2>1. Answered'
    BY <1>1, <1>2, <1>3, <1>6 DEF Answered
  <2>2. Field'
    BY <1>1, <1>3, <1>4, <1>6, LinkAssumption DEF Field
  <2> QED
    BY <1>1, <1>2, <1>3, <1>4, <1>6, <2>1, <2>2, PollInv
<1>7. CASE /\ out' \in {<<>>, <<GenericError>>} /\ st' = st /\ act' = act
           /\ Protocol[found[1]] = "mifare" => found[1] \notin field
  <2>1. ~(Pollable' /\ present')
    BY <1>1, <1>2, <1>5, <1>7
  <2>2. Answered'
    BY <1>1, <1>7, <2>1 DEF Answered
  <2>3. Field'
    BY <1>1, <1>4, <1>7, SameField
  <2>4. act' \in Tags \cup {NoTag}
    BY <1>1, <1>7 DEF TypeOK
  <2> QED
    BY <1>1, <1>2, <1>4, <1>7, <2>2, <2>3, <2>4, PollInv
<1> QED
  BY <1>4, <1>6, <1>7

LEMMA PresenceEndInv ==
  ASSUME IInv, PresenceEnd
  PROVE  IInv'
PROOF
<1>1. /\ pc = "presence_end" /\ pc' \in {"presence", "stop"} /\ Receive
      /\ rf' = rf /\ reported' = reported /\ stayed' = stayed
      /\ UNCHANGED <<rf, next_tag, saved, reads, histVars>>
      /\ TypeOK /\ Field
  BY DEF PresenceEnd, IInv, histVars
<1>2. /\ st \in {"active", "select"}
      /\ \/ \E p \in {0, 1} : out = <<Data(p)>>
         \/ \E p \in {0, 1} : out = <<PollingNtf(p)>>
         \/ \E p \in {0, 1} : out = <<PresenceNtf(p)>>
         \/ \E t \in Tags : out = <<Activated(t)>>
         \/ out \in {<<>>, <<GenericError>>, <<InterfaceError>>}
  BY <1>1 DEF IInv, Answered
<1>3. /\ st' = st /\ found' = found /\ act' = act /\ field' = field
      /\ answer' \in Packets /\ fresh' \in BOOLEAN /\ out' \in Seq(Packets)
  BY <1>1, Listened
<1>4. out' = <<>>
  <2>1. out = <<>> \/ \E x \in Packets : out = <<x>>
    BY <1>2, PacketTypes
  <2> QED
    BY <1>1, <2>1, HeardOne, Listened
<1>5. TypeOK'
  BY <1>1, <1>3, LinkTypes DEF Locations, TypeOK
<1>6. Queue'
  BY <1>1, <1>2, <1>3, <1>4 DEF Queue
<1>7. Field'
  BY <1>1, <1>3, SameField
<1>8. CASE pc' = "stop"
  BY <1>5, <1>6, <1>7, <1>8, NothingKnown DEF IInv
<1>9. CASE pc' = "presence"
  <2>1. rf.known /\ (st = "active" => Protocol[act] = Protocol[rf.tag])
    BY <1>1 DEF IInv, Tracked, Polling
  <2>2. Tracked' /\ Progress'
    BY <1>1, <1>3, <1>9, <2>1, PollsOn DEF Polling
  <2>3. Answered'
    BY <1>9 DEF Answered
  <2> QED
    BY <1>5, <1>6, <1>7, <2>2, <2>3 DEF IInv
<1> QED
  BY <1>1, <1>8, <1>9

-----------------------------------------------------------------------------
(* The controller and the tags *)

(* An order of the tags in the field: as many as there are.                  *)
LEMMA OrderType ==
  ASSUME TypeOK, field # {}, NEW order \in Orders(field)
  PROVE  order \in Seq(Tags) /\ order # <<>> /\ DOMAIN order = 1 .. Len(order)
PROOF
<1>1. IsFiniteSet(field)
  BY FS_Subset, LinkAssumption DEF TypeOK
<1>2. Cardinality(field) \in Nat /\ Cardinality(field) # 0
  BY <1>1, FS_CardinalityType, FS_EmptySet
<1>3. order \in [1 .. Cardinality(field) -> field]
  BY DEF Orders
<1>4. order \in [1 .. Cardinality(field) -> Tags]
  BY <1>3 DEF TypeOK
<1> QED
  BY <1>2, <1>4

(* What the discovery of tags queues after the packets pre.                  *)
LEMMA Detected ==
  ASSUME TypeOK, Detect, NEW pre \in Seq(Packets), out = pre
  PROVE  /\ Awaits(pre)' /\ out' \in Seq(Packets)
         /\ st' \in {"active", "select"} /\ (st' = "active" <=> act' # NoTag)
         /\ act' \in Tags \cup {NoTag} /\ found' \in Seq(Tags) /\ found' # <<>>
PROOF
<1>1. PICK order \in Orders(field) :
        /\ found' = order
        /\ IF Len(order) = 1
           THEN /\ st' = "active" /\ act' = order[1]
                /\ out' = Append(out, Activated(order[1]))
           ELSE /\ st' = "select" /\ act' = NoTag
                /\ out' = out \o [i \in DOMAIN order |->
                                    Discovered(order[i], IF i = Len(order) THEN 0 ELSE 2)]
  BY DEF Detect
<1>2. order \in Seq(Tags) /\ order # <<>> /\ DOMAIN order = 1 .. Len(order)
  BY OrderType DEF Detect
<1>3. Len(order) \in Nat \ {0} /\ \A i \in 1 .. Len(order) : order[i] \in Tags
  BY <1>2
<1>4. CASE Len(order) = 1
  <2>1. order[1] \in Tags
    BY <1>3, <1>4
  <2>2. Activated(order[1]) \in Packets
    BY <2>1, PacketTypes
  <2>3. out' = pre \o <<Activated(order[1])>> /\ out' \in Seq(Packets)
    BY <1>1, <1>4, <2>2, AppendCat
  <2>4. Activated(act)' = Activated(order[1])
    BY <1>1, <1>4 DEF Activated
  <2>5. Awaits(pre)'
    <3>1. st' = "active" /\ Len(found') = 1 /\ out' = pre \o <<Activated(act)'>>
      BY <1>1, <1>4, <2>3, <2>4
    <3>2. pre' = pre
      OBVIOUS
    <3> QED
      BY <3>1 DEF Awaits
  <2> QED
    BY <1>1, <1>2, <1>4, <2>1, <2>3, <2>5, LinkAssumption
<1>5. CASE Len(order) # 1
  <2> DEFINE Told(i) == Discovered(order[i], IF i = Len(order) THEN 0 ELSE 2)
             told == [i \in 1 .. Len(order) |-> Told(i)]
  <2>1. Announcements' = told
    BY <1>1 DEF Announcements, Announcement, Discovered
  <2>2. \A i \in 1 .. Len(order) : Told(i) \in Packets
    BY <1>3, PacketTypes
  <2>3. out' = out \o told
    BY <1>1, <1>2, <1>5
  <2> HIDE DEF Told
  <2>4. told \in Seq(Packets)
    BY <1>3, <2>2
  <2> HIDE DEF told
  <2>5. out' = pre \o Announcements' /\ out' \in Seq(Packets)
    BY <2>1, <2>3, <2>4, ConcatProperties
  <2>6. Awaits(pre)'
    <3>1. \A n \in Nat \ {0} : n # 1 => n > 1
      OBVIOUS
    <3>2. st' = "select" /\ Len(found') > 1
      BY <1>1, <1>3, <1>5, <3>1, Zenon
    <3> QED
      BY <2>5, <3>2 DEF Awaits
  <2> QED
    BY <1>1, <1>2, <1>5, <2>5, <2>6
<1> QED
  BY <1>4, <1>5

LEMMA DetectInv ==
  ASSUME IInv, Detect
  PROVE  IInv'
PROOF
<1>1. /\ TypeOK /\ Field /\ st = "discovering"
      /\ pc' = pc /\ answer' = answer /\ fresh' = fresh /\ rf' = rf /\ next_tag' = next_tag
      /\ saved' = saved /\ reads' = reads /\ field' = field /\ present' = present
      /\ stayed' = field /\ reported' = {}
  BY DEF Detect, hostVars, IInv
<1>2. pc \in {"wait", "recheck_ntf", "recheck_wait"}
  BY <1>1 DEF IInv, TypeOK, Locations, Queue, Answered, Tracked, Handed, Polling
<1> DEFINE Before == {<<>>, <<Rsp(3, 0)>>, <<Deactivated>>}
<1>3. Before \subseteq Seq(Packets)
  BY PacketTypes
<1>4. PICK pre \in Before : Awaits(pre) /\ \/ pc = "wait" /\ pre \in {<<>>, <<Rsp(3, 0)>>}
                                           \/ pc = "recheck_ntf" /\ pre = <<Deactivated>>
                                           \/ pc = "recheck_wait" /\ pre = <<>>
  BY <1>2 DEF IInv, Queue
<1> HIDE DEF Before
<1>5. out = pre
  BY <1>1, <1>4 DEF Awaits
<1>6. /\ Awaits(pre)' /\ out' \in Seq(Packets)
      /\ st' \in {"active", "select"} /\ (st' = "active" <=> act' # NoTag)
      /\ act' \in Tags \cup {NoTag} /\ found' \in Seq(Tags) /\ found' # <<>>
  BY <1>1, <1>3, <1>4, <1>5, Detected
<1>7. TypeOK'
  BY <1>1, <1>6 DEF TypeOK
<1>8. Queue'
  <2>1. CASE pc = "wait" /\ pre = <<>>
    <3>1. Awaits(<<>>)'
      BY <1>6, <2>1
    <3> QED
      BY <1>1, <2>1, <3>1 DEF Queue
  <2>2. CASE pc = "wait" /\ pre = <<Rsp(3, 0)>>
    <3>1. Awaits(<<Rsp(3, 0)>>)'
      BY <1>6, <2>2
    <3> QED
      BY <1>1, <2>2, <3>1 DEF Queue
  <2>3. CASE pc = "recheck_ntf" /\ pre = <<Deactivated>>
    <3>1. Awaits(<<Deactivated>>)'
      BY <1>6, <2>3
    <3> QED
      BY <1>1, <2>3, <3>1 DEF Queue
  <2>4. CASE pc = "recheck_wait" /\ pre = <<>>
    <3>1. Awaits(<<>>)'
      BY <1>6, <2>4
    <3> QED
      BY <1>1, <2>4, <3>1 DEF Queue
  <2> QED
    BY <1>4, <2>1, <2>2, <2>3, <2>4
<1>9. Answered' /\ Tracked' /\ Progress'
  <2>1. CASE pc = "wait"
    BY <1>1, <2>1, NothingKnown
  <2>2. CASE pc \in {"recheck_ntf", "recheck_wait"}
    BY <1>1, <2>2, Rechecking DEF IInv, Tracked
  <2> QED
    BY <1>2, <2>1, <2>2
<1>10. Field'
  BY <1>1, <1>6 DEF Field
<1> QED
  BY <1>7, <1>8, <1>9, <1>10 DEF IInv

(* A step of which the host and the controller take no notice.               *)
LEMMA Unnoticed ==
  ASSUME IInv, UNCHANGED <<hostVars, ctlVars, present, reported>>,
         field' \subseteq Tags, stayed' \subseteq stayed, stayed' \subseteq field'
  PROVE  IInv'
PROOF
<1>1. /\ pc' = pc /\ answer' = answer /\ fresh' = fresh /\ rf' = rf /\ next_tag' = next_tag
      /\ saved' = saved /\ reads' = reads /\ st' = st /\ found' = found /\ act' = act /\ out' = out
      /\ present' = present /\ reported' = reported
  BY DEF hostVars, ctlVars
<1>2. TypeOK'
  BY <1>1 DEF IInv, TypeOK
<1>3. Queue'
  <2>1. Frames => Frames'
    BY <1>1 DEF Frames
  <2>2. Announcements' = Announcements
    BY <1>1, SameAnnouncements
  <2>3. \A x : Awaits(<<x>>) => Awaits(<<x>>)'
    BY <1>1, <2>2 DEF Awaits, Activated
  <2>4. Awaits(<<>>) => Awaits(<<>>)'
    BY <1>1, <2>2 DEF Awaits, Activated
  <2> QED
    BY <1>1, <2>1, <2>2, <2>3, <2>4 DEF IInv, Queue
<1>4. Answered'
  BY <1>1 DEF IInv, Answered, Pollable, Activated
<1>5. Tracked'
  BY <1>1 DEF IInv, Tracked
<1>6. Progress'
  <2>1. Given(1) => Given(1)'
    BY <1>1 DEF Given
  <2>2. Given(2) => Given(2)'
    BY <1>1 DEF Given
  <2> QED
    BY <1>1, <2>1, <2>2 DEF IInv, Progress
<1>7. Field'
  BY <1>1 DEF IInv, Field
<1> QED
  BY <1>2, <1>3, <1>4, <1>5, <1>6, <1>7 DEF IInv

LEMMA EnvironmentInv ==
  ASSUME IInv, NEW t \in Tags, Arrive(t) \/ Leave(t)
  PROVE  IInv'
PROOF
<1>1. field \subseteq Tags /\ stayed \subseteq field
  BY DEF IInv, TypeOK, Field
<1>2. CASE Arrive(t)
  BY <1>1, <1>2, Unnoticed DEF Arrive, histVars
<1>3. CASE Leave(t)
  BY <1>1, <1>3, Unnoticed DEF Leave
<1> QED
  BY <1>2, <1>3

LEMMA StutterInv ==
  ASSUME IInv, UNCHANGED vars
  PROVE  IInv'
PROOF
<1>1. field \subseteq Tags /\ stayed \subseteq field
  BY DEF IInv, TypeOK, Field
<1> QED
  BY <1>1, Unnoticed DEF vars, histVars

LEMMA HostInv ==
  ASSUME IInv, Host
  PROVE  IInv'
PROOF
<1>1. CASE Discovery
  BY <1>1, StartDiscoveryInv, StopDiscoveryInv, WaitSkipsInv, WaitActivatedInv, WaitDiscoveredInv,
     RecheckInv, RecheckNtfInv, RecheckWaitInv, FlushInv DEF Discovery
<1>2. CASE Several
  BY <1>2, NextNtfInv, RemainingInv, SelectInv, SelectNtfInv, ActivateNextInv, SleepInv,
     SleepNtfInv, SelectNextInv, NextActInv DEF Several
<1>3. CASE Reading
  BY <1>3, ReaderInv, ReadExchangeInv, ReadDataInv, ReadEndsInv, NoMoreTagsInv DEF Reading
<1>4. CASE Presence
  BY <1>4, PresenceNoneInv, PresenceFrameInv, PresenceT3TInv, PresenceIsoDepInv, PresenceMifareInv,
     MifareNtfInv, MifareSelectInv, PresenceEndInv DEF Presence
<1> QED
  BY <1>1, <1>2, <1>3, <1>4 DEF Host

(* The invariant holds of every behaviour of the link.                       *)
THEOREM Invariance == Spec => []IInv
PROOF
<1>1. Init => IInv
  BY InitInv
<1>2. IInv /\ [Next]_vars => IInv'
  <2> SUFFICES ASSUME IInv, [Next]_vars PROVE IInv'
    OBVIOUS
  <2>1. CASE Next
    BY <2>1, HostInv, DetectInv, EnvironmentInv DEF Next, Environment
  <2>2. CASE UNCHANGED vars
    BY <2>2, StutterInv
  <2> QED
    BY <2>1, <2>2
<1> QED
  BY <1>1, <1>2, PTL DEF Spec

-----------------------------------------------------------------------------
(* The theorems *)

(* Whichever tags come and go, a task that waits for a discovery hears of    *)
(* it: discovery runs, or its notification is queued already.                *)
THEOREM WaitingCorrect == Spec => []WaitingIsHeard
PROOF
<1>1. IInv => WaitingIsHeard
  <2> SUFFICES ASSUME IInv, pc = "wait", st # "discovering"
               PROVE  \E i \in DOMAIN out : out[i].b0 = "61" /\ out[i].b1 \in {3, 5}
    BY DEF WaitingIsHeard
  <2>1. PICK pre \in {<<>>, <<Rsp(3, 0)>>} : Awaits(pre)
    BY DEF IInv, Queue
  <2>2. pre \in Seq(Packets) /\ Len(pre) \in {0, 1}
    <3>1. Rsp(3, 0) \in Packets
      BY PacketTypes
    <3>2. <<Rsp(3, 0)>> \in Seq(Packets) /\ Len(<<Rsp(3, 0)>>) = 1
      BY <3>1, OneOf
    <3>3. CASE pre = <<>>
      BY <3>3
    <3>4. CASE pre = <<Rsp(3, 0)>>
      BY <3>2, <3>4
    <3> QED
      BY <2>1, <3>3, <3>4
  <2>3. PICK s \in Seq(Packets) : /\ out = pre \o s /\ Len(s) \in Nat \ {0}
                                  /\ s[1].b0 = "61" /\ s[1].b1 \in {3, 5}
    <3>1. CASE st = "active" /\ out = pre \o <<Activated(act)>>
      <4>1. Activated(act) \in Packets
        BY <3>1, PacketTypes DEF IInv, Field, TypeOK
      <4>2. <<Activated(act)>> \in Seq(Packets) /\ Len(<<Activated(act)>>) = 1
            /\ <<Activated(act)>>[1] = Activated(act)
        BY <4>1, OneOf
      <4>3. Activated(act).b0 = "61" /\ Activated(act).b1 = 5
        BY PacketFields
      <4> DEFINE told == <<Activated(act)>>
      <4>4. told \in Seq(Packets) /\ Len(told) \in Nat \ {0} /\ out = pre \o told
            /\ told[1].b0 = "61" /\ told[1].b1 \in {3, 5}
        BY <3>1, <4>2, <4>3
      <4> HIDE DEF told
      <4> QED
        BY <4>4
    <3>2. CASE Len(found) > 1 /\ out = pre \o Announcements
      <4>1. found \in Seq(Tags) /\ Len(found) \in Nat \ {0} /\ 1 \in 1 .. Len(found)
        BY <3>2 DEF IInv, TypeOK
      <4>2. /\ Announcements \in Seq(Packets) /\ Len(Announcements) \in Nat \ {0}
            /\ Announcements[1].b0 = "61" /\ Announcements[1].b1 = 3
        BY <4>1, AnnouncementsType
      <4> QED
        BY <3>2, <4>2
    <3> QED
      BY <2>1, <3>1, <3>2 DEF Awaits
  <2>4. /\ Len(pre \o s) = Len(pre) + Len(s)
        /\ \A i \in 1 .. Len(pre) + Len(s) : (pre \o s)[i] = IF i <= Len(pre) THEN pre[i] ELSE s[i - Len(pre)]
    BY <2>2, ConcatProperties
  <2>5. (pre \o s)[Len(pre) + 1] = s[1] /\ Len(pre) + 1 \in 1 .. Len(pre \o s)
    BY <2>2, <2>3, <2>4
  <2>6. pre \o s \in Seq(Packets)
    BY <2>2, ConcatProperties
  <2> QED
    BY <2>3, <2>5, <2>6
<1> QED
  BY <1>1, Invariance, PTL

(* What the reader is handed is what is in front of the antenna: the active  *)
(* tag, or a device of the same kind that took its place; and of several     *)
(* tags that stay, the first two are both handed over.                       *)
THEOREM TagsHandedCorrect == Spec => []TagsHanded
PROOF
<1>1. IInv => TagsHanded
  <2> SUFFICES ASSUME IInv PROVE TypeOK /\ ReportedIsActive /\ BothReported
    BY DEF TagsHanded
  <2>1. ReportedIsActive
    BY DEF IInv, Tracked, Field, Handed, ReportedIsActive
  <2>2. BothReported
    BY DEF IInv, Progress, Polling, Given, BothReported
  <2> QED
    BY <2>1, <2>2 DEF IInv
<1> QED
  BY <1>1, Invariance, PTL

(* The loop over the frames of a chained answer runs dry only when the tag   *)
(* has left.                                                                 *)
THEOREM ChainCorrect == Spec => []ChainIsFed
PROOF
<1>1. IInv => ChainIsFed
  BY DEF IInv, Queue, Frames, ChainIsFed
<1> QED
  BY <1>1, Invariance, PTL

(* The presence check of a tag that can be polled and was there at the last  *)
(* poll goes on.                                                             *)
THEOREM PresenceCorrect == Spec => PresenceSound
PROOF
<1> DEFINE Ends == pc = "presence_end" /\ pc' = "stop" /\ Pollable
<1>1. IInv /\ [Next]_vars => [Ends => ~present]_vars
  <2> SUFFICES ASSUME IInv, Next, Ends, present PROVE FALSE
    BY DEF vars
  <2>1. PresenceEnd
    BY DEF Next, Host, Discovery, Several, Reading, Presence, Detect, Environment, Arrive, Leave,
           StartDiscovery, StopDiscovery, WaitSkips, WaitActivated, WaitDiscovered, Recheck,
           RecheckNtf, RecheckWait, Flush, NextNtf, Remaining, Select, SelectNtf, ActivateNext,
           Sleep, SleepNtf, SelectNext, NextAct, Reader, ReadExchange, ReadData, ChainFrame,
           ReadEnds, NoMoreTags, PresenceNone, PresenceFrame, PresenceT3T, PresenceIsoDep, PresenceMifare,
           MifareNtf, MifareSelect, At, hostVars
  <2>2. Receive /\ ~StillThere /\ TypeOK
    BY <2>1 DEF PresenceEnd, IInv
  <2>3. \/ Protocol[rf.tag] \in FrameKinds /\ out = <<Data(0)>>
        \/ Protocol[rf.tag] = "t3t" /\ out = <<PollingNtf(0)>>
        \/ Protocol[rf.tag] = "isodep" /\ out = <<PresenceNtf(1)>>
        \/ Protocol[rf.tag] = "mifare" /\ \E t \in Tags : out = <<Activated(t)>>
    BY DEF IInv, Answered
  <2>4. CASE Protocol[rf.tag] \in FrameKinds /\ out = <<Data(0)>>
    <3>1. answer' = Data(0) /\ fresh' = TRUE
      BY <2>2, <2>4, PacketTypes, HeardOne
    <3>2. Is("00", 0) /\ answer'.b3 = 0
      BY <3>1, PacketFields DEF Is
    <3>3. StillThere
      BY <2>4, <3>1, <3>2 DEF FrameKinds, StillThere
    <3> QED
      BY <2>2, <3>3
  <2>7. CASE Protocol[rf.tag] = "t3t" /\ out = <<PollingNtf(0)>>
    <3>1. answer' = PollingNtf(0)
      BY <2>2, <2>7, PacketTypes, HeardOne
    <3>2. Is("61", 8) /\ answer'.b3 = 0
      BY <3>1, PacketFields DEF Is
    <3>3. StillThere
      BY <2>7, <3>2 DEF StillThere
    <3> QED
      BY <2>2, <3>3
  <2>5. CASE Protocol[rf.tag] = "isodep" /\ out = <<PresenceNtf(1)>>
    <3>1. answer' = PresenceNtf(1)
      BY <2>2, <2>5, PacketTypes, HeardOne
    <3>2. Is("6F", 17) /\ answer'.b3 = 1
      BY <3>1, PacketFields DEF Is
    <3>3. StillThere
      BY <2>5, <3>2 DEF StillThere
    <3> QED
      BY <2>2, <3>3
  <2>6. CASE Protocol[rf.tag] = "mifare" /\ \E t \in Tags : out = <<Activated(t)>>
    <3>1. PICK t \in Tags : out = <<Activated(t)>>
      BY <2>6
    <3>2. answer' = Activated(t)
      BY <2>2, <3>1, PacketTypes, HeardOne
    <3>3. Is("61", 5)
      BY <3>2, PacketFields DEF Is
    <3>4. StillThere
      BY <2>6, <3>3 DEF StillThere
    <3> QED
      BY <2>2, <3>4
  <2> QED
    BY <2>3, <2>4, <2>5, <2>6, <2>7
<1> QED
  BY <1>1, Invariance, PTL DEF Spec, PresenceSound
=============================================================================
