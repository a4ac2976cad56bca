------------------------------- MODULE P2PSnep -------------------------------
(***************************************************************************)
(* Peer-to-peer mode: P2P_NDEF.c, which is a SNEP server and a SNEP client  *)
(* at once over one LLCP link, and the loop that feeds it,                  *)
(* NxpNci_ProcessP2pMode (NxpNci20.c), against a peer whose own client and   *)
(* server send when they like, one PDU for each of the host's.  As with      *)
(* CardEmu, the files are built but this application does not call them.    *)
(*                                                                          *)
(* The pair of addresses of a PDU is the connection it belongs to: "server"  *)
(* (the peer's client and this server), "client" (this client and the        *)
(* peer's server), "other", or "link" (0, 0), that of a SYMM.  A message is  *)
(* the number of its bytes; a fragment, the position of its first byte and   *)
(* its length.                                                              *)
(***************************************************************************)
EXTENDS Naturals, Sequences

CONSTANTS
  Traffic,        \* pairs: size of the application's message, 0 for none, and of a
                  \* message that the peer puts to it
  Frame,          \* P2P_NDEF_SNEP_MAX_FRAME_SIZE
  Pieces,         \* lengths of the peer's fragments
  MaxPuts,        \* bound on its messages in an activation
  MaxConnects,    \* bound on its connections in an activation
  MaxResends,     \* bound on the messages set in the push callback
  MaxActivations  \* bound on the activations

ASSUME P2PAssumption ==
  /\ Traffic \subseteq Nat \X (Nat \ {0})
  /\ Frame \in Nat \ {0} /\ Pieces \subseteq Nat \ {0}
  /\ {MaxPuts, MaxConnects, MaxResends, MaxActivations} \subseteq Nat

VARIABLES
  own, pull,        \* NdefMessage_size; a pull callback is registered
  client, delay,    \* eP2P_SnepClient_State, P2P_SnepClient_DelayCount
  size, frag, ptr,  \* gP2P_NDEF_size, gP2P_DEF_fragmentation, gP2P_NDEF_ptr
  nr, ns,           \* gP2P_NDEF_curNR, gP2P_NDEF_curNS
  pc, restart,      \* where the task is; the local variable
  reply,            \* the PDU to be sent
  st, out, lost,    \* controller: state, packets to be read, lost the peer
  role, epoch,      \* "polled" or "listened", number of the activation
  turn,             \* the peer is to send the next PDU
  cl, sv,           \* the peer's client and server
  serving,          \* history: the activation that the loop is in
  handed,           \* history: bytes of a message handed to the application in order
  resends, pushed,  \* history: messages set anew; the push callback was called
  late,             \* history: a frame was not acknowledged by the next PDU
  crossed,          \* history: a reception was broken off, or mixed with a push
  spoiled           \* history: the peer's server was sent a frame it refuses

msgVars  == <<own, pull>>
ndefVars == <<client, delay, size, frag, ptr, nr, ns>>
ctlVars  == <<st, out, lost, role, epoch>>
peerVars == <<turn, cl, sv, late, spoiled>>
histVars == <<handed, resends, pushed, crossed>>
hostVars == <<pc, restart, reply, serving>>
vars == <<msgVars, ndefVars, hostVars, ctlVars, peerVars, histVars>>

Pdu(kind, conn) ==
  [pdu |-> kind, conn |-> conn, ns |-> 0, nr |-> 0, snep |-> "none", from |-> 0, len |-> 0, size |-> 0]

(* An information PDU; p has the rest of its fields.                         *)
Info(conn, s, r, snep)    == [Pdu("I", conn) EXCEPT !.ns = s, !.nr = r, !.snep = snep]
Portion(p, from, len, total) == [p EXCEPT !.from = from, !.len = len, !.size = total]

Symm == Pdu("SYMM", "link")
None == Pdu("none", "link")

Packet(kind) == [kind |-> kind, pdu |-> None, epoch |-> 0]

IdleCl == [at |-> "off", total |-> 1, sent |-> 0, ns |-> 0, nr |-> 0, puts |-> 0, connects |-> 0]
IdleSv == [at |-> "off", due |-> FALSE, bytes |-> 0, ns |-> 0, nr |-> 0]

Init ==
  /\ own \in {t[1] : t \in Traffic} /\ pull \in BOOLEAN
  /\ client = "Initial" /\ delay = 2 /\ size = 0 /\ frag = 0 /\ ptr = 0 /\ nr = 0 /\ ns = 0
  /\ pc = "wait" /\ restart = FALSE /\ reply = None /\ serving = 0
  /\ st = "discovering" /\ out = <<>> /\ lost = FALSE /\ role = "polled" /\ epoch = 0
  /\ turn = FALSE /\ cl = IdleCl /\ sv = IdleSv /\ late = FALSE /\ spoiled = FALSE
  /\ handed = 0 /\ resends = 0 /\ pushed = FALSE /\ crossed = FALSE

-----------------------------------------------------------------------------
(* P2P_NDEF_Next: what it does with a PDU, then, when that is not answered,  *)
(* what the client has to say.                                               *)

(* Mutant of INC: numbers go up to 15 and then stay there.                   *)
INC_Saturates(x) == IF x = 15 THEN 15 ELSE x + 1

(* The number in the PDU; gP2P_NDEF_curNR itself becomes 16 (see Counted).   *)
INC(x) == (x + 1) % 16

(* The push callback, and P2P_NDEF_SetMessage if it sets a message again.    *)
Pushed ==
  /\ pushed' = TRUE
  /\ \/ client' = "NdefMsgSent" /\ UNCHANGED resends
     \/ client' = "SnepClientConnected" /\ resends < MaxResends /\ resends' = resends + 1

Says(q) == reply' = q /\ UNCHANGED <<pushed, resends>>

(* (curNS << 4) + curNR in one byte: a 16 that INC has left in curNR is      *)
(* carried into the frame number.                                            *)
Numbered(p, snep) == Info(p.conn, (ns' + nr' \div 16) % 16, nr' % 16, snep)

ClientPuts(p) ==
  LET head == Numbered(p, "put")
  IN  \/ /\ own <= Frame
         /\ reply' = Portion(head, 0, own, own)
         /\ Pushed /\ UNCHANGED ptr
      \/ /\ own > Frame
         /\ Says(Portion(head, 0, Frame, own))
         /\ ptr' = Frame /\ client' = "NdefMsgWaitingForContinue"

(* Mutant of ClientSends: off by one, the last byte is left out.             *)
ClientSends_Short(p) ==
  LET head == Numbered(p, "more")
  IN  \/ /\ ptr + Frame + 1 >= own
         /\ reply' = Portion(head, ptr, own - ptr - 1, own)
         /\ Pushed /\ UNCHANGED ptr
      \/ /\ ptr + Frame + 1 < own
         /\ Says(Portion(head, ptr, Frame, own))
         /\ ptr' = ptr + Frame /\ client' = "NdefMsgSending"

ClientSends(p) ==
  LET head == Numbered(p, "more")
  IN  \/ /\ ptr + Frame >= own
         /\ reply' = Portion(head, ptr, own - ptr, own)
         /\ Pushed /\ UNCHANGED ptr
      \/ /\ ptr + Frame < own
         /\ Says(Portion(head, ptr, Frame, own))
         /\ ptr' = ptr + Frame /\ client' = "NdefMsgSending"

(* While a reception goes on, a client whose delay is over leaves the answer *)
(* empty.                                                                    *)
Delaying ==
  /\ UNCHANGED ptr
  /\ \/ /\ delay = 2
        /\ IF frag = 0 THEN Says(Pdu("CONNECT", "client")) /\ client' = "SnepClientConnecting"
                        ELSE Says(Pdu("empty", "link")) /\ client' = "DelayingPush"
        /\ UNCHANGED delay
     \/ delay # 2 /\ delay' = delay + 1 /\ Says(Symm) /\ client' = "DelayingPush"

(* s is the client's state after the first half.                             *)
ClientStep(p, s) ==
  \/ /\ s = "Initial"
     /\ UNCHANGED ptr
     /\ IF pull THEN Says(Symm) /\ delay' = 1 /\ client' = "DelayingPush"
                ELSE Says(Pdu("CONNECT", "client")) /\ client' = "SnepClientConnecting" /\ UNCHANGED delay
  \/ s = "DelayingPush" /\ Delaying
  \/ s = "SnepClientConnected" /\ ClientPuts(p) /\ UNCHANGED delay
  \/ s = "NdefMsgSending" /\ ClientSends(p) /\ UNCHANGED delay
  \/ s \in {"Idle", "SnepClientConnecting", "NdefMsgWaitingForContinue", "NdefMsgSent"}
     /\ Says(Symm) /\ client' = s /\ UNCHANGED <<ptr, delay>>

NoClientStep(q) == Says(q) /\ UNCHANGED <<client, delay, ptr>>

(* A request to connect to anything but SNEP is refused; of one without a    *)
(* name, the name is what the stack holds.                                   *)
Connect(p) ==
  /\ p.pdu = "CONNECT"
  /\ \E snep \in (IF p.snep = "unnamed" THEN BOOLEAN ELSE {p.snep = "snep"}) :
       \/ snep /\ pull /\ nr' = 0 /\ ns' = 0 /\ NoClientStep(Pdu("CC", p.conn))
       \/ snep /\ ~pull /\ UNCHANGED <<nr, ns>> /\ ClientStep(p, client)
       \/ ~snep /\ UNCHANGED <<nr, ns>> /\ NoClientStep(Pdu("DM", p.conn))
  /\ UNCHANGED <<size, frag, handed>>

(* The numbers of a frame, and what is left of them when INC has counted it. *)
Numbers(p) == nr' = p.ns /\ ns' = p.nr
Counted(p) == nr' = p.ns + 1 /\ ns' = p.nr

(* The bytes of a frame that follow the three of its LLCP header.            *)
Payload(p) == IF p.snep = "more" THEN p.len ELSE 6 + p.len

(* The application knows the bytes of a message by their order only.         *)
Handed(p) == IF ~pull THEN handed ELSE IF p.from = handed THEN handed + p.len ELSE 0

FirstFrame(p) ==
  /\ p.pdu = "I" /\ frag = 0
  /\ \/ /\ p.snep = "put"
        /\ Counted(p)
        /\ size' = p.size
        /\ handed' = IF pull THEN p.len ELSE handed
        /\ IF p.size <= p.len
           THEN UNCHANGED frag /\ NoClientStep(Info(p.conn, p.nr, INC(p.ns), "success"))
           ELSE frag' = p.len /\ NoClientStep(Info(p.conn, p.nr, INC(p.ns), "continue"))
     \/ /\ p.snep # "put"
        /\ Numbers(p)
        /\ ClientStep(p, IF p.snep = "continue" THEN "NdefMsgSending" ELSE client)
        /\ UNCHANGED <<size, frag, handed>>

(* Mutant of LaterFrame: the header of the first frame is counted again.     *)
LaterFrame_CountsHeader(p) ==
  /\ p.pdu = "I" /\ frag # 0
  /\ Counted(p)
  /\ handed' = Handed(p)
  /\ LET done == frag + Payload(p) + 1
     IN  IF done >= size
         THEN frag' = 0 /\ NoClientStep(Info(p.conn, p.nr, INC(p.ns), "success"))
         ELSE frag' = done /\ NoClientStep([Pdu("RR", p.conn) EXCEPT !.nr = INC(p.ns)])
  /\ UNCHANGED size

(* Any information PDU, of either connection, is the next fragment.          *)
LaterFrame(p) ==
  /\ p.pdu = "I" /\ frag # 0
  /\ Counted(p)
  /\ handed' = Handed(p)
  /\ LET done == frag + Payload(p)
     IN  IF done = size
         THEN frag' = 0 /\ NoClientStep(Info(p.conn, p.nr, INC(p.ns), "success"))
         ELSE frag' = done /\ NoClientStep([Pdu("RR", p.conn) EXCEPT !.nr = INC(p.ns)])
  /\ UNCHANGED size

Connected(p) ==
  /\ p.pdu = "CC"
  /\ nr' = 0 /\ ns' = 0
  /\ ClientStep(p, "SnepClientConnected")
  /\ UNCHANGED <<size, frag, handed>>

Acknowledged(p) ==
  /\ p.pdu = "RR"
  /\ ns' = p.nr /\ UNCHANGED nr
  /\ IF frag # 0 THEN NoClientStep(Symm) ELSE ClientStep(p, client)
  /\ UNCHANGED <<size, frag, handed>>

OtherPdu(p) ==
  /\ p.pdu \in {"SYMM", "DISC", "DM"}
  /\ UNCHANGED <<nr, ns>>
  /\ ClientStep(p, client)
  /\ UNCHANGED <<size, frag, handed>>

(* What the reception and the push do not survive together.                  *)
Crosses(p) == frag # 0 /\ (p.pdu = "DISC" \/ (p.conn = "client" /\ p.pdu \in {"I", "RR"}))

P2P_NDEF_Next(p) ==
  /\ Connect(p) \/ FirstFrame(p) \/ LaterFrame(p) \/ Connected(p) \/ Acknowledged(p) \/ OtherPdu(p)
  /\ crossed' = (crossed \/ Crosses(p))

-----------------------------------------------------------------------------
(* The peer: an LLCP peer with a SNEP client and a SNEP server *)

(* Its client goes on when it is answered with the right numbers.            *)
ClHears(q) ==
  LET right == q.conn = "server" /\ q.nr = cl.ns
  IN  CASE q.pdu = "CC" /\ cl.at = "asked" -> [cl EXCEPT !.at = "on", !.ns = 0, !.nr = 0]
        [] q.pdu = "RR" /\ right /\ cl.at = "waiting" /\ cl.sent > 0 -> [cl EXCEPT !.at = "more"]
        [] q.pdu = "I" /\ right /\ q.ns = cl.nr /\ q.snep \in {"continue", "success"} ->
             [cl EXCEPT !.at = IF q.snep = "success" THEN "done" ELSE "more", !.nr = (q.ns + 1) % 16]
        [] OTHER -> cl

IsPush(q) == q.pdu = "I" /\ q.snep \in {"put", "more"}

(* Its server takes a frame of its own connection with the number it expects *)
(* and the bytes that follow those it has.                                   *)
Accepts(q) == q.conn = "client" /\ q.ns = sv.nr /\ q.from = (IF q.snep = "put" THEN 0 ELSE sv.bytes)

SvHears(q) ==
  CASE q.pdu = "CONNECT" -> [sv EXCEPT !.at = "asked"]
    [] IsPush(q) /\ Accepts(q) ->
         [sv EXCEPT !.due = TRUE, !.bytes = q.from + q.len, !.nr = (sv.nr + 1) % 16,
                    !.at = IF q.from + q.len = q.size THEN "success" ELSE IF q.snep = "put" THEN "continue" ELSE "on"]
    [] OTHER -> sv

PeerHears(q) ==
  /\ turn' = TRUE
  /\ cl' = ClHears(q) /\ sv' = SvHears(q)
  /\ spoiled' = (spoiled \/ (IsPush(q) /\ ~Accepts(q)))
  /\ UNCHANGED late

Linked == st = "active" /\ ~lost

Acks(p) == p.conn = "client" /\ p.pdu \in {"I", "RR"}

PeerSends(p) ==
  /\ Linked /\ turn
  /\ turn' = FALSE
  /\ out' = Append(out, [Packet("data") EXCEPT !.pdu = p])
  /\ late' = (late \/ (sv.due /\ ~Acks(p)))
  /\ UNCHANGED <<msgVars, ndefVars, hostVars, st, lost, role, epoch, spoiled, histVars>>

PeerSymm == PeerSends(Symm) /\ UNCHANGED <<cl, sv>>

PeerConnects(service) ==
  /\ cl.at = "off" /\ cl.connects < MaxConnects
  /\ PeerSends([Pdu("CONNECT", IF service = "snep" THEN "server" ELSE "other") EXCEPT !.snep = service])
  /\ cl' = [cl EXCEPT !.at = IF service = "snep" THEN "asked" ELSE "off", !.connects = cl.connects + 1]
  /\ UNCHANGED sv

PeerPuts(total, len) ==
  /\ cl.at \in {"on", "done"} /\ cl.puts < MaxPuts
  /\ len <= total
  /\ PeerSends(Portion(Info("server", cl.ns, cl.nr, "put"), 0, len, total))
  /\ cl' = [cl EXCEPT !.at = "waiting", !.total = total, !.sent = len, !.ns = (cl.ns + 1) % 16,
                      !.puts = cl.puts + 1]
  /\ UNCHANGED sv

PeerContinues(len) ==
  /\ cl.at = "more" /\ cl.sent + len <= cl.total
  /\ PeerSends(Portion(Info("server", cl.ns, cl.nr, "more"), cl.sent, len, cl.total))
  /\ cl' = [cl EXCEPT !.at = "waiting", !.sent = cl.sent + len, !.ns = (cl.ns + 1) % 16]
  /\ UNCHANGED sv

(* It may acknowledge a CONTINUE before it continues.                        *)
PeerClientAcks ==
  /\ cl.at = "more"
  /\ PeerSends([Pdu("RR", "server") EXCEPT !.nr = cl.nr])
  /\ UNCHANGED <<cl, sv>>

(* Its client breaks off, or is through.                                     *)
PeerDisconnects ==
  /\ cl.at \notin {"off", "asked"}
  /\ PeerSends(Pdu("DISC", "server"))
  /\ cl' = [cl EXCEPT !.at = "off"]
  /\ UNCHANGED sv

PeerAccepts(yes) ==
  /\ sv.at = "asked"
  /\ PeerSends(Pdu(IF yes THEN "CC" ELSE "DM", "client"))
  /\ sv' = [sv EXCEPT !.at = IF yes THEN "on" ELSE "refused"]
  /\ UNCHANGED cl

PeerServerAcks ==
  /\ sv.due
  /\ PeerSends([Pdu("RR", "client") EXCEPT !.nr = sv.nr])
  /\ sv' = [sv EXCEPT !.due = FALSE]
  /\ UNCHANGED cl

PeerResponds ==
  /\ sv.at \in {"continue", "success"}
  /\ PeerSends(Info("client", sv.ns, sv.nr, sv.at))
  /\ sv' = [sv EXCEPT !.at = "on", !.due = FALSE, !.ns = (sv.ns + 1) % 16]
  /\ UNCHANGED cl

PeerSpeaks ==
  \/ PeerSymm \/ PeerClientAcks \/ PeerDisconnects \/ PeerServerAcks \/ PeerResponds
  \/ \E service \in {"snep", "other", "unnamed"} : PeerConnects(service)
  \/ \E t \in Traffic, len \in Pieces : own = t[1] /\ PeerPuts(t[2], len)
  \/ \E len \in Pieces : PeerContinues(len)
  \/ \E yes \in BOOLEAN : PeerAccepts(yes)

(* A target that is activated, or that this device is activated as.          *)
PeerArrives(r) ==
  /\ st = "discovering" /\ epoch < MaxActivations
  /\ st' = "active" /\ lost' = FALSE /\ role' = r /\ epoch' = epoch + 1
  /\ out' = Append(out, [Packet(r) EXCEPT !.epoch = epoch'])
  /\ turn' = (r = "listened") /\ cl' = IdleCl /\ sv' = IdleSv
  /\ late' = FALSE /\ spoiled' = FALSE
  /\ UNCHANGED <<msgVars, ndefVars, hostVars, histVars>>

(* The link is polled on until the host ends it; listening ends by itself.   *)
(* What a peer that has gone knew is of no consequence.                      *)
PeerLeaves ==
  /\ Linked
  /\ IF role = "polled"
     THEN lost' = TRUE /\ out' = Append(out, Packet("error")) /\ UNCHANGED st
     ELSE st' = "discovering" /\ out' = Append(out, Packet("deactivated")) /\ UNCHANGED lost
  /\ turn' = FALSE /\ cl' = IdleCl /\ sv' = IdleSv /\ late' = FALSE /\ spoiled' = FALSE
  /\ UNCHANGED <<msgVars, ndefVars, hostVars, role, epoch, histVars>>

-----------------------------------------------------------------------------
(* NxpNci_ProcessP2pMode *)

At(from, to) == pc = from /\ pc' = to

(* The packet received is the head of the queue.                             *)
Take(queue) == queue # <<>> /\ out' = Tail(queue)

IsActivation(packet) == packet.kind \in {"polled", "listened"}

(* Without a link the controller reports an error or nothing.  The peer that *)
(* the packet is for may have gone, and another come.                        *)
SendData(q) ==
  /\ \E now \in (IF Linked THEN {<<Packet("credits")>>} ELSE {<<>>, <<Packet("error")>>}) :
       Take(out \o now) \/ (out \o now = <<>> /\ UNCHANGED out)
  /\ IF Linked /\ serving = epoch THEN PeerHears(q) ELSE UNCHANGED peerVars
  /\ UNCHANGED <<st, lost, role, epoch>>

P2P_NDEF_Reset ==
  /\ frag' = 0
  /\ client' = IF own # 0 THEN "Initial" ELSE "Idle"
  /\ UNCHANGED <<delay, size, ptr, nr, ns>>

(* The task waits for an activation and passes over all else.                *)
Activated ==
  /\ pc = "wait"
  /\ Take(out)
  /\ IF IsActivation(Head(out))
     THEN /\ P2P_NDEF_Reset
          /\ pc' = IF Head(out).kind = "polled" THEN "greet" ELSE "p2p"
          /\ restart' = FALSE
          /\ serving' = Head(out).epoch
          /\ handed' = 0 /\ resends' = 0 /\ pushed' = FALSE /\ crossed' = FALSE
     ELSE UNCHANGED <<pc, restart, serving, ndefVars, histVars>>
  /\ UNCHANGED <<msgVars, reply, st, lost, role, epoch, peerVars>>

(* Three seconds without a packet: the task calls it again.                  *)
WaitSilent == pc = "wait" /\ out = <<>> /\ UNCHANGED vars

(* Mutant of Greet: the initiator forgets that discovery must be restarted.  *)
Greet_NoRestart ==
  /\ At("greet", "p2p")
  /\ UNCHANGED restart
  /\ SendData(Symm)
  /\ UNCHANGED <<msgVars, ndefVars, reply, serving, histVars>>

Greet ==
  /\ At("greet", "p2p")
  /\ restart' = TRUE
  /\ SendData(Symm)
  /\ UNCHANGED <<msgVars, ndefVars, reply, serving, histVars>>

loopVars == <<msgVars, serving, st, lost, role, epoch, peerVars>>

P2pData ==
  /\ At("p2p", "send")
  /\ Take(out)
  /\ Head(out).kind = "data"
  /\ P2P_NDEF_Next(Head(out).pdu)
  /\ UNCHANGED <<restart, loopVars>>

(* The packet taken with the response is dropped.                            *)
P2pReply ==
  /\ At("send", "p2p")
  /\ SendData(reply)
  /\ reply' = None
  /\ UNCHANGED <<msgVars, ndefVars, restart, serving, histVars>>

P2pEnds ==
  /\ At("p2p", "over")
  /\ Take(out)
  /\ Head(out).kind \in {"error", "deactivated"}
  /\ UNCHANGED <<ndefVars, restart, reply, loopVars, histVars>>

(* The next activation, of a peer that is not served.                        *)
P2pFound ==
  /\ pc \in {"p2p", "found"}
  /\ \/ /\ Take(out)
        /\ pc = "p2p" => IsActivation(Head(out))
        /\ pc' = "found"
        /\ restart' = IF IsActivation(Head(out)) THEN Head(out).kind = "polled" ELSE restart
     \/ pc = "found" /\ out = <<>> /\ pc' = "over" /\ UNCHANGED <<out, restart>>
  /\ UNCHANGED <<ndefVars, reply, loopVars, histVars>>

(* Two seconds without a packet, more than a peer may take to answer.        *)
P2pSilent ==
  /\ At("p2p", "over")
  /\ out = <<>> /\ ~(Linked /\ turn)
  /\ UNCHANGED <<ndefVars, restart, reply, ctlVars, msgVars, serving, peerVars, histVars>>

(* Deactivation to discovery, its response and notification.                 *)
Over ==
  /\ pc = "over"
  /\ \/ /\ restart /\ pc' = "settle"
        /\ Take(out \o (IF st = "active" THEN <<Packet("released"), Packet("deactivated")>>
                                         ELSE <<Packet("released")>>))
        /\ st' = "discovering" /\ lost' = FALSE /\ turn' = FALSE
     \/ ~restart /\ pc' = "wait" /\ UNCHANGED <<st, out, lost, turn>>
  /\ UNCHANGED <<msgVars, ndefVars, restart, reply, serving, role, epoch, cl, sv, late, spoiled, histVars>>

Settle ==
  /\ At("settle", "wait")
  /\ IF out = <<>> THEN UNCHANGED out ELSE Take(out)
  /\ UNCHANGED <<ndefVars, restart, reply, loopVars, histVars>>

-----------------------------------------------------------------------------
Host ==
  \/ Activated \/ WaitSilent \/ Greet \/ P2pData \/ P2pReply
  \/ P2pEnds \/ P2pFound \/ P2pSilent \/ Over \/ Settle

Next == Host \/ PeerSpeaks \/ PeerLeaves \/ \E r \in {"polled", "listened"} : PeerArrives(r)

Spec == Init /\ [][Next]_vars

(* The worker runs; a peer answers each PDU, and while it stays, its server  *)
(* responds in the end and its client goes on with what it has begun.        *)
FairSpec ==
  /\ Spec /\ WF_vars(Host) /\ WF_vars(PeerSpeaks)
  /\ SF_vars(PeerResponds) /\ SF_vars(\E len \in Pieces : PeerContinues(len))

-----------------------------------------------------------------------------
(* Properties *)

TypeOK ==
  /\ client \in {"Idle", "Initial", "DelayingPush", "SnepClientConnecting", "SnepClientConnected",
                 "NdefMsgWaitingForContinue", "NdefMsgSending", "NdefMsgSent"}
  /\ delay \in 1 .. 2 /\ {size, frag, ptr, handed} \subseteq Nat /\ nr \in 0 .. 16 /\ ns \in 0 .. 15
  /\ pc \in {"wait", "greet", "p2p", "send", "found", "over", "settle"} /\ restart \in BOOLEAN
  /\ st \in {"discovering", "active"} /\ role \in {"polled", "listened"}
  /\ serving \in 0 .. epoch /\ epoch \in 0 .. MaxActivations
  /\ ptr <= own

(* The peer is told that its message has arrived only when the application   *)
(* has been handed all of it, in order, unless the reception was broken off  *)
(* or mixed with a push.                                                     *)
SuccessMeansAll ==
  pc = "send" /\ serving = epoch /\ reply.snep = "success" /\ ~crossed => handed = size

(* The peer's server can put the message together: each frame of a push has  *)
(* its connection's addresses, its number and the bytes that come next, if   *)
(* the peer acknowledges each frame with its next PDU.                       *)
PushInSequence == spoiled => late \/ crossed

(* The application is told of a push when a peer that stays has all of it.   *)
PushTellsAll ==
  pc = "p2p" /\ serving = epoch /\ Linked /\ pushed /\ resends = 0 /\ ~spoiled => sv.bytes = own

(* A push is sent as the peer can take it, and reported as it took it.       *)
PushSound == TypeOK /\ PushInSequence /\ PushTellsAll

(* A message that the peer has begun to put is taken to the end, whatever    *)
(* the fragments and however often their numbers wrap around, unless the     *)
(* peer disconnects or leaves.                                               *)
PutCompletes == cl.at = "more" /\ serving = epoch ~> cl.at \in {"done", "off"} \/ ~Linked \/ crossed

(* A push that the peer's server has accepted is completed.                  *)
PushCompletes == sv.at = "on" /\ serving = epoch ~> pushed \/ ~Linked \/ crossed

(* Transfers end, whichever way they go.                                    *)
TransfersComplete == PutCompletes /\ PushCompletes

(* A link whose peer is gone is given up, so that others can be found.       *)
LinkReleased == lost ~> ~lost
=============================================================================
