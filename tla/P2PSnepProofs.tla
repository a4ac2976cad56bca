--------------------------- MODULE P2PSnepProofs ---------------------------
(***************************************************************************)
(* Theorems of P2PSnep, for every traffic, frame size and number of         *)
(* activations: a success is sent when all has been handed over, and a      *)
(* push is sent as the peer's server can take it.                           *)
(*                                                                          *)
(* Host and peer take turns, so at most one PDU of the current activation   *)
(* is in the queue, in the host or with the peer; the invariant says at     *)
(* each of these places how the two ends of both connections agree.         *)
(***************************************************************************)
EXTENDS P2PSnep, TLAPS

Kinds == {"polled", "listened", "data", "credits", "error", "deactivated", "released"}

Pdus ==
  [pdu : {"SYMM", "none", "empty", "CONNECT", "CC", "DM", "DISC", "RR", "I"},
   conn : {"server", "client", "other", "link"}, ns : 0 .. 15, nr : 0 .. 15,
   snep : {"none", "snep", "other", "unnamed", "put", "more", "continue", "success"},
   from : Nat, len : Nat, size : Nat]

Packets == [kind : Kinds, pdu : Pdus, epoch : Nat]

Clients ==
  [at : {"off", "asked", "on", "waiting", "more", "done"}, total : Nat, sent : Nat,
   ns : 0 .. 15, nr : 0 .. 15, puts : Nat, connects : Nat]

Servers ==
  [at : {"off", "asked", "refused", "on", "continue", "success"}, due : BOOLEAN, bytes : Nat,
   ns : 0 .. 15, nr : 0 .. 15]

Typed ==
  /\ own \in Nat /\ pull \in BOOLEAN /\ reply \in Pdus
  /\ lost \in BOOLEAN /\ turn \in BOOLEAN /\ cl \in Clients /\ sv \in Servers
  /\ resends \in Nat /\ pushed \in BOOLEAN /\ late \in BOOLEAN /\ crossed \in BOOLEAN /\ spoiled \in BOOLEAN

-----------------------------------------------------------------------------
(* The queue *)

(* The activations that wait in a queue, and the PDUs of the last one.       *)
Acts(q) == {q[i] : i \in {j \in 1 .. Len(q) : IsActivation(q[j])}}

Current(q) ==
  {i \in 1 .. Len(q) : q[i].kind = "data" /\ \A k \in i .. Len(q) : ~IsActivation(q[k])}

Flight(q) == {q[i].pdu : i \in Current(q)}

Ordered(q) ==
  /\ q \in Seq(Packets)
  /\ \A i, j \in 1 .. Len(q) :
       i < j /\ IsActivation(q[i]) /\ IsActivation(q[j]) => q[i].epoch < q[j].epoch
  /\ \A i, j \in Current(q) : i = j

(* What a peer sends.                                                        *)
FromPeer(p) ==
  /\ p.pdu \in {"SYMM", "CONNECT", "CC", "DM", "DISC", "RR", "I"}
  /\ p.pdu = "I" => \/ p.conn = "server" /\ p.snep \in {"put", "more"}
                    \/ p.conn = "client" /\ p.snep \in {"continue", "success"}
  /\ p.pdu = "CC" => p.conn = "client"

(* Activations that wait are later than the one that is served, and the last *)
(* of them is the current one; its peer has begun nothing yet.               *)
Queue ==
  /\ Ordered(out)
  /\ \A p \in Flight(out) : FromPeer(p)
  /\ \A a \in Acts(out) : serving < a.epoch /\ a.epoch <= epoch
  /\ Acts(out) # {} =>
       /\ \E a \in Acts(out) : a.epoch = epoch
       /\ cl.at \in {"off", "asked"} /\ sv = IdleSv /\ ~late /\ ~spoiled
       /\ \A p \in Flight(out) : p.pdu \in {"SYMM", "CONNECT"}
  /\ \A a \in Acts(out) : a.epoch = epoch /\ a.kind = "polled" => ~turn /\ Flight(out) = {}
  /\ turn => Linked /\ Flight(out) = {}

(* Host and peer take turns.                                                 *)
Serves == serving = epoch /\ pc \in {"greet", "p2p", "send"}

Turns ==
  /\ Serves /\ pc # "p2p" => ~turn /\ Flight(out) = {}
  /\ Serves /\ pc = "greet" => client \in {"Idle", "Initial"}

-----------------------------------------------------------------------------
(* The message of the peer *)

(* A frame on its way to the host follows what the host has.                 *)
Follows(p) ==
  \/ p.snep = "put" /\ frag = 0 /\ pull /\ p.from = 0 /\ p.len # 0 /\ p.len <= p.size
  \/ p.snep = "more" /\ frag # 0 /\ p.from = frag

(* What the peer's client, c, knows, with the PDUs of F on their way.        *)
Agrees(c, F) ==
  /\ c.at = "more" => frag = c.sent /\ frag # 0
  /\ c.at \in {"asked", "on", "done"} => frag = 0
  /\ c.at = "off" => frag = 0 \/ \E p \in F : p.pdu = "DISC"
  /\ c.at \notin {"off", "asked"} => pull
  /\ \A p \in F :
       p.pdu = "I" /\ p.conn = "server" => c.at = "waiting" /\ c.sent = p.from + p.len

(* A response on its way to it tells the truth.                              *)
Tells(q) ==
  /\ q.pdu = "CC" => pull
  /\ q.conn = "server" /\ q.pdu = "RR" => frag = cl.sent /\ frag # 0
  /\ q.conn = "server" /\ q.snep = "continue" => frag = cl.sent /\ frag # 0
  /\ q.conn = "server" /\ q.snep = "success" => frag = 0 /\ pull

Reception ==
  Serves /\ ~crossed =>
    /\ frag # 0 => pull /\ handed = frag
    /\ \A p \in Flight(out) : p.pdu = "I" /\ p.conn = "server" => Follows(p)
    /\ pc = "send" /\ reply.snep = "success" => handed = size
    /\ Linked => Agrees(cl, Flight(out)) /\ (pc = "send" => Tells(reply))

-----------------------------------------------------------------------------
(* The message of the application *)

Sends == {"SnepClientConnected", "NdefMsgSending"}
Ends  == {"SnepClientConnected", "NdefMsgSent"}

Pushing == pc = "send" /\ IsPush(reply)

(* A frame on its way to the peer is the one that its server expects.        *)
Expected(q) ==
  /\ Accepts(q) /\ q.size = own
  /\ \/ q.from + q.len = own /\ client \in Ends
     \/ q.from + q.len # own /\ q.from + q.len = ptr
          /\ client = IF q.snep = "put" THEN "NdefMsgWaitingForContinue" ELSE "NdefMsgSending"

(* A PDU on its way to the host, and what the host will do with it.          *)
Calls(p) ==
  /\ Acks(p) => p.nr = sv.nr
  /\ p.pdu = "I" /\ p.snep = "continue" => client = "NdefMsgWaitingForContinue"
  /\ p.pdu = "I" /\ p.snep = "success" => client \in Ends
  /\ p.pdu = "CC" => sv.nr = 0
  /\ ~Acks(p) => client \notin Sends

ServerAgrees ==
  /\ client \in {"Idle", "Initial", "DelayingPush"} => sv = IdleSv
  /\ sv.at = "asked" => sv.nr = 0
  /\ pc = "send" /\ reply.pdu = "CONNECT" => sv.nr = 0 /\ client = "SnepClientConnecting"
  /\ ~Pushing =>
       /\ sv.at = "continue" => client = "NdefMsgWaitingForContinue"
       /\ sv.at = "success" => client \in Ends
       /\ client \in {"NdefMsgWaitingForContinue", "NdefMsgSending"} => ptr = sv.bytes
  /\ turn /\ client \in Sends => sv.due
  /\ client \in Sends => nr # 16
  /\ pc = "send" /\ ~IsPush(reply) => client \notin Sends
  /\ \A p \in Flight(out) : Calls(p)
  /\ Pushing => Expected(reply)

Push == Serves /\ Linked /\ ~late /\ ~crossed => ServerAgrees

(* The push callback has been called for a message that was not set again.   *)
Told ==
  Serves /\ Linked /\ ~spoiled /\ pushed /\ resends = 0 =>
    /\ client = "NdefMsgSent"
    /\ Pushing => reply.from + reply.len = own /\ reply.size = own
    /\ ~Pushing =>
         /\ sv.bytes = own /\ sv.at \notin {"asked", "continue"}
         /\ pc = "send" => reply.pdu # "CONNECT"
         /\ \A p \in Flight(out) : p.pdu # "CC" /\ p.snep # "continue"

IInv ==
  /\ TypeOK /\ Typed /\ Queue /\ Turns
  /\ Reception /\ PushInSequence /\ Push /\ Told

-----------------------------------------------------------------------------
(* Queues *)

LEMMA TailOf ==
  ASSUME NEW S, NEW q \in Seq(S), q # <<>>
  PROVE  /\ Head(q) = q[1] /\ Head(q) \in S
         /\ Tail(q) \in Seq(S)
         /\ Len(q) \in Nat \ {0}
         /\ Len(Tail(q)) = Len(q) - 1
         /\ \A i \in 1 .. Len(Tail(q)) : Tail(q)[i] = q[i + 1]
  OBVIOUS

LEMMA AppendOf ==
  ASSUME NEW S, NEW q \in Seq(S), NEW x \in S
  PROVE  /\ Append(q, x) \in Seq(S)
         /\ Append(q, x) # <<>>
         /\ q \o <<x>> = Append(q, x)
         /\ Len(q) \in Nat
         /\ Len(Append(q, x)) = Len(q) + 1
         /\ \A i \in 1 .. Len(q) : Append(q, x)[i] = q[i]
         /\ Append(q, x)[Len(q) + 1] = x
  OBVIOUS

LEMMA ActsOf ==
  ASSUME NEW q
  PROVE  \A a : a \in Acts(q) <=> \E i \in 1 .. Len(q) : IsActivation(q[i]) /\ a = q[i]
  BY DEF Acts

LEMMA CurrentOf ==
  ASSUME NEW q
  PROVE  \A i : i \in Current(q) <=> /\ i \in 1 .. Len(q) /\ q[i].kind = "data"
                                     /\ \A k \in i .. Len(q) : ~IsActivation(q[k])
  BY DEF Current

LEMMA FlightOf ==
  ASSUME NEW q
  PROVE  \A p : p \in Flight(q) <=> \E i \in Current(q) : p = q[i].pdu
  BY DEF Flight

(* r is q, or what is left of it when some packets have been taken.          *)
Less(q, r) ==
  /\ Ordered(r)
  /\ Acts(r) \subseteq Acts(q)
  /\ Flight(r) \subseteq Flight(q)
  /\ \A a \in Acts(q), b \in Acts(r) : a \in Acts(r) \/ a.epoch < b.epoch

LEMMA TailCurrent ==
  ASSUME NEW q \in Seq(Packets), q # <<>>, NEW i \in Current(Tail(q))
  PROVE  i + 1 \in Current(q) /\ Tail(q)[i] = q[i + 1] /\ i \in Nat \ {0}
PROOF
<1> DEFINE t == Tail(q)
<1>1. Len(q) \in Nat \ {0} /\ Len(t) = Len(q) - 1 /\ \A j \in 1 .. Len(t) : t[j] = q[j + 1]
  BY TailOf
<1>2. i \in 1 .. Len(t) /\ t[i].kind = "data" /\ \A k \in i .. Len(t) : ~IsActivation(t[k])
  BY CurrentOf
<1> HIDE DEF t
<1>3. i + 1 \in 1 .. Len(q) /\ t[i] = q[i + 1]
  BY <1>1, <1>2
<1>4. ASSUME NEW k \in i + 1 .. Len(q)
      PROVE  ~IsActivation(q[k])
  <2>1. k - 1 \in i .. Len(t) /\ k - 1 \in 1 .. Len(t) /\ (k - 1) + 1 = k
    BY <1>1, <1>2
  <2>2. t[k - 1] = q[(k - 1) + 1]
    BY <1>1, <2>1
  <2> QED
    BY <1>2, <2>1, <2>2
<1>5. i + 1 \in Current(q)
  BY <1>2, <1>3, <1>4, CurrentOf
<1> QED
  BY <1>2, <1>3, <1>5 DEF t

LEMMA TailQueue ==
  ASSUME NEW q, Ordered(q), q # <<>>
  PROVE  /\ Less(q, Tail(q)) /\ Head(q) \in Packets
         /\ IsActivation(Head(q)) =>
              /\ Head(q) \in Acts(q)
              /\ \A b \in Acts(Tail(q)) : Head(q).epoch < b.epoch
         /\ Acts(q) = {} /\ Head(q).kind = "data" => Head(q).pdu \in Flight(q) /\ Flight(Tail(q)) = {}
PROOF
<1> DEFINE t == Tail(q)
<1>0. q \in Seq(Packets)
  BY DEF Ordered
<1>1. /\ Head(q) = q[1] /\ Head(q) \in Packets /\ t \in Seq(Packets)
      /\ Len(q) \in Nat \ {0} /\ Len(t) = Len(q) - 1 /\ \A j \in 1 .. Len(t) : t[j] = q[j + 1]
  BY <1>0, TailOf
<1>2. \A i \in Current(t) : i + 1 \in Current(q) /\ t[i] = q[i + 1] /\ i \in Nat \ {0}
  BY <1>0, TailCurrent
<1> HIDE DEF t
<1>3. ASSUME NEW i \in 1 .. Len(t)
      PROVE  i + 1 \in 1 .. Len(q) /\ t[i] = q[i + 1] /\ 1 < i + 1
  BY <1>1
<1>4. 1 \in 1 .. Len(q)
  BY <1>1
<1>5. Ordered(t)
  <2>1. ASSUME NEW i \in 1 .. Len(t), NEW j \in 1 .. Len(t), i < j, IsActivation(t[i]), IsActivation(t[j])
        PROVE  t[i].epoch < t[j].epoch
    <3>1. i + 1 < j + 1
      BY <1>1, <2>1
    <3> QED
      BY <1>3, <2>1, <3>1 DEF Ordered
  <2>2. ASSUME NEW i \in Current(t), NEW j \in Current(t)
        PROVE  i = j
    <3>1. i + 1 = j + 1
      BY <1>2 DEF Ordered
    <3> QED
      BY <1>2, <3>1
  <2> QED
    BY <1>1, <2>1, <2>2 DEF Ordered
<1>6. Acts(t) \subseteq Acts(q)
  BY <1>3, ActsOf
<1>7. Flight(t) \subseteq Flight(q)
  BY <1>2, FlightOf
<1>8. ASSUME NEW b \in Acts(t), IsActivation(q[1])
      PROVE  q[1].epoch < b.epoch
  <2>1. PICK j \in 1 .. Len(t) : IsActivation(t[j]) /\ b = t[j]
    BY ActsOf
  <2> QED
    BY <1>3, <1>4, <1>8, <2>1 DEF Ordered
<1>9. ASSUME NEW a \in Acts(q), a \notin Acts(t)
      PROVE  a = q[1]
  <2>1. PICK i \in 1 .. Len(q) : IsActivation(q[i]) /\ a = q[i]
    BY ActsOf
  <2>2. CASE i = 1
    BY <2>1, <2>2
  <2>3. CASE i # 1
    <3>1. i - 1 \in 1 .. Len(t) /\ (i - 1) + 1 = i
      BY <1>1, <2>3
    <3>2. t[i - 1] = q[(i - 1) + 1]
      BY <1>1, <3>1
    <3> QED
      BY <1>9, <2>1, <3>1, <3>2, ActsOf
  <2> QED
    BY <2>2, <2>3
<1>10. \A a \in Acts(q) : IsActivation(a)
  BY ActsOf
<1>11. Less(q, t)
  BY <1>5, <1>6, <1>7, <1>8, <1>9, <1>10 DEF Less
<1>12. IsActivation(Head(q)) => Head(q) \in Acts(q) /\ \A b \in Acts(t) : Head(q).epoch < b.epoch
  BY <1>1, <1>4, <1>8, ActsOf
<1>13. ASSUME Acts(q) = {}, Head(q).kind = "data"
       PROVE  Head(q).pdu \in Flight(q) /\ Flight(t) = {}
  <2>1. \A i \in 1 .. Len(q) : ~IsActivation(q[i])
    BY <1>13, ActsOf
  <2>2. 1 \in Current(q)
    BY <1>1, <1>4, <1>13, <2>1, CurrentOf
  <2>3. Current(t) = {}
    <3> SUFFICES ASSUME NEW i \in Current(t)
                 PROVE  FALSE
      OBVIOUS
    <3>1. i + 1 = 1 /\ i \in Nat \ {0}
      BY <1>2, <2>2 DEF Ordered
    <3> QED
      BY <3>1
  <2> QED
    BY <1>1, <2>2, <2>3, FlightOf
<1> QED
  BY <1>1, <1>11, <1>12, <1>13 DEF t

LEMMA LessSame ==
  ASSUME NEW q, Ordered(q)
  PROVE  Less(q, q)
  BY DEF Less

(* Appending a packet of each sort.                                          *)
LEMMA AppendCurrent ==
  ASSUME NEW q \in Seq(Packets), NEW x \in Packets, ~IsActivation(x)
  PROVE  \A i : i \in Current(Append(q, x)) <=> i \in Current(q) \/ (x.kind = "data" /\ i = Len(q) + 1)
PROOF
<1> DEFINE r == Append(q, x)
<1>1. /\ Len(q) \in Nat /\ Len(r) = Len(q) + 1 /\ r[Len(q) + 1] = x
      /\ \A i \in 1 .. Len(q) : r[i] = q[i]
  BY AppendOf
<1> HIDE DEF r
<1>2. ASSUME NEW i \in Current(q)
      PROVE  i \in Current(r)
  <2>1. i \in 1 .. Len(q) /\ q[i].kind = "data" /\ \A k \in i .. Len(q) : ~IsActivation(q[k])
    BY CurrentOf
  <2>2. i \in 1 .. Len(r) /\ r[i].kind = "data"
    BY <1>1, <2>1
  <2>3. ASSUME NEW k \in i .. Len(r)
        PROVE  ~IsActivation(r[k])
    <3>1. CASE k = Len(q) + 1
      BY <1>1, <3>1
    <3>2. CASE k # Len(q) + 1
      <4>1. k \in i .. Len(q) /\ k \in 1 .. Len(q)
        BY <1>1, <2>1, <3>2
      <4> QED
        BY <1>1, <2>1, <4>1
    <3> QED
      BY <3>1, <3>2
  <2> QED
    BY <2>2, <2>3, CurrentOf
<1>3. ASSUME NEW i, i \in Current(r), i # Len(q) + 1
      PROVE  i \in Current(q)
  <2>1. i \in 1 .. Len(r) /\ r[i].kind = "data" /\ \A k \in i .. Len(r) : ~IsActivation(r[k])
    BY <1>3, CurrentOf
  <2>2. i \in 1 .. Len(q) /\ q[i].kind = "data"
    BY <1>1, <1>3, <2>1
  <2>3. ASSUME NEW k \in i .. Len(q)
        PROVE  ~IsActivation(q[k])
    <3>1. k \in i .. Len(r) /\ k \in 1 .. Len(q)
      BY <1>1, <2>2
    <3> QED
      BY <1>1, <2>1, <3>1
  <2> QED
    BY <2>2, <2>3, CurrentOf
<1>4. Len(q) + 1 \in Current(r) <=> x.kind = "data"
  <2>1. Len(q) + 1 \in 1 .. Len(r) /\ \A k \in Len(q) + 1 .. Len(r) : k = Len(q) + 1
    BY <1>1
  <2> QED
    BY <1>1, <2>1, CurrentOf
<1> QED
  BY <1>2, <1>3, <1>4 DEF r

LEMMA AppendActs ==
  ASSUME NEW q \in Seq(Packets), NEW x \in Packets
  PROVE  \A a : a \in Acts(Append(q, x)) <=> a \in Acts(q) \/ (IsActivation(x) /\ a = x)
PROOF
<1> DEFINE r == Append(q, x)
<1>1. /\ Len(q) \in Nat /\ Len(r) = Len(q) + 1 /\ r[Len(q) + 1] = x
      /\ \A i \in 1 .. Len(q) : r[i] = q[i]
  BY AppendOf
<1> HIDE DEF r
<1>2. \A i \in 1 .. Len(q) : i \in 1 .. Len(r)
  BY <1>1
<1>3. Len(q) + 1 \in 1 .. Len(r)
  BY <1>1
<1>4. \A i \in 1 .. Len(r) : i \in 1 .. Len(q) \/ i = Len(q) + 1
  BY <1>1
<1>5. ASSUME NEW a \in Acts(r)
      PROVE  a \in Acts(q) \/ (IsActivation(x) /\ a = x)
  <2>1. PICK i \in 1 .. Len(r) : IsActivation(r[i]) /\ a = r[i]
    BY ActsOf
  <2> QED
    BY <1>1, <1>4, <2>1, ActsOf
<1>6. ASSUME NEW a \in Acts(q)
      PROVE  a \in Acts(r)
  <2>1. PICK i \in 1 .. Len(q) : IsActivation(q[i]) /\ a = q[i]
    BY ActsOf
  <2> QED
    BY <1>1, <1>2, <2>1, ActsOf
<1>7. IsActivation(x) => x \in Acts(r)
  BY <1>1, <1>3, ActsOf
<1> QED
  BY <1>5, <1>6, <1>7 DEF r

LEMMA AppendOrdered ==
  ASSUME NEW q, Ordered(q), NEW x \in Packets, ~IsActivation(x), x.kind = "data" => Flight(q) = {}
  PROVE  Ordered(Append(q, x))
PROOF
<1> DEFINE r == Append(q, x)
<1>0. q \in Seq(Packets)
  BY DEF Ordered
<1>1. /\ r \in Seq(Packets) /\ Len(q) \in Nat /\ Len(r) = Len(q) + 1 /\ r[Len(q) + 1] = x
      /\ \A i \in 1 .. Len(q) : r[i] = q[i]
  BY <1>0, AppendOf
<1>2. \A i : i \in Current(r) <=> i \in Current(q) \/ (x.kind = "data" /\ i = Len(q) + 1)
  BY <1>0, AppendCurrent
<1> HIDE DEF r
<1>3. x.kind = "data" => Current(q) = {}
  BY FlightOf
<1>4. ASSUME NEW i \in 1 .. Len(r), IsActivation(r[i])
      PROVE  i \in 1 .. Len(q)
  <2>1. i # Len(q) + 1
    BY <1>1, <1>4
  <2> QED
    BY <1>1, <2>1
<1>5. ASSUME NEW i \in 1 .. Len(r), NEW j \in 1 .. Len(r), i < j, IsActivation(r[i]), IsActivation(r[j])
      PROVE  r[i].epoch < r[j].epoch
  <2>1. i \in 1 .. Len(q) /\ j \in 1 .. Len(q)
    BY <1>4, <1>5
  <2> QED
    BY <1>1, <1>5, <2>1 DEF Ordered
<1>6. \A i, j \in Current(r) : i = j
  BY <1>2, <1>3 DEF Ordered
<1> QED
  BY <1>1, <1>5, <1>6 DEF Ordered, r

(* Neither activation nor PDU.                                               *)
LEMMA AppendNotice ==
  ASSUME NEW q, Ordered(q), NEW x \in Packets, ~IsActivation(x), x.kind # "data"
  PROVE  Ordered(Append(q, x)) /\ Acts(Append(q, x)) = Acts(q) /\ Flight(Append(q, x)) = Flight(q)
PROOF
<1> DEFINE r == Append(q, x)
<1>0. q \in Seq(Packets)
  BY DEF Ordered
<1>1. /\ Len(q) \in Nat /\ \A i \in 1 .. Len(q) : r[i] = q[i]
  BY <1>0, AppendOf
<1>2. \A i : i \in Current(r) <=> i \in Current(q)
  BY <1>0, AppendCurrent
<1>3. \A a : a \in Acts(r) <=> a \in Acts(q)
  BY <1>0, AppendActs
<1>4. Ordered(r)
  BY AppendOrdered
<1> HIDE DEF r
<1>5. \A i \in Current(q) : r[i] = q[i]
  BY <1>1, CurrentOf
<1>6. Flight(r) = Flight(q)
  <2>1. \A p : p \in Flight(r) <=> p \in Flight(q)
    BY <1>2, <1>5, FlightOf
  <2> QED
    BY <2>1
<1> QED
  BY <1>3, <1>4, <1>6 DEF r

LEMMA AppendData ==
  ASSUME NEW q, Ordered(q), NEW x \in Packets, x.kind = "data", Flight(q) = {}
  PROVE  Ordered(Append(q, x)) /\ Acts(Append(q, x)) = Acts(q) /\ Flight(Append(q, x)) = {x.pdu}
PROOF
<1> DEFINE r == Append(q, x)
<1>0. q \in Seq(Packets)
  BY DEF Ordered
<1>1. /\ Len(q) \in Nat /\ r[Len(q) + 1] = x
  BY <1>0, AppendOf
<1>2. ~IsActivation(x)
  BY DEF IsActivation
<1>3. \A i : i \in Current(r) <=> i \in Current(q) \/ i = Len(q) + 1
  BY <1>0, <1>2, AppendCurrent
<1>4. \A a : a \in Acts(r) <=> a \in Acts(q)
  BY <1>0, <1>2, AppendActs
<1>5. Ordered(r)
  BY <1>2, AppendOrdered
<1> HIDE DEF r
<1>6. Current(q) = {}
  BY FlightOf
<1>7. Flight(r) = {x.pdu}
  <2>1. \A p : p \in Flight(r) <=> p = x.pdu
    BY <1>1, <1>3, <1>6, FlightOf
  <2> QED
    BY <2>1
<1> QED
  BY <1>4, <1>5, <1>7 DEF r

LEMMA AppendActivation ==
  ASSUME NEW q, Ordered(q), NEW x \in Packets, IsActivation(x), \A a \in Acts(q) : a.epoch < x.epoch
  PROVE  /\ Ordered(Append(q, x)) /\ Acts(Append(q, x)) = Acts(q) \cup {x} /\ Flight(Append(q, x)) = {}
PROOF
<1> DEFINE r == Append(q, x)
<1>0. q \in Seq(Packets)
  BY DEF Ordered
<1>1. /\ r \in Seq(Packets) /\ Len(q) \in Nat /\ Len(r) = Len(q) + 1 /\ r[Len(q) + 1] = x
      /\ \A i \in 1 .. Len(q) : r[i] = q[i]
  BY <1>0, AppendOf
<1>2. \A a : a \in Acts(r) <=> a \in Acts(q) \/ a = x
  BY <1>0, AppendActs
<1> HIDE DEF r
<1>3. Current(r) = {}
  <2> SUFFICES ASSUME NEW i \in Current(r)
               PROVE  FALSE
    OBVIOUS
  <2>1. i \in 1 .. Len(r) /\ \A k \in i .. Len(r) : ~IsActivation(r[k])
    BY CurrentOf
  <2>2. Len(r) \in i .. Len(r)
    BY <1>1, <2>1
  <2> QED
    BY <1>1, <2>1, <2>2
<1>4. ASSUME NEW i \in 1 .. Len(r), NEW j \in 1 .. Len(r), i < j, IsActivation(r[i]), IsActivation(r[j])
      PROVE  r[i].epoch < r[j].epoch
  <2>1. i \in 1 .. Len(q) /\ r[i] = q[i]
    BY <1>1, <1>4
  <2>2. CASE j = Len(q) + 1
    <3>1. q[i] \in Acts(q)
      BY <1>4, <2>1, ActsOf
    <3> QED
      BY <1>1, <2>1, <2>2, <3>1
  <2>3. CASE j # Len(q) + 1
    <3>1. j \in 1 .. Len(q) /\ r[j] = q[j]
      BY <1>1, <2>3
    <3> QED
      BY <1>4, <2>1, <3>1 DEF Ordered
  <2> QED
    BY <2>2, <2>3
<1>5. Ordered(r)
  BY <1>1, <1>3, <1>4 DEF Ordered
<1>6. Flight(r) = {}
  BY <1>3, FlightOf
<1> QED
  BY <1>2, <1>5, <1>6 DEF r

-----------------------------------------------------------------------------
(* Packets and PDUs *)

LEMMA PacketOf ==
  ASSUME NEW k \in Kinds
  PROVE  /\ Packet(k) \in Packets /\ Packet(k).kind = k
         /\ IsActivation(Packet(k)) <=> k \in {"polled", "listened"}
  BY DEF Packet, Packets, None, Pdu, Pdus, IsActivation

LEMMA DataOf ==
  ASSUME NEW p \in Pdus
  PROVE  /\ [Packet("data") EXCEPT !.pdu = p] \in Packets
         /\ [Packet("data") EXCEPT !.pdu = p].kind = "data"
         /\ [Packet("data") EXCEPT !.pdu = p].pdu = p
  BY DEF Packet, Packets, Kinds

LEMMA PduOf ==
  ASSUME NEW k \in {"SYMM", "none", "empty", "CONNECT", "CC", "DM", "DISC", "RR"},
         NEW c \in {"server", "client", "other", "link"}
  PROVE  Pdu(k, c) \in Pdus /\ Pdu(k, c).pdu = k /\ Pdu(k, c).conn = c /\ Pdu(k, c).snep = "none"
  BY DEF Pdu, Pdus

LEMMA SymmIs == Symm \in Pdus /\ Symm.pdu = "SYMM" /\ Symm.conn = "link" /\ Symm.snep = "none"
BY PduOf DEF Symm

LEMMA NoneIs == None \in Pdus /\ None.pdu = "none" /\ None.snep = "none"
BY PduOf DEF None

-----------------------------------------------------------------------------
(* The queue is kept *)

LEMMA ServedAlone ==
  ASSUME TypeOK, Queue, serving = epoch
  PROVE  Acts(out) = {}
PROOF
<1> SUFFICES ASSUME NEW a \in Acts(out)
             PROVE  FALSE
  OBVIOUS
<1>1. serving < a.epoch /\ a.epoch <= epoch
  BY DEF Queue
<1>2. a.epoch \in Nat /\ epoch \in Nat
  BY ActsOf DEF Queue, Ordered, Packets, TypeOK
<1> QED
  BY <1>1, <1>2

LEMMA EpochsOf ==
  ASSUME NEW q, Ordered(q)
  PROVE  \A a \in Acts(q) : a.epoch \in Nat /\ IsActivation(a)
PROOF
<1> SUFFICES ASSUME NEW a \in Acts(q)
             PROVE  a.epoch \in Nat /\ IsActivation(a)
  OBVIOUS
<1>1. PICK i \in 1 .. Len(q) : IsActivation(q[i]) /\ a = q[i]
  BY ActsOf
<1>2. q[i] \in Packets
  BY DEF Ordered
<1> QED
  BY <1>1, <1>2 DEF Packets

LEMMA QueueLess ==
  ASSUME TypeOK, Queue, Less(out, out'), UNCHANGED <<serving, epoch, cl, sv, late, spoiled>>,
         turn' => turn /\ Linked'
  PROVE  Queue'
PROOF
<1>1. Ordered(out') /\ Acts(out') \subseteq Acts(out) /\ Flight(out') \subseteq Flight(out)
  BY DEF Less
<1>2. Acts(out') # {} => \E a \in Acts(out') : a.epoch = epoch
  <2> SUFFICES ASSUME NEW b \in Acts(out')
               PROVE  \E a \in Acts(out') : a.epoch = epoch
    OBVIOUS
  <2>1. b \in Acts(out) /\ b.epoch <= epoch
    BY <1>1 DEF Queue
  <2>2. PICK a \in Acts(out) : a.epoch = epoch
    BY <2>1 DEF Queue
  <2>3. a \in Acts(out') \/ a.epoch < b.epoch
    BY DEF Less
  <2>4. b.epoch \in Nat /\ a.epoch \in Nat
    BY <1>1, EpochsOf DEF Queue
  <2> QED
    BY <2>1, <2>2, <2>3, <2>4
<1>3. (\E a \in Acts(out') : a.epoch = epoch') \/ Acts(out') = {}
  BY <1>2
<1>4. Acts(out') # {} => /\ cl'.at \in {"off", "asked"} /\ sv' = IdleSv /\ ~late' /\ ~spoiled'
                         /\ \A p \in Flight(out') : p.pdu \in {"SYMM", "CONNECT"}
  BY <1>1 DEF Queue
<1>5. \A a \in Acts(out') : a.epoch = epoch' /\ a.kind = "polled" => ~turn' /\ Flight(out') = {}
  BY <1>1 DEF Queue
<1>6. turn' => Linked' /\ Flight(out') = {}
  BY <1>1 DEF Queue
<1>7. \A a \in Acts(out') : serving' < a.epoch /\ a.epoch <= epoch'
  BY <1>1 DEF Queue
<1>8. \A p \in Flight(out') : FromPeer(p)
  BY <1>1 DEF Queue
<1> QED
  BY <1>1, <1>3, <1>4, <1>5, <1>6, <1>7, <1>8 DEF Queue

LEMMA TakeLess ==
  ASSUME NEW q, Ordered(q), NEW r, q # <<>>, r = Tail(q)
  PROVE  Less(q, r)
  BY TailQueue

LEMMA NoticeLess ==
  ASSUME NEW q, Ordered(q), NEW x \in Packets, ~IsActivation(x), x.kind # "data", NEW r, Less(Append(q, x), r)
  PROVE  Less(q, r)
  BY AppendNotice DEF Less

LEMMA NotServing ==
  ASSUME ~Serves'
  PROVE  Turns' /\ Reception' /\ Push' /\ Told'
  BY DEF Turns, Reception, Push, Told

(* What the task does outside of a session, or when it leaves one.           *)
LEMMA OutsideKeeps ==
  ASSUME IInv, TypeOK', Typed', Queue', pc' \notin {"greet", "p2p", "send"},
         UNCHANGED <<late, crossed, spoiled>>
  PROVE  IInv'
PROOF
<1>1. ~Serves'
  BY DEF Serves
<1>2. PushInSequence'
  BY DEF IInv, PushInSequence
<1> QED
  BY <1>1, <1>2, NotServing DEF IInv

LEMMA LeavingKeeps ==
  ASSUME IInv, P2pEnds \/ P2pFound \/ P2pSilent \/ Settle
  PROVE  IInv'
PROOF
<1>1. /\ UNCHANGED <<ndefVars, reply, serving, st, lost, role, epoch, msgVars, peerVars, histVars>>
      /\ restart' \in BOOLEAN /\ pc' \in {"over", "found", "wait"}
      /\ out' = out \/ Take(out)
  BY DEF P2pEnds, P2pFound, P2pSilent, Settle, At, Take, loopVars, ctlVars, IInv, TypeOK
<1>2. TypeOK' /\ Typed'
  BY <1>1 DEF IInv, TypeOK, Typed, ndefVars, msgVars, peerVars, histVars
<1>3. Ordered(out)
  BY DEF IInv, Queue
<1>4. Less(out, out')
  BY <1>1, <1>3, LessSame, TakeLess DEF Take
<1>5. UNCHANGED <<cl, sv, late, spoiled, crossed, turn, st, lost>>
  BY <1>1 DEF peerVars, histVars
<1>6. turn' => turn /\ Linked'
  BY <1>5 DEF IInv, Queue, Linked
<1>7. Queue'
  BY <1>1, <1>4, <1>5, <1>6, QueueLess DEF IInv
<1> QED
  BY <1>1, <1>2, <1>5, <1>7, OutsideKeeps

LEMMA OverKeeps ==
  ASSUME IInv, Over
  PROVE  IInv'
PROOF
<1>1. /\ UNCHANGED <<msgVars, ndefVars, restart, reply, serving, role, epoch, cl, sv, late, spoiled, histVars>>
      /\ pc' \in {"settle", "wait"} /\ st' \in {"discovering", "active"} /\ lost' \in BOOLEAN /\ turn' \in BOOLEAN
      /\ ~turn' \/ (turn' = turn /\ st' = st /\ lost' = lost)
  BY DEF Over, IInv, TypeOK, Typed
<1>2. TypeOK' /\ Typed'
  BY <1>1 DEF IInv, TypeOK, Typed, ndefVars, msgVars, histVars
<1>3. Ordered(out)
  BY DEF IInv, Queue
<1>4. Less(out, out')
  <2> DEFINE x == Packet("released")
             y == Packet("deactivated")
  <2>1. /\ x \in Packets /\ ~IsActivation(x) /\ x.kind # "data"
        /\ y \in Packets /\ ~IsActivation(y) /\ y.kind # "data"
    BY PacketOf DEF Kinds
  <2> HIDE DEF x, y
  <2>2. Ordered(Append(out, x)) /\ Ordered(Append(Append(out, x), y))
    BY <1>3, <2>1, AppendNotice
  <2>3. out \in Seq(Packets) /\ Append(out, x) \in Seq(Packets)
    BY <1>3, <2>2 DEF Ordered
  <2>4. out \o <<x>> = Append(out, x) /\ out \o <<x, y>> = Append(Append(out, x), y)
    BY <2>1, <2>3
  <2>5. Append(out, x) # <<>> /\ Append(Append(out, x), y) # <<>>
    BY <2>1, <2>3, AppendOf
  <2>6. \/ out' = out
        \/ out' = Tail(Append(out, x))
        \/ out' = Tail(Append(Append(out, x), y))
    BY <2>4 DEF Over, Take, x, y
  <2>7. CASE out' = Tail(Append(out, x))
    BY <1>3, <2>1, <2>2, <2>5, <2>7, TakeLess, NoticeLess
  <2>8. CASE out' = Tail(Append(Append(out, x), y))
    <3>1. Less(Append(out, x), out')
      BY <2>1, <2>2, <2>5, <2>8, TakeLess, NoticeLess
    <3> QED
      BY <1>3, <2>1, <3>1, NoticeLess
  <2> QED
    BY <1>3, <2>6, <2>7, <2>8, LessSame
<1>5. turn' => turn /\ Linked'
  BY <1>1 DEF IInv, Queue, Linked
<1>6. Queue'
  BY <1>1, <1>4, <1>5, QueueLess DEF IInv
<1>7. UNCHANGED <<late, crossed, spoiled>>
  BY <1>1 DEF histVars
<1> QED
  BY <1>1, <1>2, <1>6, <1>7, OutsideKeeps

-----------------------------------------------------------------------------
(* An activation, and what the peer hears *)

LEMMA ActivatedKeeps ==
  ASSUME IInv, Activated
  PROVE  IInv'
PROOF
<1> DEFINE h == Head(out)
<1>1. /\ pc = "wait" /\ out # <<>> /\ out' = Tail(out)
      /\ UNCHANGED <<own, pull, reply, st, lost, role, epoch, turn, cl, sv, late, spoiled>>
  BY DEF Activated, Take, msgVars, peerVars
<1>2. TypeOK /\ Typed /\ Queue /\ Ordered(out)
  BY DEF IInv, Queue
<1>3. /\ Less(out, out') /\ h \in Packets
      /\ IsActivation(h) => h \in Acts(out) /\ \A b \in Acts(out') : h.epoch < b.epoch
  BY <1>1, <1>2, TailQueue
<1> HIDE DEF h
<1>4. CASE ~IsActivation(h)
  <2>1. UNCHANGED <<pc, restart, serving, ndefVars, histVars>>
    BY <1>4 DEF Activated, h
  <2>2. TypeOK' /\ Typed'
    BY <1>1, <1>2, <2>1 DEF TypeOK, Typed, ndefVars, histVars
  <2>3. turn' => turn /\ Linked'
    BY <1>1, <1>2 DEF Queue, Linked
  <2>4. Queue'
    BY <1>1, <1>2, <1>3, <2>1, <2>3, QueueLess
  <2> QED
    BY <1>1, <2>1, <2>2, <2>4, OutsideKeeps DEF histVars
<1>5. CASE IsActivation(h)
  <2>1. /\ P2P_NDEF_Reset
        /\ pc' = (IF h.kind = "polled" THEN "greet" ELSE "p2p")
        /\ restart' = FALSE
        /\ serving' = h.epoch
        /\ handed' = 0 /\ resends' = 0 /\ pushed' = FALSE /\ crossed' = FALSE
    BY <1>5 DEF Activated, h
  <2>2. h \in Acts(out) /\ \A b \in Acts(out') : h.epoch < b.epoch
    BY <1>3, <1>5
  <2>3. /\ h.epoch \in Nat /\ h.epoch <= epoch /\ epoch \in Nat
        /\ cl.at \in {"off", "asked"} /\ sv = IdleSv /\ ~late /\ ~spoiled
        /\ \A p \in Flight(out) : p.pdu \in {"SYMM", "CONNECT"}
    BY <1>2, <2>2, EpochsOf DEF Queue, TypeOK
  <2>4. frag' = 0 /\ client' \in {"Initial", "Idle"} /\ UNCHANGED <<delay, size, ptr, nr, ns>>
    BY <2>1 DEF P2P_NDEF_Reset
  <2>5. TypeOK'
    <3>1. serving' \in 0 .. epoch'
      BY <1>1, <2>1, <2>3
    <3>2. pc' \in {"greet", "p2p"} /\ restart' \in BOOLEAN
      BY <2>1
    <3>3. {size', frag', ptr', handed'} \subseteq Nat
      BY <1>2, <2>1, <2>4 DEF TypeOK
    <3> QED
      BY <1>1, <1>2, <2>4, <3>1, <3>2, <3>3 DEF TypeOK
  <2>6. Typed'
    BY <1>1, <1>2, <2>1 DEF Typed
  <2>7. Queue'
    <3>1. /\ Ordered(out') /\ Acts(out') \subseteq Acts(out) /\ Flight(out') \subseteq Flight(out)
      BY <1>3 DEF Less
    <3>2. \A a \in Acts(out') : serving' < a.epoch /\ a.epoch <= epoch'
      BY <1>1, <1>2, <2>1, <2>2, <3>1 DEF Queue
    <3>3. ASSUME NEW b \in Acts(out')
          PROVE  \E a \in Acts(out') : a.epoch = epoch
      <4>1. PICK a \in Acts(out) : a.epoch = epoch
        BY <1>2, <2>2 DEF Queue
      <4>2. a \in Acts(out') \/ a.epoch < b.epoch
        BY <1>3 DEF Less
      <4>3. b.epoch \in Nat /\ b.epoch <= epoch
        BY <1>2, <3>1, EpochsOf DEF Queue
      <4> QED
        BY <2>3, <4>1, <4>2, <4>3
    <3>4. (\E a \in Acts(out') : a.epoch = epoch') \/ Acts(out') = {}
      BY <1>1, <3>3
    <3>5. Acts(out') # {} => /\ cl'.at \in {"off", "asked"} /\ sv' = IdleSv /\ ~late' /\ ~spoiled'
                             /\ \A p \in Flight(out') : p.pdu \in {"SYMM", "CONNECT"}
      BY <1>1, <2>3, <3>1
    <3>6. \A a \in Acts(out') : a.epoch = epoch' /\ a.kind = "polled" => ~turn' /\ Flight(out') = {}
      BY <1>1, <1>2, <3>1 DEF Queue
    <3>7. turn' => Linked' /\ Flight(out') = {}
      BY <1>1, <1>2, <3>1 DEF Queue, Linked
    <3>8. \A p \in Flight(out') : FromPeer(p)
      BY <1>2, <3>1 DEF Queue
    <3> QED
      BY <3>1, <3>2, <3>4, <3>5, <3>6, <3>7, <3>8 DEF Queue
  <2>8. Flight(out') \subseteq Flight(out)
    BY <1>3 DEF Less
  <2>9. Turns'
    <3>1. ASSUME Serves', pc' = "greet"
          PROVE  ~turn' /\ Flight(out') = {}
      <4>1. h.kind = "polled" /\ h.epoch = epoch
        BY <1>1, <2>1, <3>1 DEF Serves
      <4> QED
        BY <1>1, <1>2, <2>2, <2>8, <4>1 DEF Queue
    <3>2. pc' \in {"greet", "p2p"}
      BY <2>1
    <3> QED
      BY <2>4, <3>1, <3>2 DEF Turns
  <2>10. pc' # "send" /\ ~Pushing'
    BY <2>1 DEF Pushing
  <2>11. Reception'
    <3>1. Agrees(cl, Flight(out))'
      BY <1>1, <2>3, <2>4, <2>8 DEF Agrees
    <3>2. \A p \in Flight(out') : ~(p.pdu = "I")
      BY <2>3, <2>8
    <3> QED
      BY <2>4, <2>10, <3>1, <3>2 DEF Reception
  <2>12. PushInSequence'
    BY <1>1, <2>3 DEF PushInSequence
  <2>13. Push'
    <3>1. \A p \in Flight(out') : Calls(p)'
      BY <2>3, <2>4, <2>8 DEF Calls, Acks, Sends
    <3>2. sv' = IdleSv /\ sv'.at = "off"
      BY <1>1, <2>3 DEF IdleSv
    <3> QED
      BY <2>4, <2>10, <3>1, <3>2 DEF Push, ServerAgrees, Sends
  <2>14. Told'
    BY <2>1 DEF Told
  <2> QED
    BY <2>5, <2>6, <2>7, <2>9, <2>11, <2>12, <2>13, <2>14 DEF IInv
<1> QED
  BY <1>4, <1>5

LEMMA SendLess ==
  ASSUME Ordered(out), NEW q, SendData(q)
  PROVE  Less(out, out')
PROOF
<1> DEFINE x == Packet("credits")
           y == Packet("error")
<1>1. /\ x \in Packets /\ ~IsActivation(x) /\ x.kind # "data"
      /\ y \in Packets /\ ~IsActivation(y) /\ y.kind # "data"
  BY PacketOf DEF Kinds
<1>2. PICK now \in {<<>>, <<x>>, <<y>>} : Take(out \o now) \/ UNCHANGED out
  BY DEF SendData
<1> HIDE DEF x, y
<1>3. out \in Seq(Packets)
  BY DEF Ordered
<1>4. CASE UNCHANGED out
  BY <1>4, LessSame
<1>5. CASE now = <<>> /\ Take(out \o now)
  <2>1. out \o now = out
    BY <1>3, <1>5
  <2> QED
    BY <1>5, <2>1, TakeLess DEF Take
<1>6. ASSUME NEW z \in {x, y}, now = <<z>>, Take(out \o now)
      PROVE  Less(out, out')
  <2>1. z \in Packets /\ ~IsActivation(z) /\ z.kind # "data"
    BY <1>1
  <2>2. out \o <<z>> = Append(out, z) /\ Append(out, z) # <<>>
    BY <1>3, <2>1, AppendOf
  <2>3. out' = Tail(Append(out, z))
    BY <1>6, <2>2 DEF Take
  <2>4. Ordered(Append(out, z))
    BY <2>1, AppendNotice
  <2>5. Less(Append(out, z), out')
    BY <2>2, <2>3, <2>4, TakeLess
  <2> QED
    BY <2>1, <2>5, NoticeLess
<1> QED
  BY <1>2, <1>4, <1>5, <1>6

(* A PDU that does not reach the peer of this activation.                    *)
LEMMA UnheardKeeps ==
  ASSUME IInv, pc \in {"greet", "send"}, pc' = "p2p", NEW q, SendData(q),
         UNCHANGED <<msgVars, ndefVars, serving, histVars>>, reply' \in Pdus, restart' \in BOOLEAN,
         ~(Linked /\ serving = epoch)
  PROVE  IInv'
PROOF
<1>1. TypeOK /\ Typed /\ Queue /\ Ordered(out)
  BY DEF IInv, Queue
<1>2. UNCHANGED <<st, lost, role, epoch, turn, cl, sv, late, spoiled>>
  BY DEF SendData, peerVars
<1>3. UNCHANGED <<own, pull, client, delay, size, frag, ptr, nr, ns, handed, resends, pushed, crossed>>
  BY DEF msgVars, ndefVars, histVars
<1>4. TypeOK'
  BY <1>1, <1>2, <1>3 DEF TypeOK
<1>5. Typed'
  BY <1>1, <1>2, <1>3 DEF Typed
<1>6. Less(out, out')
  BY <1>1, SendLess
<1>7. turn' => turn /\ Linked'
  BY <1>1, <1>2 DEF Queue, Linked
<1>8. Queue'
  BY <1>1, <1>2, <1>6, <1>7, QueueLess
<1>9. Turns'
  BY DEF Turns
<1>10. PushInSequence'
  BY <1>2, <1>3 DEF IInv, PushInSequence
<1>11. Serves' => ~Linked'
  BY <1>2 DEF Serves, Linked
<1>12. Push' /\ Told'
  BY <1>11 DEF Push, Told
<1>13. Reception'
  <2> SUFFICES ASSUME Serves', ~crossed'
               PROVE  /\ frag' # 0 => pull' /\ handed' = frag'
                      /\ \A p \in Flight(out') : p.pdu = "I" /\ p.conn = "server" => Follows(p)'
    BY <1>11 DEF Reception
  <2>1. Serves /\ ~crossed
    BY <1>2, <1>3 DEF Serves
  <2>2. Flight(out') = {}
    BY <1>6, <2>1 DEF IInv, Turns, Less
  <2>3. frag # 0 => pull /\ handed = frag
    BY <2>1 DEF IInv, Reception
  <2> QED
    BY <1>3, <2>2, <2>3
<1> QED
  BY <1>4, <1>5, <1>8, <1>9, <1>10, <1>12, <1>13 DEF IInv

LEMMA ClHearsOf ==
  ASSUME NEW q \in Pdus, cl \in Clients
  PROVE  /\ ClHears(q) \in Clients
         /\ \/ ClHears(q) = cl
            \/ q.pdu = "CC" /\ cl.at = "asked" /\ ClHears(q).at = "on"
            \/ /\ q.pdu = "RR" /\ q.conn = "server"
               /\ ClHears(q).at = "more" /\ ClHears(q).sent = cl.sent
            \/ /\ q.pdu = "I" /\ q.conn = "server" /\ q.snep = "continue"
               /\ ClHears(q).at = "more" /\ ClHears(q).sent = cl.sent
            \/ q.pdu = "I" /\ q.conn = "server" /\ q.snep = "success" /\ ClHears(q).at = "done"
PROOF
<1> DEFINE c1 == [cl EXCEPT !.at = "on", !.ns = 0, !.nr = 0]
           c2 == [cl EXCEPT !.at = "more"]
           n == (q.ns + 1) % 16
           c3 == [cl EXCEPT !.at = IF q.snep = "success" THEN "done" ELSE "more", !.nr = n]
           right == q.conn = "server" /\ q.nr = cl.ns
<1>1. \/ ClHears(q) = cl
      \/ q.pdu = "CC" /\ cl.at = "asked" /\ ClHears(q) = c1
      \/ q.pdu = "RR" /\ right /\ ClHears(q) = c2
      \/ q.pdu = "I" /\ right /\ q.snep \in {"continue", "success"} /\ ClHears(q) = c3
  BY Zenon DEF ClHears
<1>2. n \in 0 .. 15
  BY DEF Pdus
<1> HIDE DEF n
<1>3. c1 \in Clients /\ c1.at = "on"
  <2>1. 0 \in 0 .. 15
    OBVIOUS
  <2> QED
    BY <2>1 DEF Clients
<1>4. c2 \in Clients /\ c2.at = "more" /\ c2.sent = cl.sent
  BY DEF Clients
<1>5. /\ c3 \in Clients /\ c3.sent = cl.sent
      /\ q.snep = "success" => c3.at = "done"
      /\ q.snep = "continue" => c3.at = "more"
  BY <1>2 DEF Clients
<1> HIDE DEF c1, c2, c3
<1> QED
  BY <1>1, <1>3, <1>4, <1>5

LEMMA SvHearsOf ==
  ASSUME NEW q \in Pdus, sv \in Servers
  PROVE  /\ SvHears(q) \in Servers
         /\ \/ ~(IsPush(q) /\ Accepts(q)) /\ q.pdu # "CONNECT" /\ SvHears(q) = sv
            \/ q.pdu = "CONNECT" /\ SvHears(q).at = "asked" /\ SvHears(q).nr = sv.nr
            \/ /\ IsPush(q) /\ Accepts(q)
               /\ SvHears(q).due /\ SvHears(q).bytes = q.from + q.len
               /\ q.from + q.len = q.size => SvHears(q).at = "success"
               /\ q.from + q.len # q.size =>
                    SvHears(q).at = (IF q.snep = "put" THEN "continue" ELSE "on")
PROOF
<1> DEFINE s1 == [sv EXCEPT !.at = "asked"]
           n == (sv.nr + 1) % 16
           b == q.from + q.len
           a == IF q.from + q.len = q.size THEN "success" ELSE IF q.snep = "put" THEN "continue" ELSE "on"
           s2 == [sv EXCEPT !.due = TRUE, !.bytes = b, !.nr = n, !.at = a]
<1>0. SvHears(q) = CASE q.pdu = "CONNECT" -> s1 [] IsPush(q) /\ Accepts(q) -> s2 [] OTHER -> sv
  BY DEF SvHears
<1>1. \/ q.pdu = "CONNECT" /\ SvHears(q) = s1
      \/ IsPush(q) /\ Accepts(q) /\ SvHears(q) = s2
      \/ q.pdu # "CONNECT" /\ ~(IsPush(q) /\ Accepts(q)) /\ SvHears(q) = sv
  <2> HIDE DEF s1, s2
  <2> QED
    BY <1>0, Zenon
<1>2. n \in 0 .. 15 /\ b \in Nat
  BY DEF Servers, Pdus
<1>3. a \in {"success", "continue", "on"}
  OBVIOUS
<1>4. s1 \in Servers /\ s1.at = "asked" /\ s1.nr = sv.nr
  BY DEF Servers
<1> HIDE DEF n, b, a
<1>5. s2 \in Servers /\ s2.due /\ s2.bytes = b /\ s2.at = a
  BY <1>2, <1>3 DEF Servers
<1> HIDE DEF s1, s2
<1> QED
  BY <1>1, <1>4, <1>5 DEF a, b

(* A PDU that does.                                                          *)
LEMMA HeardKeeps ==
  ASSUME IInv, pc \in {"greet", "send"}, pc' = "p2p", NEW q \in Pdus, SendData(q),
         UNCHANGED <<msgVars, ndefVars, serving, histVars>>, reply' \in Pdus, restart' \in BOOLEAN,
         Linked, serving = epoch,
         pc = "greet" => q = Symm, pc = "send" => q = reply
  PROVE  IInv'
PROOF
<1>1. TypeOK /\ Typed /\ Queue /\ Ordered(out)
  BY DEF IInv, Queue
<1>2. /\ UNCHANGED <<st, lost, role, epoch, late>>
      /\ turn' = TRUE /\ cl' = ClHears(q) /\ sv' = SvHears(q)
      /\ spoiled' = (spoiled \/ (IsPush(q) /\ ~Accepts(q)))
  BY DEF SendData, PeerHears
<1>3. UNCHANGED <<own, pull, client, delay, size, frag, ptr, nr, ns, handed, resends, pushed, crossed>>
  BY DEF msgVars, ndefVars, histVars
<1>4. Serves /\ pc # "p2p" /\ Linked' /\ ~Pushing'
  BY <1>2 DEF Serves, Linked, Pushing
<1>5. Acts(out) = {} /\ Flight(out) = {}
  BY <1>1, <1>4, ServedAlone DEF IInv, Turns
<1>6. Less(out, out')
  BY <1>1, SendLess
<1>7. Acts(out') = {} /\ Flight(out') = {} /\ Ordered(out')
  BY <1>5, <1>6 DEF Less
<1>8. TypeOK'
  BY <1>1, <1>2, <1>3 DEF TypeOK
<1>9. cl \in Clients /\ sv \in Servers /\ cl' \in Clients /\ sv' \in Servers
  BY <1>1, <1>2, ClHearsOf, SvHearsOf DEF Typed
<1>10. Typed'
  BY <1>1, <1>2, <1>3, <1>9 DEF Typed
<1>11. Queue'
  BY <1>4, <1>7 DEF Queue
<1>12. Turns'
  BY DEF Turns
<1>13. Reception'
  <2> SUFFICES ASSUME ~crossed
               PROVE  /\ frag' # 0 => pull' /\ handed' = frag'
                      /\ Agrees(cl, Flight(out))'
    BY <1>3, <1>7 DEF Reception
  <2>1. /\ frag # 0 => pull /\ handed = frag
        /\ Agrees(cl, Flight(out)) /\ (pc = "send" => Tells(reply))
    BY <1>4 DEF IInv, Reception
  <2>2. Tells(q)
    <3>1. CASE pc = "greet"
      BY <3>1, SymmIs DEF Tells
    <3> QED
      BY <2>1, <3>1
  <2>3. /\ cl.at = "more" => frag = cl.sent /\ frag # 0
        /\ cl.at \in {"asked", "on", "done"} => frag = 0
        /\ cl.at = "off" => frag = 0
        /\ cl.at \notin {"off", "asked"} => pull
    BY <1>5, <2>1 DEF Agrees
  <2>4. /\ cl'.at = "more" => frag = cl'.sent /\ frag # 0
        /\ cl'.at \in {"asked", "on", "done"} => frag = 0
        /\ cl'.at = "off" => frag = 0
        /\ cl'.at \notin {"off", "asked"} => pull
    <3>1. CASE cl' = cl
      BY <2>3, <3>1
    <3>2. CASE q.pdu = "CC" /\ cl.at = "asked" /\ cl'.at = "on"
      BY <2>2, <2>3, <3>2 DEF Tells
    <3>3. CASE /\ q.pdu = "RR" /\ q.conn = "server"
               /\ cl'.at = "more" /\ cl'.sent = cl.sent
      BY <2>1, <2>2, <3>3 DEF Tells
    <3>4. CASE /\ q.pdu = "I" /\ q.conn = "server" /\ q.snep = "continue"
               /\ cl'.at = "more" /\ cl'.sent = cl.sent
      BY <2>1, <2>2, <3>4 DEF Tells
    <3>5. CASE q.pdu = "I" /\ q.conn = "server" /\ q.snep = "success" /\ cl'.at = "done"
      BY <2>2, <3>5 DEF Tells
    <3> QED
      BY <1>2, <1>9, <3>1, <3>2, <3>3, <3>4, <3>5, ClHearsOf
  <2> QED
    BY <1>3, <1>7, <2>1, <2>4 DEF Agrees
<1>14. IsPush(q) => Pushing /\ q = reply
  BY SymmIs DEF IsPush, Pushing
<1>15. ~late /\ ~crossed => ServerAgrees
  BY <1>4 DEF IInv, Push
<1>16. ASSUME ~late, ~crossed, IsPush(q)
       PROVE  Accepts(q)
  BY <1>14, <1>15, <1>16 DEF ServerAgrees, Expected
<1>17. PushInSequence'
  BY <1>2, <1>3, <1>16 DEF IInv, PushInSequence
<1>18. Push'
  <2> SUFFICES ASSUME ~late, ~crossed
               PROVE  ServerAgrees'
    BY <1>2, <1>3 DEF Push
  <2>3. client \in Sends => nr # 16
    BY <1>15 DEF ServerAgrees
  <2>1. CASE IsPush(q)
    <3>1. Expected(q) /\ Accepts(q)
      BY <1>14, <1>15, <2>1 DEF ServerAgrees, Expected
    <3>2. q.pdu = "I"
      BY <2>1 DEF IsPush
    <3>3. /\ sv'.due /\ sv'.bytes = q.from + q.len
          /\ q.from + q.len = q.size => sv'.at = "success"
          /\ q.from + q.len # q.size => sv'.at = (IF q.snep = "put" THEN "continue" ELSE "on")
      BY <1>2, <1>9, <2>1, <3>1, <3>2, SvHearsOf
    <3>4. CASE q.from + q.len = own /\ client \in Ends
      BY <1>3, <1>4, <1>7, <2>3, <3>1, <3>3, <3>4 DEF ServerAgrees, Expected, Ends
    <3>5. CASE /\ q.from + q.len # own /\ q.from + q.len = ptr
               /\ client = (IF q.snep = "put" THEN "NdefMsgWaitingForContinue" ELSE "NdefMsgSending")
      BY <1>3, <1>4, <1>7, <2>3, <3>1, <3>3, <3>5 DEF ServerAgrees, Expected, Ends
    <3> QED
      BY <3>1, <3>4, <3>5 DEF Expected
  <2>2. CASE ~IsPush(q)
    <3>1. ~Pushing
      BY <1>4, <2>2 DEF Pushing
    <3>2. client \notin Sends
      BY <1>4, <1>15, <2>2 DEF ServerAgrees, IInv, Turns, Sends
    <3>3. CASE q.pdu # "CONNECT" /\ sv' = sv
      BY <1>3, <1>4, <1>7, <1>15, <3>1, <3>2, <3>3 DEF ServerAgrees
    <3>4. CASE q.pdu = "CONNECT" /\ sv'.at = "asked" /\ sv'.nr = sv.nr
      <4>1. pc = "send" /\ q = reply
        BY <3>4, SymmIs
      <4>2. sv.nr = 0 /\ client = "SnepClientConnecting"
        BY <1>15, <3>4, <4>1 DEF ServerAgrees
      <4> QED
        BY <1>3, <1>4, <1>7, <3>2, <3>4, <4>2 DEF ServerAgrees
    <3> QED
      BY <1>2, <1>9, <2>2, <3>3, <3>4, SvHearsOf
  <2> QED
    BY <2>1, <2>2
<1>19. Told'
  <2> SUFFICES ASSUME ~spoiled', pushed, resends = 0
               PROVE  client = "NdefMsgSent" /\ sv'.bytes = own /\ sv'.at \notin {"asked", "continue"}
    BY <1>3, <1>4, <1>7 DEF Told
  <2>1. ~spoiled /\ (IsPush(q) => Accepts(q))
    BY <1>2
  <2>2. /\ client = "NdefMsgSent"
        /\ Pushing => reply.from + reply.len = own /\ reply.size = own
        /\ ~Pushing => /\ sv.bytes = own /\ sv.at \notin {"asked", "continue"}
                       /\ pc = "send" => reply.pdu # "CONNECT"
    BY <1>4, <2>1 DEF IInv, Told
  <2>3. CASE IsPush(q)
    <3>1. q.pdu = "I" /\ q.from + q.len = own /\ q.size = own
      BY <1>14, <2>2, <2>3 DEF IsPush
    <3> QED
      BY <1>2, <1>9, <2>1, <2>2, <2>3, <3>1, SvHearsOf
  <2>4. CASE ~IsPush(q)
    <3>1. ~Pushing /\ q.pdu # "CONNECT"
      BY <1>4, <2>2, <2>4, SymmIs DEF Pushing
    <3>2. sv' = sv
      BY <1>2, <1>9, <2>4, <3>1, SvHearsOf
    <3> QED
      BY <2>2, <3>1, <3>2
  <2> QED
    BY <2>3, <2>4
<1> QED
  BY <1>8, <1>10, <1>11, <1>12, <1>13, <1>17, <1>18, <1>19 DEF IInv

LEMMA GreetKeeps ==
  ASSUME IInv, Greet
  PROVE  IInv'
PROOF
<1>1. /\ pc = "greet" /\ pc' = "p2p" /\ restart' \in BOOLEAN
      /\ SendData(Symm) /\ UNCHANGED <<msgVars, ndefVars, reply, serving, histVars>>
  BY DEF Greet, At
<1>2. reply' \in Pdus /\ Symm \in Pdus
  BY <1>1, SymmIs DEF IInv, Typed
<1> QED
  BY <1>1, <1>2, UnheardKeeps, HeardKeeps

LEMMA ReplyKeeps ==
  ASSUME IInv, P2pReply
  PROVE  IInv'
PROOF
<1>1. /\ pc = "send" /\ pc' = "p2p" /\ restart' \in BOOLEAN
      /\ SendData(reply) /\ reply' = None /\ UNCHANGED <<msgVars, ndefVars, serving, histVars>>
  BY DEF P2pReply, At, IInv, TypeOK
<1>2. reply' \in Pdus /\ reply \in Pdus
  BY <1>1, NoneIs DEF IInv, Typed
<1> QED
  BY <1>1, <1>2, UnheardKeeps, HeardKeeps

-----------------------------------------------------------------------------
(* The peer comes and goes *)

LEMMA ArrivesKeeps ==
  ASSUME IInv, NEW r \in {"polled", "listened"}, PeerArrives(r)
  PROVE  IInv'
PROOF
<1> DEFINE x == [Packet(r) EXCEPT !.epoch = epoch']
<1>1. /\ UNCHANGED <<msgVars, ndefVars, hostVars, histVars>>
      /\ st' = "active" /\ lost' = FALSE /\ role' = r
      /\ epoch < MaxActivations /\ epoch' = epoch + 1
      /\ out' = Append(out, x)
      /\ turn' = (r = "listened") /\ cl' = IdleCl /\ sv' = IdleSv
      /\ late' = FALSE /\ spoiled' = FALSE
  BY DEF PeerArrives
<1>2. TypeOK /\ Typed /\ Queue /\ Ordered(out)
  BY DEF IInv, Queue
<1>3. UNCHANGED <<own, pull, client, delay, size, frag, ptr, nr, ns, pc, restart, reply, serving,
                  handed, resends, pushed, crossed>>
  BY <1>1 DEF msgVars, ndefVars, hostVars, histVars
<1>4. epoch \in Nat /\ serving \in Nat /\ serving <= epoch /\ epoch' \in Nat
  BY <1>1, <1>2 DEF TypeOK
<1>5. x \in Packets /\ x.kind = r /\ x.epoch = epoch' /\ IsActivation(x)
  BY <1>4 DEF Packet, Packets, Kinds, None, Pdu, Pdus, IsActivation
<1> HIDE DEF x
<1>6. \A a \in Acts(out) : a.epoch \in Nat /\ a.epoch <= epoch /\ serving < a.epoch
  BY <1>2, EpochsOf DEF Queue
<1>7. Ordered(out') /\ Acts(out') = Acts(out) \cup {x} /\ Flight(out') = {}
  BY <1>1, <1>2, <1>4, <1>5, <1>6, AppendActivation
<1>8. TypeOK'
  BY <1>1, <1>2, <1>3, <1>4, P2PAssumption DEF TypeOK
<1>9. IdleCl \in Clients /\ IdleSv \in Servers
  BY DEF IdleCl, IdleSv, Clients, Servers
<1>10. Typed'
  BY <1>1, <1>2, <1>3, <1>9 DEF Typed
<1>11. Queue'
  <2>1. \A a \in Acts(out') : serving' < a.epoch /\ a.epoch <= epoch'
    BY <1>1, <1>3, <1>4, <1>5, <1>6, <1>7
  <2>2. \E a \in Acts(out') : a.epoch = epoch'
    BY <1>5, <1>7
  <2>3. cl'.at \in {"off", "asked"} /\ sv' = IdleSv /\ ~late' /\ ~spoiled'
    BY <1>1 DEF IdleCl
  <2>4. ASSUME NEW a \in Acts(out'), a.epoch = epoch', a.kind = "polled"
        PROVE  ~turn'
    <3>1. a = x
      BY <1>1, <1>4, <1>6, <1>7, <2>4
    <3>2. r = "polled"
      BY <1>5, <2>4, <3>1
    <3>3. r # "listened"
      BY <3>2
    <3> QED
      BY <1>1, <3>3
  <2>5. Linked'
    BY <1>1 DEF Linked
  <2> QED
    BY <1>7, <2>1, <2>2, <2>3, <2>4, <2>5 DEF Queue
<1>12. ~Serves'
  BY <1>1, <1>3, <1>4 DEF Serves
<1>13. PushInSequence'
  BY <1>1 DEF PushInSequence
<1> QED
  BY <1>8, <1>10, <1>11, <1>12, <1>13, NotServing DEF IInv

LEMMA LeavesKeeps ==
  ASSUME IInv, PeerLeaves
  PROVE  IInv'
PROOF
<1>1. /\ UNCHANGED <<msgVars, ndefVars, hostVars, role, epoch, histVars>>
      /\ lost' \in BOOLEAN /\ st' \in {"discovering", "active"} /\ ~Linked'
      /\ turn' = FALSE /\ cl' = IdleCl /\ sv' = IdleSv /\ late' = FALSE /\ spoiled' = FALSE
  BY DEF PeerLeaves, Linked, IInv, TypeOK, Typed
<1>2. TypeOK /\ Typed /\ Queue /\ Ordered(out)
  BY DEF IInv, Queue
<1>3. UNCHANGED <<own, pull, client, delay, size, frag, ptr, nr, ns, pc, restart, reply, serving,
                  handed, resends, pushed, crossed>>
  BY <1>1 DEF msgVars, ndefVars, hostVars, histVars
<1>4. Ordered(out') /\ Acts(out') = Acts(out) /\ Flight(out') = Flight(out)
  <2>1. PICK k \in {"error", "deactivated"} : out' = Append(out, Packet(k))
    BY DEF PeerLeaves
  <2>2. Packet(k) \in Packets /\ Packet(k).kind # "data" /\ ~IsActivation(Packet(k))
    BY PacketOf DEF Kinds
  <2> QED
    BY <1>2, <2>1, <2>2, AppendNotice
<1>5. TypeOK'
  BY <1>1, <1>2, <1>3 DEF TypeOK
<1>6. IdleCl \in Clients /\ IdleSv \in Servers /\ IdleCl.at = "off"
  BY DEF IdleCl, IdleSv, Clients, Servers
<1>7. Typed'
  BY <1>1, <1>2, <1>3, <1>6 DEF Typed
<1>8. Queue'
  BY <1>1, <1>2, <1>3, <1>4, <1>6 DEF Queue
<1>9. Serves' => Serves
  BY <1>1, <1>3 DEF Serves
<1>10. Turns'
  BY <1>1, <1>3, <1>4, <1>9 DEF IInv, Turns
<1>11. Reception'
  BY <1>1, <1>3, <1>4, <1>9 DEF IInv, Reception, Follows
<1>12. PushInSequence' /\ Push' /\ Told'
  BY <1>1 DEF PushInSequence, Push, Told
<1> QED
  BY <1>5, <1>7, <1>8, <1>10, <1>11, <1>12 DEF IInv

-----------------------------------------------------------------------------
(* The peer sends a PDU *)

(* What a peer's clients and servers may have sent, as far as the queue goes. *)
Begins(p) == Acts(out) # {} => cl'.at \in {"off", "asked"} /\ sv' = IdleSv /\ p.pdu \in {"SYMM", "CONNECT"}

(* The same for what the host makes of it.                                   *)
Follow(p) ==
  Serves /\ ~crossed =>
    /\ p.pdu = "I" /\ p.conn = "server" => Follows(p) /\ cl'.at = "waiting" /\ cl'.sent = p.from + p.len
    /\ cl'.at = "more" => frag = cl'.sent /\ frag # 0
    /\ cl'.at \in {"asked", "on", "done"} => frag = 0
    /\ cl'.at = "off" => frag = 0 \/ p.pdu = "DISC"
    /\ cl'.at \notin {"off", "asked"} => pull

Continue(p) ==
  Serves /\ ~late' /\ ~crossed =>
    /\ client \in {"Idle", "Initial", "DelayingPush"} => sv' = IdleSv
    /\ sv'.at = "asked" => sv'.nr = 0
    /\ sv'.at = "continue" => client = "NdefMsgWaitingForContinue"
    /\ sv'.at = "success" => client \in Ends
    /\ client \in {"NdefMsgWaitingForContinue", "NdefMsgSending"} => ptr = sv'.bytes
    /\ Calls(p)'

Finish(p) ==
  Serves /\ ~spoiled /\ pushed /\ resends = 0 =>
    sv'.bytes = own /\ sv'.at \notin {"asked", "continue"} /\ p.pdu # "CC" /\ p.snep # "continue"

LEMMA SendingKeeps ==
  ASSUME IInv, NEW p \in Pdus, PeerSends(p), cl' \in Clients, sv' \in Servers,
         FromPeer(p), Begins(p), Follow(p), Continue(p), Finish(p)
  PROVE  IInv'
PROOF
<1>1. /\ Linked /\ turn /\ turn' = FALSE
      /\ out' = Append(out, [Packet("data") EXCEPT !.pdu = p])
      /\ late' = (late \/ (sv.due /\ ~Acks(p)))
      /\ UNCHANGED <<msgVars, ndefVars, hostVars, st, lost, role, epoch, spoiled, histVars>>
  BY DEF PeerSends
<1>2. TypeOK /\ Typed /\ Queue /\ Ordered(out) /\ Turns
  BY DEF IInv, Queue
<1>3. UNCHANGED <<own, pull, client, delay, size, frag, ptr, nr, ns, pc, restart, reply, serving,
                  handed, resends, pushed, crossed>>
  BY <1>1 DEF msgVars, ndefVars, hostVars, histVars
<1>4. Flight(out) = {}
  BY <1>1, <1>2 DEF Queue
<1>5. Ordered(out') /\ Acts(out') = Acts(out) /\ Flight(out') = {p}
  <2> DEFINE x == [Packet("data") EXCEPT !.pdu = p]
  <2>1. x \in Packets /\ x.kind = "data" /\ x.pdu = p
    BY DataOf
  <2>2. out' = Append(out, x)
    BY <1>1
  <2> HIDE DEF x
  <2>3. Ordered(Append(out, x)) /\ Acts(Append(out, x)) = Acts(out) /\ Flight(Append(out, x)) = {x.pdu}
    BY <1>2, <1>4, <2>1, AppendData
  <2> QED
    BY <2>1, <2>2, <2>3
<1>6. TypeOK'
  BY <1>1, <1>2, <1>3 DEF TypeOK
<1>7. late' \in BOOLEAN
  BY <1>1, <1>2 DEF Typed, Servers
<1>8. Typed'
  BY <1>1, <1>2, <1>3, <1>7 DEF Typed
<1>9. Acts(out) # {} => ~late'
  <2>1. Acts(out) # {} => ~late /\ ~sv.due
    BY <1>2 DEF Queue, IdleSv
  <2> QED
    BY <1>1, <2>1
<1>10. Queue'
  <2>1. \A a \in Acts(out') : ~(a.epoch = epoch' /\ a.kind = "polled")
    BY <1>1, <1>2, <1>5 DEF Queue
  <2>2. Acts(out') # {} =>
          /\ \E a \in Acts(out') : a.epoch = epoch'
          /\ cl'.at \in {"off", "asked"} /\ sv' = IdleSv /\ ~late' /\ ~spoiled'
          /\ \A f \in Flight(out') : f.pdu \in {"SYMM", "CONNECT"}
    BY <1>1, <1>2, <1>5, <1>9 DEF Queue, Begins
  <2>3. \A a \in Acts(out') : serving' < a.epoch /\ a.epoch <= epoch'
    BY <1>1, <1>2, <1>3, <1>5 DEF Queue
  <2> QED
    BY <1>1, <1>5, <2>1, <2>2, <2>3 DEF Queue
<1>11. Serves' => Serves /\ pc = "p2p"
  BY <1>1, <1>2, <1>3 DEF Serves, Turns
<1>12. Linked'
  BY <1>1 DEF Linked
<1>13. Turns'
  BY <1>3, <1>11 DEF Turns
<1>14. Reception'
  <2> SUFFICES ASSUME Serves', ~crossed'
               PROVE  /\ frag' # 0 => pull' /\ handed' = frag'
                      /\ \A f \in Flight(out') : f.pdu = "I" /\ f.conn = "server" => Follows(f)'
                      /\ Agrees(cl, Flight(out))'
    BY <1>3, <1>11 DEF Reception
  <2>1. Serves /\ ~crossed
    BY <1>3, <1>11
  <2>2. frag # 0 => pull /\ handed = frag
    BY <2>1 DEF IInv, Reception
  <2>3. /\ p.pdu = "I" /\ p.conn = "server" => Follows(p)
        /\ p.pdu = "I" /\ p.conn = "server" => cl'.at = "waiting" /\ cl'.sent = p.from + p.len
        /\ cl'.at = "more" => frag = cl'.sent /\ frag # 0
        /\ cl'.at \in {"asked", "on", "done"} => frag = 0
        /\ cl'.at = "off" => frag = 0 \/ p.pdu = "DISC"
        /\ cl'.at \notin {"off", "asked"} => pull
    BY <2>1 DEF Follow
  <2>4. Agrees(cl, Flight(out))'
    BY <1>3, <1>5, <2>3 DEF Agrees
  <2>5. Follows(p) => Follows(p)'
    BY <1>3 DEF Follows
  <2> QED
    BY <1>3, <1>5, <2>2, <2>3, <2>4, <2>5
<1>15. PushInSequence'
  BY <1>1, <1>3 DEF IInv, PushInSequence
<1>16. Push'
  <2> SUFFICES ASSUME Serves', ~late', ~crossed'
               PROVE  ServerAgrees'
    BY DEF Push
  <2>1. /\ client \in {"Idle", "Initial", "DelayingPush"} => sv' = IdleSv
        /\ sv'.at = "asked" => sv'.nr = 0
        /\ sv'.at = "continue" => client = "NdefMsgWaitingForContinue"
        /\ sv'.at = "success" => client \in Ends
        /\ client \in {"NdefMsgWaitingForContinue", "NdefMsgSending"} => ptr = sv'.bytes
        /\ Calls(p)'
    BY <1>3, <1>11 DEF Continue
  <2>2. pc' # "send" /\ ~Pushing'
    BY <1>3, <1>11 DEF Pushing
  <2>3. client \in Sends => nr # 16
    BY <1>1, <1>3 DEF IInv, Push, ServerAgrees, Serves
  <2> QED
    BY <1>1, <1>3, <1>5, <2>1, <2>2, <2>3 DEF ServerAgrees
<1>17. Told'
  <2> SUFFICES ASSUME Serves', ~spoiled', pushed', resends' = 0
               PROVE  /\ client = "NdefMsgSent"
                      /\ sv'.bytes = own /\ sv'.at \notin {"asked", "continue"}
                      /\ p.pdu # "CC" /\ p.snep # "continue"
    BY <1>3, <1>5, <1>11 DEF Told, Pushing
  <2>1. Serves /\ ~spoiled /\ pushed /\ resends = 0
    BY <1>1, <1>3, <1>11
  <2>2. client = "NdefMsgSent"
    BY <1>1, <2>1 DEF IInv, Told
  <2> QED
    BY <2>1, <2>2 DEF Finish
<1> QED
  BY <1>6, <1>8, <1>10, <1>13, <1>14, <1>15, <1>16, <1>17 DEF IInv

(* What is known when it is the peer's turn.                                 *)
LEMMA PeersTurn ==
  ASSUME IInv, Linked, turn
  PROVE  /\ Flight(out) = {}
         /\ Acts(out) # {} => cl.at \in {"off", "asked"} /\ sv = IdleSv
         /\ Serves /\ ~crossed =>
              /\ cl.at = "more" => frag = cl.sent /\ frag # 0
              /\ cl.at \in {"off", "asked", "on", "done"} => frag = 0
              /\ cl.at \notin {"off", "asked"} => pull
         /\ Serves /\ ~late /\ ~crossed =>
              /\ client \in {"Idle", "Initial", "DelayingPush"} => sv = IdleSv
              /\ sv.at = "asked" => sv.nr = 0
              /\ sv.at = "continue" => client = "NdefMsgWaitingForContinue"
              /\ sv.at = "success" => client \in Ends
              /\ client \in {"NdefMsgWaitingForContinue", "NdefMsgSending"} => ptr = sv.bytes
              /\ client \in Sends => sv.due
         /\ Serves /\ ~spoiled /\ pushed /\ resends = 0 =>
              client = "NdefMsgSent" /\ sv.bytes = own /\ sv.at \notin {"asked", "continue"}
PROOF
<1>1. Flight(out) = {}
  BY DEF IInv, Queue
<1>2. Serves => ~Pushing
  BY DEF IInv, Turns, Pushing
<1>3. Serves /\ ~crossed => Agrees(cl, Flight(out))
  BY DEF IInv, Reception
<1>4. Serves /\ ~late /\ ~crossed => ServerAgrees
  BY DEF IInv, Push
<1>5. Acts(out) # {} => cl.at \in {"off", "asked"} /\ sv = IdleSv
  BY DEF IInv, Queue
<1>6. Serves /\ ~crossed =>
        /\ cl.at = "more" => frag = cl.sent /\ frag # 0
        /\ cl.at \in {"off", "asked", "on", "done"} => frag = 0
        /\ cl.at \notin {"off", "asked"} => pull
  BY <1>1, <1>3 DEF Agrees
<1>7. Serves /\ ~late /\ ~crossed =>
        /\ client \in {"Idle", "Initial", "DelayingPush"} => sv = IdleSv
        /\ sv.at = "asked" => sv.nr = 0
        /\ sv.at = "continue" => client = "NdefMsgWaitingForContinue"
        /\ sv.at = "success" => client \in Ends
        /\ client \in {"NdefMsgWaitingForContinue", "NdefMsgSending"} => ptr = sv.bytes
        /\ client \in Sends => sv.due
  BY <1>2, <1>4 DEF ServerAgrees
<1>8. Serves /\ ~spoiled /\ pushed /\ resends = 0 =>
        client = "NdefMsgSent" /\ sv.bytes = own /\ sv.at \notin {"asked", "continue"}
  BY <1>2 DEF IInv, Told
<1> QED
  BY <1>1, <1>5, <1>6, <1>7, <1>8

(* A PDU of the peer's client.                                               *)
LEMMA ClientSendsKeeps ==
  ASSUME IInv, NEW p \in Pdus, PeerSends(p), cl' \in Clients, sv' = sv,
         FromPeer(p), p.conn # "client", p.snep # "continue",
         Acts(out) # {} => cl'.at \in {"off", "asked"} /\ p.pdu \in {"SYMM", "CONNECT"},
         Follow(p)
  PROVE  IInv'
PROOF
<1>1. Linked /\ turn /\ late' = (late \/ (sv.due /\ ~Acks(p))) /\ UNCHANGED client
  BY DEF PeerSends, ndefVars
<1>2. ~Acks(p) /\ p.pdu # "CC" /\ (p.pdu = "I" => p.snep \notin {"continue", "success"})
  BY DEF Acks, FromPeer
<1>3. sv' \in Servers
  BY DEF IInv, Typed
<1>4. Begins(p)
  BY <1>1, PeersTurn DEF Begins
<1>5. Continue(p)
  <2> SUFFICES ASSUME Serves, ~late', ~crossed
               PROVE  /\ client \in {"Idle", "Initial", "DelayingPush"} => sv' = IdleSv
                      /\ sv'.at = "asked" => sv'.nr = 0
                      /\ sv'.at = "continue" => client = "NdefMsgWaitingForContinue"
                      /\ sv'.at = "success" => client \in Ends
                      /\ client \in {"NdefMsgWaitingForContinue", "NdefMsgSending"} => ptr = sv'.bytes
                      /\ Calls(p)'
    BY DEF Continue
  <2>1. ~late /\ ~sv.due
    BY <1>1, <1>2
  <2>2. client \notin Sends
    BY <1>1, <2>1, PeersTurn
  <2>3. Calls(p)'
    BY <1>1, <1>2, <2>2 DEF Calls, FromPeer, Acks
  <2> QED
    BY <1>1, <2>1, <2>3, PeersTurn
<1>6. Finish(p)
  BY <1>1, <1>2, PeersTurn DEF Finish
<1> QED
  BY <1>3, <1>4, <1>5, <1>6, SendingKeeps

LEMMA SymmKeeps ==
  ASSUME IInv, PeerSymm
  PROVE  IInv'
PROOF
<1>1. PeerSends(Symm) /\ UNCHANGED <<cl, sv>> /\ Linked /\ turn
  BY DEF PeerSymm, PeerSends
<1>2. Symm \in Pdus /\ FromPeer(Symm) /\ Symm.conn # "client" /\ Symm.snep # "continue" /\ Symm.pdu = "SYMM"
  BY SymmIs DEF FromPeer
<1>3. cl' \in Clients
  BY <1>1 DEF IInv, Typed
<1>4. Follow(Symm)
  BY <1>1, <1>2, PeersTurn DEF Follow
<1> QED
  BY <1>1, <1>2, <1>3, <1>4, PeersTurn, ClientSendsKeeps

LEMMA ConnectsKeeps ==
  ASSUME IInv, NEW service \in {"snep", "other", "unnamed"}, PeerConnects(service)
  PROVE  IInv'
PROOF
<1> DEFINE c == IF service = "snep" THEN "server" ELSE "other"
           a == IF service = "snep" THEN "asked" ELSE "off"
           n == cl.connects + 1
           e == [Pdu("CONNECT", c) EXCEPT !.snep = service]
<1>1. /\ PeerSends(e) /\ UNCHANGED sv /\ Linked /\ turn /\ cl.at = "off"
      /\ cl' = [cl EXCEPT !.at = a, !.connects = n]
  BY DEF PeerConnects, PeerSends
<1>2. c \in {"server", "other"}
  OBVIOUS
<1>30. e \in Pdus /\ e.pdu = "CONNECT" /\ e.conn # "client" /\ e.snep # "continue"
  <2> HIDE DEF c
  <2> QED
    BY <1>2 DEF Pdu, Pdus
<1>3. PICK p \in Pdus : p = e /\ p.pdu = "CONNECT" /\ p.conn # "client" /\ p.snep # "continue"
  BY <1>30, Zenon
<1>31. PeerSends(p)
  BY <1>1, <1>3
<1>32. p.pdu = "CONNECT" /\ p.conn # "client" /\ p.snep # "continue"
  BY <1>3
<1>4. cl \in Clients
  BY DEF IInv, Typed
<1>5. n \in Nat
  BY <1>4 DEF Clients
<1> HIDE DEF e, n
<1>6. cl' \in Clients /\ cl'.at \in {"off", "asked"}
  BY <1>1, <1>4, <1>5 DEF Clients
<1>7. FromPeer(p)
  BY <1>32 DEF FromPeer
<1>8. Follow(p)
  BY <1>1, <1>32, <1>6, PeersTurn DEF Follow
<1> QED
  BY <1>1, <1>31, <1>32, <1>6, <1>7, <1>8, ClientSendsKeeps

LEMMA NextNumber ==
  ASSUME NEW n \in 0 .. 15
  PROVE  (n + 1) % 16 \in 0 .. 15
  OBVIOUS

LEMMA PutsKeeps ==
  ASSUME IInv, NEW t \in Traffic, NEW len \in Pieces, PeerPuts(t[2], len)
  PROVE  IInv'
PROOF
<1> DEFINE total == t[2]
           i == Info("server", cl.ns, cl.nr, "put")
           e == Portion(i, 0, len, total)
           s == (cl.ns + 1) % 16
           n == cl.puts + 1
<1>1. /\ PeerSends(e) /\ UNCHANGED sv /\ Linked /\ turn
      /\ cl.at \in {"on", "done"} /\ len <= total
      /\ cl' = [cl EXCEPT !.at = "waiting", !.total = total, !.sent = len, !.ns = s, !.puts = n]
  BY DEF PeerPuts, PeerSends
<1>2. total \in Nat /\ len \in Nat \ {0}
  BY P2PAssumption
<1>3. cl \in Clients
  BY DEF IInv, Typed
<1>4. cl.ns \in 0 .. 15 /\ cl.nr \in 0 .. 15 /\ n \in Nat
  BY <1>3 DEF Clients
<1>5. s \in 0 .. 15
  BY <1>4, NextNumber
<1>6. i \in Pdus /\ i.pdu = "I" /\ i.conn = "server" /\ i.snep = "put"
  <2> DEFINE x == cl.ns
             y == cl.nr
  <2>1. x \in 0 .. 15 /\ y \in 0 .. 15
    BY <1>4
  <2>2. i = Info("server", x, y, "put")
    OBVIOUS
  <2> HIDE DEF x, y, i
  <2> QED
    BY <2>1, <2>2 DEF Info, Pdu, Pdus
<1> HIDE DEF total, i, s, n
<1>60. PICK p \in Pdus :
         /\ p = e /\ p.pdu = "I" /\ p.conn = "server" /\ p.snep = "put"
         /\ p.from = 0 /\ p.len = len /\ p.size = total
  <2> DEFINE z == 0
  <2>1. z \in Nat /\ len \in Nat
    BY <1>2
  <2> HIDE DEF z
  <2>2. LET q == Portion(i, z, len, total)
        IN  /\ q \in Pdus /\ q.pdu = i.pdu /\ q.conn = i.conn /\ q.snep = i.snep
            /\ q.from = z /\ q.len = len /\ q.size = total
    BY <1>2, <1>6, <2>1 DEF Portion, Pdus
  <2> QED
    BY <1>6, <2>2 DEF z
<1>7. /\ PeerSends(p) /\ p.pdu = "I" /\ p.conn = "server" /\ p.snep = "put"
      /\ p.from = 0 /\ p.len = len /\ p.size = total
  BY <1>1, <1>60
<1> HIDE DEF e
<1>8. cl' \in Clients /\ cl'.at = "waiting" /\ cl'.sent = len
  BY <1>1, <1>2, <1>3, <1>5, <1>4 DEF Clients
<1>9. FromPeer(p)
  BY <1>7 DEF FromPeer
<1>10. Acts(out) = {}
  BY <1>1, PeersTurn
<1>11. p.from + p.len = len
  BY <1>2, <1>7
<1>12. Follow(p)
  BY <1>1, <1>2, <1>7, <1>8, <1>11, PeersTurn DEF Follow, Follows
<1> QED
  BY <1>1, <1>7, <1>8, <1>9, <1>10, <1>12, ClientSendsKeeps

LEMMA ContinuesKeeps ==
  ASSUME IInv, NEW len \in Pieces, PeerContinues(len)
  PROVE  IInv'
PROOF
<1> DEFINE i == Info("server", cl.ns, cl.nr, "more")
           e == Portion(i, cl.sent, len, cl.total)
           s == (cl.ns + 1) % 16
           n == cl.sent + len
<1>1. /\ PeerSends(e) /\ UNCHANGED sv /\ Linked /\ turn /\ cl.at = "more"
      /\ cl' = [cl EXCEPT !.at = "waiting", !.sent = n, !.ns = s]
  BY DEF PeerContinues, PeerSends
<1>2. len \in Nat \ {0}
  BY P2PAssumption
<1>3. cl \in Clients
  BY DEF IInv, Typed
<1>4. cl.ns \in 0 .. 15 /\ cl.nr \in 0 .. 15 /\ cl.sent \in Nat /\ cl.total \in Nat /\ n \in Nat
  BY <1>2, <1>3 DEF Clients
<1>5. s \in 0 .. 15
  BY <1>4, NextNumber
<1>6. i \in Pdus /\ i.pdu = "I" /\ i.conn = "server" /\ i.snep = "more"
  <2> DEFINE x == cl.ns
             y == cl.nr
  <2>1. x \in 0 .. 15 /\ y \in 0 .. 15
    BY <1>4
  <2>2. i = Info("server", x, y, "more")
    OBVIOUS
  <2> HIDE DEF x, y, i
  <2> QED
    BY <2>1, <2>2 DEF Info, Pdu, Pdus
<1> HIDE DEF i, s
<1>60. PICK p \in Pdus :
         /\ p = e /\ p.pdu = "I" /\ p.conn = "server" /\ p.snep = "more"
         /\ p.from = cl.sent /\ p.len = len
  <2> DEFINE z == cl.sent
             t == cl.total
  <2>1. z \in Nat /\ t \in Nat /\ len \in Nat
    BY <1>2, <1>4
  <2>3. e = Portion(i, z, len, t)
    OBVIOUS
  <2> HIDE DEF z, t, e
  <2>2. e \in Pdus /\ e.pdu = i.pdu /\ e.conn = i.conn /\ e.snep = i.snep /\ e.from = z /\ e.len = len
    BY <1>6, <2>1, <2>3 DEF Portion, Pdus
  <2> QED
    BY <1>6, <2>2 DEF z
<1>7. /\ PeerSends(p) /\ p.pdu = "I" /\ p.conn = "server" /\ p.snep = "more"
      /\ p.from = cl.sent /\ p.len = len
  BY <1>1, <1>60
<1> HIDE DEF e
<1>8. cl' \in Clients /\ cl'.at = "waiting" /\ cl'.sent = cl.sent + len
  BY <1>1, <1>3, <1>4, <1>5 DEF Clients
<1>9. FromPeer(p)
  BY <1>7 DEF FromPeer
<1>10. Acts(out) = {}
  BY <1>1, PeersTurn
<1>11. Follow(p)
  BY <1>1, <1>7, <1>8, PeersTurn DEF Follow, Follows
<1> QED
  BY <1>1, <1>7, <1>8, <1>9, <1>10, <1>11, ClientSendsKeeps

LEMMA ClientAcksKeeps ==
  ASSUME IInv, PeerClientAcks
  PROVE  IInv'
PROOF
<1> DEFINE e == [Pdu("RR", "server") EXCEPT !.nr = cl.nr]
<1>1. PeerSends(e) /\ UNCHANGED <<cl, sv>> /\ Linked /\ turn /\ cl.at = "more"
  BY DEF PeerClientAcks, PeerSends
<1>2. cl \in Clients /\ cl.nr \in 0 .. 15
  BY DEF IInv, Typed, Clients
<1>30. PICK p \in Pdus : p = e /\ p.pdu = "RR" /\ p.conn = "server" /\ p.snep = "none"
  <2> DEFINE x == cl.nr
  <2>1. x \in 0 .. 15
    BY <1>2
  <2>2. e = [Pdu("RR", "server") EXCEPT !.nr = x]
    OBVIOUS
  <2> HIDE DEF x, e
  <2>3. e \in Pdus /\ e.pdu = "RR" /\ e.conn = "server" /\ e.nr = x /\ e.snep = "none"
    BY <2>1, <2>2 DEF Pdu, Pdus
  <2> QED
    BY <2>3 DEF x
<1>3. PeerSends(p) /\ p.pdu = "RR" /\ p.conn = "server" /\ p.snep = "none"
  BY <1>1, <1>30
<1> HIDE DEF e
<1>4. FromPeer(p)
  BY <1>3 DEF FromPeer
<1>5. Acts(out) = {}
  BY <1>1, PeersTurn
<1>6. Follow(p)
  BY <1>1, <1>3, PeersTurn DEF Follow
<1> QED
  BY <1>1, <1>2, <1>3, <1>4, <1>5, <1>6, ClientSendsKeeps

LEMMA DisconnectsKeeps ==
  ASSUME IInv, PeerDisconnects
  PROVE  IInv'
PROOF
<1> DEFINE e == Pdu("DISC", "server")
<1>1. /\ PeerSends(e) /\ UNCHANGED sv /\ Linked /\ turn /\ cl.at \notin {"off", "asked"}
      /\ cl' = [cl EXCEPT !.at = "off"]
  BY DEF PeerDisconnects, PeerSends
<1>2. cl' \in Clients /\ cl'.at = "off"
  BY <1>1 DEF IInv, Typed, Clients
<1>30. PICK p \in Pdus : p = e /\ p.pdu = "DISC" /\ p.conn = "server" /\ p.snep = "none"
  BY PduOf
<1>3. PeerSends(p) /\ p.pdu = "DISC" /\ p.conn = "server" /\ p.snep = "none"
  BY <1>1, <1>30
<1> HIDE DEF e
<1>4. FromPeer(p)
  BY <1>3 DEF FromPeer
<1>5. Acts(out) = {}
  BY <1>1, PeersTurn
<1>6. Follow(p)
  BY <1>1, <1>2, <1>3, PeersTurn DEF Follow
<1> QED
  BY <1>1, <1>2, <1>3, <1>4, <1>5, <1>6, ClientSendsKeeps

(* A PDU of the peer's server: nothing changes for its client.               *)
LEMMA ServerSendsKeeps ==
  ASSUME IInv, NEW p \in Pdus, PeerSends(p), cl' = cl, sv' \in Servers,
         FromPeer(p), p.conn = "client", sv # IdleSv, Continue(p), Finish(p)
  PROVE  IInv'
PROOF
<1>1. Linked /\ turn
  BY DEF PeerSends
<1>2. cl' \in Clients
  BY DEF IInv, Typed
<1>3. Begins(p)
  BY <1>1, PeersTurn DEF Begins
<1>4. Follow(p)
  BY <1>1, PeersTurn DEF Follow
<1> QED
  BY <1>2, <1>3, <1>4, SendingKeeps

LEMMA AcceptsKeeps ==
  ASSUME IInv, NEW yes \in BOOLEAN, PeerAccepts(yes)
  PROVE  IInv'
PROOF
<1> DEFINE k == IF yes THEN "CC" ELSE "DM"
           a == IF yes THEN "on" ELSE "refused"
           e == Pdu(k, "client")
<1>1. /\ PeerSends(e) /\ UNCHANGED cl /\ Linked /\ turn /\ sv.at = "asked"
      /\ sv' = [sv EXCEPT !.at = a] /\ late' = (late \/ (sv.due /\ ~Acks(e))) /\ UNCHANGED <<client, ptr>>
  BY DEF PeerAccepts, PeerSends, ndefVars
<1>2. k \in {"CC", "DM"} /\ a \in {"on", "refused"}
  OBVIOUS
<1>30. PICK p \in Pdus : p = e /\ p.pdu \in {"CC", "DM"} /\ p.conn = "client" /\ p.snep = "none"
  BY <1>2, PduOf
<1>3. /\ PeerSends(p) /\ p.pdu \in {"CC", "DM"} /\ p.conn = "client" /\ p.snep = "none"
      /\ late' = (late \/ (sv.due /\ ~Acks(p)))
  BY <1>1, <1>30
<1> HIDE DEF e, k, a
<1>4. sv \in Servers
  BY DEF IInv, Typed
<1>5. sv' \in Servers /\ sv'.at \in {"on", "refused"} /\ sv'.nr = sv.nr /\ sv'.bytes = sv.bytes /\ sv # IdleSv
  BY <1>1, <1>2, <1>4 DEF Servers, IdleSv
<1>6. FromPeer(p) /\ ~Acks(p)
  BY <1>3 DEF FromPeer, Acks
<1>7. Continue(p)
  <2> SUFFICES ASSUME Serves, ~late', ~crossed
               PROVE  /\ client \in {"Idle", "Initial", "DelayingPush"} => sv' = IdleSv
                      /\ sv'.at = "asked" => sv'.nr = 0
                      /\ sv'.at = "continue" => client = "NdefMsgWaitingForContinue"
                      /\ sv'.at = "success" => client \in Ends
                      /\ client \in {"NdefMsgWaitingForContinue", "NdefMsgSending"} => ptr = sv'.bytes
                      /\ Calls(p)'
    BY DEF Continue
  <2>1. ~late /\ ~sv.due
    BY <1>3, <1>6
  <2>2. client \notin Sends /\ sv.nr = 0 /\ client \notin {"Idle", "Initial", "DelayingPush"}
    BY <1>1, <1>5, <2>1, PeersTurn
  <2>3. client \in {"NdefMsgWaitingForContinue", "NdefMsgSending"} => ptr = sv'.bytes
    BY <1>1, <1>5, <2>1, PeersTurn
  <2>4. Calls(p)'
    BY <1>1, <1>3, <1>5, <1>6, <2>2 DEF Calls, Acks
  <2> QED
    BY <1>5, <2>2, <2>3, <2>4
<1>8. Finish(p)
  BY <1>1, PeersTurn DEF Finish
<1> QED
  BY <1>1, <1>3, <1>5, <1>6, <1>7, <1>8, ServerSendsKeeps

LEMMA ServerAcksKeeps ==
  ASSUME IInv, PeerServerAcks
  PROVE  IInv'
PROOF
<1> DEFINE e == [Pdu("RR", "client") EXCEPT !.nr = sv.nr]
<1>1. /\ PeerSends(e) /\ UNCHANGED cl /\ Linked /\ turn /\ sv.due
      /\ sv' = [sv EXCEPT !.due = FALSE] /\ late' = (late \/ (sv.due /\ ~Acks(e))) /\ UNCHANGED <<client, ptr>>
  BY DEF PeerServerAcks, PeerSends, ndefVars
<1>2. sv \in Servers /\ sv.nr \in 0 .. 15
  BY DEF IInv, Typed, Servers
<1>30. PICK p \in Pdus : p = e /\ p.pdu = "RR" /\ p.conn = "client" /\ p.nr = sv.nr /\ p.snep = "none"
  <2> DEFINE x == sv.nr
  <2>1. x \in 0 .. 15
    BY <1>2
  <2>2. e = [Pdu("RR", "client") EXCEPT !.nr = x]
    OBVIOUS
  <2> HIDE DEF x, e
  <2>3. e \in Pdus /\ e.pdu = "RR" /\ e.conn = "client" /\ e.nr = x /\ e.snep = "none"
    BY <2>1, <2>2 DEF Pdu, Pdus
  <2> QED
    BY <2>3 DEF x
<1>3. PeerSends(p) /\ p.pdu = "RR" /\ p.conn = "client" /\ p.nr = sv.nr /\ p.snep = "none"
  BY <1>1, <1>30
<1> HIDE DEF e
<1>40. IdleSv.due = FALSE
  BY DEF IdleSv
<1>41. sv # IdleSv
  BY <1>1, <1>40
<1>42. sv' \in Servers /\ sv'.at = sv.at /\ sv'.nr = sv.nr /\ sv'.bytes = sv.bytes
  BY <1>1, <1>2 DEF Servers
<1>4. /\ sv' \in Servers /\ sv'.at = sv.at /\ sv'.nr = sv.nr /\ sv'.bytes = sv.bytes
      /\ sv # IdleSv
  BY <1>41, <1>42
<1>5. FromPeer(p) /\ Acks(p)
  BY <1>3 DEF FromPeer, Acks
<1>6. Continue(p)
  <2> SUFFICES ASSUME Serves, ~late', ~crossed
               PROVE  /\ client \in {"Idle", "Initial", "DelayingPush"} => sv' = IdleSv
                      /\ sv'.at = "asked" => sv'.nr = 0
                      /\ sv'.at = "continue" => client = "NdefMsgWaitingForContinue"
                      /\ sv'.at = "success" => client \in Ends
                      /\ client \in {"NdefMsgWaitingForContinue", "NdefMsgSending"} => ptr = sv'.bytes
                      /\ Calls(p)'
    BY DEF Continue
  <2>1. ~late
    BY <1>1
  <2>2. /\ client \in {"Idle", "Initial", "DelayingPush"} => sv = IdleSv
        /\ sv.at = "asked" => sv.nr = 0
        /\ sv.at = "continue" => client = "NdefMsgWaitingForContinue"
        /\ sv.at = "success" => client \in Ends
        /\ client \in {"NdefMsgWaitingForContinue", "NdefMsgSending"} => ptr = sv.bytes
    BY <1>1, <2>1, PeersTurn
  <2>3. Calls(p)'
    BY <1>3, <1>4, <1>5 DEF Calls, Acks
  <2> QED
    BY <1>4, <2>2, <2>3
<1>7. Finish(p)
  BY <1>1, <1>3, <1>4, PeersTurn DEF Finish
<1> QED
  BY <1>1, <1>3, <1>4, <1>5, <1>6, <1>7, ServerSendsKeeps

LEMMA RespondsKeeps ==
  ASSUME IInv, PeerResponds
  PROVE  IInv'
PROOF
<1> DEFINE e == Info("client", sv.ns, sv.nr, sv.at)
           n == (sv.ns + 1) % 16
<1>1. /\ PeerSends(e) /\ UNCHANGED cl /\ Linked /\ turn /\ sv.at \in {"continue", "success"}
      /\ sv' = [sv EXCEPT !.at = "on", !.due = FALSE, !.ns = n]
      /\ late' = (late \/ (sv.due /\ ~Acks(e))) /\ UNCHANGED <<client, ptr>>
  BY DEF PeerResponds, PeerSends, ndefVars
<1>2. sv \in Servers /\ sv.nr \in 0 .. 15 /\ sv.ns \in 0 .. 15
  BY DEF IInv, Typed, Servers
<1>3. n \in 0 .. 15
  BY <1>2, NextNumber
<1>40. PICK p \in Pdus : p = e /\ p.pdu = "I" /\ p.conn = "client" /\ p.nr = sv.nr /\ p.snep = sv.at
  <2> DEFINE a == sv.at
             x == sv.ns
             y == sv.nr
  <2>1. a \in {"put", "more", "continue", "success"} /\ x \in 0 .. 15 /\ y \in 0 .. 15
    BY <1>1, <1>2
  <2>2. e = Info("client", x, y, a)
    OBVIOUS
  <2> HIDE DEF a, x, y, e
  <2>3. e \in Pdus /\ e.pdu = "I" /\ e.conn = "client" /\ e.nr = y /\ e.snep = a
    BY <2>1, <2>2 DEF Info, Pdu, Pdus
  <2> QED
    BY <2>3 DEF a, y
<1>4. PeerSends(p) /\ p.pdu = "I" /\ p.conn = "client" /\ p.nr = sv.nr /\ p.snep = sv.at
  BY <1>1, <1>40
<1> HIDE DEF e, n
<1>50. IdleSv.at = "off"
  BY DEF IdleSv
<1>51. sv # IdleSv
  BY <1>1, <1>50
<1>52. sv' \in Servers /\ sv'.at = "on" /\ sv'.nr = sv.nr /\ sv'.bytes = sv.bytes
  BY <1>1, <1>2, <1>3 DEF Servers
<1>5. /\ sv' \in Servers /\ sv'.at = "on" /\ sv'.nr = sv.nr /\ sv'.bytes = sv.bytes
      /\ sv # IdleSv
  BY <1>51, <1>52
<1>6. FromPeer(p) /\ Acks(p)
  BY <1>1, <1>4 DEF FromPeer, Acks
<1>7. Continue(p)
  <2> SUFFICES ASSUME Serves, ~late', ~crossed
               PROVE  /\ client \in {"Idle", "Initial", "DelayingPush"} => sv' = IdleSv
                      /\ sv'.at = "asked" => sv'.nr = 0
                      /\ sv'.at = "continue" => client = "NdefMsgWaitingForContinue"
                      /\ sv'.at = "success" => client \in Ends
                      /\ client \in {"NdefMsgWaitingForContinue", "NdefMsgSending"} => ptr = sv'.bytes
                      /\ Calls(p)'
    BY DEF Continue
  <2>1. ~late
    BY <1>1
  <2>2. /\ client \in {"Idle", "Initial", "DelayingPush"} => sv = IdleSv
        /\ sv.at = "continue" => client = "NdefMsgWaitingForContinue"
        /\ sv.at = "success" => client \in Ends
        /\ client \in {"NdefMsgWaitingForContinue", "NdefMsgSending"} => ptr = sv.bytes
    BY <1>1, <2>1, PeersTurn
  <2>3. Calls(p)'
    BY <1>1, <1>4, <1>5, <1>6, <2>2 DEF Calls, Acks
  <2> QED
    BY <1>5, <2>2, <2>3
<1>8. Finish(p)
  BY <1>1, <1>4, <1>5, PeersTurn DEF Finish
<1> QED
  BY <1>1, <1>4, <1>5, <1>6, <1>7, <1>8, ServerSendsKeeps

LEMMA SpeaksKeeps ==
  ASSUME IInv, PeerSpeaks
  PROVE  IInv'
  BY SymmKeeps, ClientAcksKeeps, DisconnectsKeeps, ServerAcksKeeps, RespondsKeeps, ConnectsKeeps,
     PutsKeeps, ContinuesKeeps, AcceptsKeeps DEF PeerSpeaks


-----------------------------------------------------------------------------
(* The host takes a PDU *)

Waiting == {"Initial", "DelayingPush"}

(* What the client does when it does not send a frame, from its state s.     *)
Quiet(s) ==
  /\ UNCHANGED <<ptr, pushed, resends>>
  /\ reply'.pdu \in {"SYMM", "CONNECT", "empty"} /\ reply'.snep = "none"
  /\ s \in Waiting => client' \in {"DelayingPush", "SnepClientConnecting"}
  /\ s \notin Waiting => client' = s /\ reply'.pdu = "SYMM"
  /\ reply'.pdu = "CONNECT" => client' = "SnepClientConnecting"

(* The frame that it sends, and whether that is the last one.                *)
Frames(p, s) ==
  /\ reply'.pdu = "I" /\ reply'.conn = p.conn /\ reply'.size = own
  /\ nr' # 16 => reply'.ns = ns'
  /\ reply'.snep = (IF s = "SnepClientConnected" THEN "put" ELSE "more")
  /\ reply'.from = (IF s = "SnepClientConnected" THEN 0 ELSE ptr)
  /\ \/ /\ reply'.from + reply'.len = own /\ pushed'
        /\ \/ client' = "NdefMsgSent" /\ resends' = resends
           \/ client' = "SnepClientConnected" /\ resends' = resends + 1
     \/ /\ reply'.from + reply'.len # own /\ reply'.from + reply'.len = ptr'
        /\ UNCHANGED <<pushed, resends>>
        /\ client' = IF s = "SnepClientConnected" THEN "NdefMsgWaitingForContinue" ELSE "NdefMsgSending"

States == {"Idle", "Initial", "DelayingPush", "SnepClientConnecting", "SnepClientConnected",
           "NdefMsgWaitingForContinue", "NdefMsgSending", "NdefMsgSent"}

(* The types of what P2P_NDEF_Next changes.                                  *)
Results ==
  /\ client' \in States /\ delay' \in 1 .. 2 /\ ptr' \in Nat /\ ptr' <= own
  /\ reply' \in Pdus /\ resends' \in Nat /\ pushed' \in BOOLEAN

LEMMA QuietOf ==
  ASSUME TypeOK, Typed, NEW p, NEW s \in States \ Sends, ClientStep(p, s)
  PROVE  Quiet(s) /\ Results
PROOF
<1>1. /\ client \in States /\ delay \in 1 .. 2 /\ ptr \in Nat /\ own \in Nat /\ ptr <= own
      /\ resends \in Nat /\ pushed \in BOOLEAN
  BY DEF TypeOK, Typed, States
<1>2. \A k \in {"SYMM", "CONNECT", "empty"}, c \in {"client", "link"} :
        Pdu(k, c) \in Pdus /\ Pdu(k, c).pdu = k /\ Pdu(k, c).snep = "none"
  BY DEF Pdu, Pdus
<1>3. Symm \in Pdus /\ Symm.pdu = "SYMM" /\ Symm.snep = "none"
  BY SymmIs
<1>4. CASE s = "Initial"
  <2>1. /\ UNCHANGED <<ptr, pushed, resends>>
        /\ \/ reply' = Symm /\ delay' = 1 /\ client' = "DelayingPush"
           \/ reply' = Pdu("CONNECT", "client") /\ client' = "SnepClientConnecting" /\ delay' = delay
    BY <1>4 DEF ClientStep, Says, Sends
  <2> QED
    BY <1>1, <1>2, <1>3, <1>4, <2>1 DEF Quiet, Results, Waiting, States
<1>5. CASE s = "DelayingPush"
  <2>1. /\ UNCHANGED <<ptr, pushed, resends>>
        /\ \/ reply' = Symm /\ delay # 2 /\ delay' = delay + 1 /\ client' = "DelayingPush"
           \/ reply' = Pdu("CONNECT", "client") /\ client' = "SnepClientConnecting" /\ delay' = delay
           \/ reply' = Pdu("empty", "link") /\ client' = "DelayingPush" /\ delay' = delay
    BY <1>5 DEF ClientStep, Delaying, Says, Sends
  <2>2. delay' \in 1 .. 2
    BY <1>1, <2>1
  <2> QED
    BY <1>1, <1>2, <1>3, <1>5, <2>1, <2>2 DEF Quiet, Results, Waiting, States
<1>6. CASE s \notin Waiting
  <2>1. UNCHANGED <<ptr, pushed, resends, delay>> /\ reply' = Symm /\ client' = s
    BY <1>6 DEF ClientStep, Says, Sends, Waiting
  <2> QED
    BY <1>1, <1>3, <1>6, <2>1 DEF Quiet, Results
<1> QED
  BY <1>4, <1>5, <1>6 DEF Waiting

(* The two numbers of a frame fit into their four bits, and only a 16 in the *)
(* second is carried into the first.                                         *)
LEMMA CarryOf ==
  ASSUME NEW s \in 0 .. 15, NEW r \in 0 .. 16
  PROVE  /\ (s + r \div 16) % 16 \in 0 .. 15 /\ r % 16 \in 0 .. 15
         /\ r # 16 => (s + r \div 16) % 16 = s
PROOF
<1>1. CASE r = 16
  <2>1. 16 \div 16 = 1 /\ 16 % 16 = 0
    OBVIOUS
  <2>2. (s + 1) % 16 \in 0 .. 15
    OBVIOUS
  <2> QED
    BY <1>1, <2>1, <2>2
<1>2. CASE r # 16
  <2>1. r \in 0 .. 15 /\ r \div 16 = 0 /\ r % 16 = r
    BY <1>2
  <2>2. s + 0 = s /\ s % 16 = s
    OBVIOUS
  <2> QED
    BY <1>2, <2>1, <2>2
<1> QED
  BY <1>1, <1>2

LEMMA FramesOf ==
  ASSUME TypeOK, Typed, NEW p \in Pdus, NEW s \in Sends, ClientStep(p, s),
         nr' \in 0 .. 16, ns' \in 0 .. 15
  PROVE  Frames(p, s) /\ Results
PROOF
<1>1. /\ delay \in 1 .. 2 /\ ptr \in Nat /\ own \in Nat /\ ptr <= own
      /\ resends \in Nat /\ pushed \in BOOLEAN /\ Frame \in Nat
  BY P2PAssumption DEF TypeOK, Typed
<1>2. PICK a \in 0 .. 15, b \in 0 .. 15, c \in {"server", "client", "other", "link"} :
        /\ a = (ns' + nr' \div 16) % 16 /\ b = nr' % 16 /\ c = p.conn
        /\ nr' # 16 => a = ns'
  <2>1. /\ (ns' + nr' \div 16) % 16 \in 0 .. 15 /\ nr' % 16 \in 0 .. 15
        /\ nr' # 16 => (ns' + nr' \div 16) % 16 = ns'
    BY CarryOf
  <2> QED
    BY <2>1 DEF Pdus
<1> DEFINE m == IF s = "SnepClientConnected" THEN "put" ELSE "more"
           from == IF s = "SnepClientConnected" THEN 0 ELSE ptr
           last == IF s = "SnepClientConnected" THEN own ELSE own - ptr
           next == IF s = "SnepClientConnected" THEN "NdefMsgWaitingForContinue" ELSE "NdefMsgSending"
           head == Info(c, a, b, m)
<1>3. /\ delay' = delay
      /\ \/ reply' = Portion(head, from, last, own) /\ Pushed /\ UNCHANGED ptr
         \/ /\ from + Frame < own
            /\ Says(Portion(head, from, Frame, own)) /\ ptr' = from + Frame /\ client' = next
  <2>1. CASE s = "SnepClientConnected"
    <3>1. ClientPuts(p) /\ UNCHANGED delay
      BY <2>1 DEF ClientStep
    <3>2. head = Numbered(p, "put") /\ from = 0 /\ last = own /\ next = "NdefMsgWaitingForContinue"
      BY <1>2, <2>1 DEF Numbered
    <3>3. 0 + Frame = Frame
      BY <1>1
    <3> HIDE DEF head, from, last, next
    <3> QED
      BY <1>1, <3>1, <3>2, <3>3 DEF ClientPuts
  <2>2. CASE s = "NdefMsgSending"
    <3>1. ClientSends(p) /\ UNCHANGED delay
      BY <2>2 DEF ClientStep
    <3>2. head = Numbered(p, "more") /\ from = ptr /\ last = own - ptr /\ next = "NdefMsgSending"
      BY <1>2, <2>2 DEF Numbered
    <3> HIDE DEF head, from, last, next
    <3> QED
      BY <1>1, <3>1, <3>2 DEF ClientSends
  <2> QED
    BY <2>1, <2>2 DEF Sends
<1>4. from \in Nat /\ last \in Nat /\ from + last = own
  BY <1>1
<1>5. m \in {"put", "more"} /\ next \in {"NdefMsgWaitingForContinue", "NdefMsgSending"}
  OBVIOUS
<1> HIDE DEF from, last, m, next
<1>6. \A l \in Nat : LET q == Portion(head, from, l, own)
                     IN  /\ q \in Pdus /\ q.pdu = "I" /\ q.conn = c /\ q.ns = a /\ q.snep = m
                         /\ q.from = from /\ q.len = l /\ q.size = own
  BY <1>1, <1>2, <1>4, <1>5 DEF Portion, Info, Pdu, Pdus
<1> HIDE DEF head
<1>7. CASE reply' = Portion(head, from, last, own) /\ Pushed /\ UNCHANGED ptr
  <2>1. PICK q \in Pdus : /\ q = reply' /\ q.pdu = "I" /\ q.conn = c /\ q.ns = a /\ q.snep = m
                          /\ q.from = from /\ q.len = last /\ q.size = own
    BY <1>4, <1>6, <1>7
  <2>2. /\ pushed' = TRUE
        /\ \/ client' = "NdefMsgSent" /\ resends' = resends
           \/ client' = "SnepClientConnected" /\ resends' = resends + 1
    BY <1>7 DEF Pushed
  <2>3. resends' \in Nat
    BY <1>1, <2>2
  <2>4. Frames(p, s)
    BY <1>2, <1>4, <2>1, <2>2 DEF Frames, from, m
  <2>5. Results
    BY <1>1, <1>3, <1>7, <2>1, <2>2, <2>3 DEF Results, States
  <2> QED
    BY <2>4, <2>5
<1>8. CASE /\ from + Frame < own
           /\ Says(Portion(head, from, Frame, own)) /\ ptr' = from + Frame /\ client' = next
  <2>1. PICK q \in Pdus : /\ q = reply' /\ q.pdu = "I" /\ q.conn = c /\ q.ns = a /\ q.snep = m
                          /\ q.from = from /\ q.len = Frame /\ q.size = own
    BY <1>1, <1>6, <1>8 DEF Says
  <2>2. UNCHANGED <<pushed, resends>>
    BY <1>8 DEF Says
  <2>3. PICK n \in Nat : n = ptr' /\ n = from + Frame /\ n # own /\ n <= own
    BY <1>1, <1>4, <1>8
  <2>4. Frames(p, s)
    BY <1>2, <1>8, <2>1, <2>2, <2>3 DEF Frames, from, m, next
  <2>5. Results
    BY <1>1, <1>3, <1>5, <1>8, <2>1, <2>2, <2>3 DEF Results, States
  <2> QED
    BY <2>4, <2>5
<1> QED
  BY <1>3, <1>7, <1>8

(* What P2P_NDEF_Next does with a PDU: it takes a fragment of the peer's     *)
(* message, answers otherwise, or has the client speak from its state s.     *)
Received(p) ==
  /\ p.pdu = "I" /\ UNCHANGED <<client, delay, ptr, pushed, resends>>
  /\ reply' \in Pdus /\ reply'.conn = p.conn
  /\ \/ /\ frag = 0 /\ p.snep = "put" /\ size' = p.size /\ handed' = (IF pull THEN p.len ELSE handed)
        /\ \/ p.size <= p.len /\ frag' = 0 /\ reply'.pdu = "I" /\ reply'.snep = "success"
           \/ p.size > p.len /\ frag' = p.len /\ reply'.pdu = "I" /\ reply'.snep = "continue"
     \/ /\ frag # 0 /\ size' = size /\ handed' = Handed(p)
        /\ \/ frag + Payload(p) = size /\ frag' = 0 /\ reply'.pdu = "I" /\ reply'.snep = "success"
           \/ frag' = frag + Payload(p) /\ reply'.pdu = "RR" /\ reply'.snep = "none"

Answered(p) ==
  /\ p.pdu = "CONNECT" \/ (p.pdu = "RR" /\ frag # 0)
  /\ UNCHANGED <<size, frag, handed, client, delay, ptr, pushed, resends>>
  /\ reply' \in Pdus /\ reply'.pdu \in {"CC", "DM", "SYMM"} /\ reply'.snep = "none"
  /\ reply'.pdu = "CC" => pull

Spoken(p, s) ==
  /\ UNCHANGED <<size, frag, handed>> /\ ClientStep(p, s)
  /\ \/ s = client /\ (p.pdu = "I" => frag = 0 /\ p.snep \notin {"put", "continue"}) /\ p.pdu # "CC"
     \/ s = "NdefMsgSending" /\ p.pdu = "I" /\ frag = 0 /\ p.snep = "continue"
     \/ s = "SnepClientConnected" /\ p.pdu = "CC"
  /\ p.pdu \in {"I", "RR"} => ns' = p.nr
  /\ p.pdu = "CC" => ns' = 0
  /\ IF p.pdu \in {"I", "CC"} THEN nr' # 16 ELSE nr' = nr

(* A reply to be sent, by its kind, connection and SNEP message.             *)
Replies(q, k, c, m) == q \in Pdus /\ q.pdu = k /\ q.conn = c /\ q.snep = m

LEMMA RepliesAre ==
  ASSUME NEW p \in Pdus
  PROVE  /\ Replies(Info(p.conn, p.nr, INC(p.ns), "success"), "I", p.conn, "success")
         /\ Replies(Info(p.conn, p.nr, INC(p.ns), "continue"), "I", p.conn, "continue")
         /\ Replies([Pdu("RR", p.conn) EXCEPT !.nr = INC(p.ns)], "RR", p.conn, "none")
         /\ Replies(Pdu("CC", p.conn), "CC", p.conn, "none")
         /\ Replies(Pdu("DM", p.conn), "DM", p.conn, "none")
PROOF
<1> DEFINE c == p.conn
           r == p.nr
           n == INC(p.ns)
<1>1. c \in {"server", "client", "other", "link"} /\ r \in 0 .. 15 /\ p.ns \in 0 .. 15
  BY DEF Pdus
<1>2. n \in 0 .. 15
  BY <1>1, NextNumber DEF INC
<1> SUFFICES /\ Replies(Info(c, r, n, "success"), "I", c, "success")
             /\ Replies(Info(c, r, n, "continue"), "I", c, "continue")
             /\ Replies([Pdu("RR", c) EXCEPT !.nr = n], "RR", c, "none")
             /\ Replies(Pdu("CC", c), "CC", c, "none") /\ Replies(Pdu("DM", c), "DM", c, "none")
  OBVIOUS
<1> HIDE DEF c, r, n
<1>3. Replies(Info(c, r, n, "success"), "I", c, "success")
  BY <1>1, <1>2 DEF Replies, Info, Pdu, Pdus
<1>4. Replies(Info(c, r, n, "continue"), "I", c, "continue")
  BY <1>1, <1>2 DEF Replies, Info, Pdu, Pdus
<1>5. Replies([Pdu("RR", c) EXCEPT !.nr = n], "RR", c, "none")
  BY <1>1, <1>2 DEF Replies, Pdu, Pdus
<1>6. Replies(Pdu("CC", c), "CC", c, "none") /\ Replies(Pdu("DM", c), "DM", c, "none")
  BY <1>1 DEF Replies, Pdu, Pdus
<1> QED
  BY <1>3, <1>4, <1>5, <1>6

LEMMA NextOf ==
  ASSUME TypeOK, Typed, NEW p \in Pdus, P2P_NDEF_Next(p)
  PROVE  /\ Received(p) \/ Answered(p) \/ \E s \in States : Spoken(p, s)
         /\ nr' \in 0 .. 16 /\ ns' \in 0 .. 15
         /\ size' \in Nat /\ frag' \in Nat /\ handed' \in Nat
PROOF
<1>1. /\ nr \in 0 .. 16 /\ ns \in 0 .. 15 /\ size \in Nat /\ frag \in Nat /\ handed \in Nat
      /\ client \in States
  BY DEF TypeOK, States
<1>2. p.ns \in 0 .. 15 /\ p.nr \in 0 .. 15 /\ p.from \in Nat /\ p.len \in Nat /\ p.size \in Nat
  BY DEF Pdus
<1>3. Symm \in Pdus /\ Symm.pdu = "SYMM" /\ Symm.snep = "none"
  BY SymmIs
<1>4. CASE Connect(p)
  <2>1. /\ p.pdu = "CONNECT" /\ UNCHANGED <<size, frag, handed>>
        /\ \/ pull /\ nr' = 0 /\ ns' = 0 /\ NoClientStep(Pdu("CC", p.conn))
           \/ UNCHANGED <<nr, ns>> /\ ClientStep(p, client)
           \/ UNCHANGED <<nr, ns>> /\ NoClientStep(Pdu("DM", p.conn))
    BY <1>4 DEF Connect
  <2>2. CASE pull /\ nr' = 0 /\ ns' = 0 /\ NoClientStep(Pdu("CC", p.conn))
    <3>0. Replies(reply', "CC", p.conn, "none") /\ UNCHANGED <<client, delay, ptr, pushed, resends>>
      BY <2>2, RepliesAre DEF NoClientStep, Says
    <3>1. Answered(p)
      BY <2>1, <2>2, <3>0 DEF Answered, Replies
    <3> QED
      BY <1>1, <2>1, <2>2, <3>1
  <2>3. CASE UNCHANGED <<nr, ns>> /\ ClientStep(p, client)
    <3>1. Spoken(p, client)
      BY <2>1, <2>3 DEF Spoken
    <3> QED
      BY <1>1, <2>1, <2>3, <3>1
  <2>4. CASE UNCHANGED <<nr, ns>> /\ NoClientStep(Pdu("DM", p.conn))
    <3>0. Replies(reply', "DM", p.conn, "none") /\ UNCHANGED <<client, delay, ptr, pushed, resends>>
      BY <2>4, RepliesAre DEF NoClientStep, Says
    <3>1. Answered(p)
      BY <2>1, <3>0 DEF Answered, Replies
    <3> QED
      BY <1>1, <2>1, <2>4, <3>1
  <2> QED
    BY <2>1, <2>2, <2>3, <2>4
<1>5. CASE FirstFrame(p)
  <2>1. /\ p.pdu = "I" /\ frag = 0 /\ ns' = p.nr
        /\ nr' = IF p.snep = "put" THEN p.ns + 1 ELSE p.ns
    BY <1>5 DEF FirstFrame, Numbers, Counted
  <2>2. CASE p.snep = "put"
    <3>1. /\ size' = p.size /\ handed' = (IF pull THEN p.len ELSE handed)
          /\ \/ /\ p.size <= p.len /\ frag' = 0
                /\ NoClientStep(Info(p.conn, p.nr, INC(p.ns), "success"))
             \/ /\ ~(p.size <= p.len) /\ frag' = p.len
                /\ NoClientStep(Info(p.conn, p.nr, INC(p.ns), "continue"))
      BY <1>5, <2>1, <2>2 DEF FirstFrame
    <3>3. /\ UNCHANGED <<client, delay, ptr, pushed, resends>>
          /\ \/ p.size <= p.len /\ frag' = 0 /\ Replies(reply', "I", p.conn, "success")
             \/ p.size > p.len /\ frag' = p.len /\ Replies(reply', "I", p.conn, "continue")
      <4>1. /\ Replies(Info(p.conn, p.nr, INC(p.ns), "success"), "I", p.conn, "success")
            /\ Replies(Info(p.conn, p.nr, INC(p.ns), "continue"), "I", p.conn, "continue")
        BY RepliesAre
      <4>2. ~(p.size <= p.len) => p.size > p.len
        BY <1>2
      <4> QED
        BY <3>1, <4>1, <4>2 DEF NoClientStep, Says
    <3>2. Received(p)
      BY <2>1, <2>2, <3>1, <3>3 DEF Received, Replies
    <3> QED
      BY <1>1, <1>2, <2>1, <3>1, <3>2
  <2>3. CASE p.snep # "put"
    <3>4. nr' # 16 /\ nr' \in 0 .. 16
      BY <1>2, <2>1, <2>3
    <3>1. /\ ClientStep(p, IF p.snep = "continue" THEN "NdefMsgSending" ELSE client)
          /\ UNCHANGED <<size, frag, handed>>
      BY <1>5, <2>3 DEF FirstFrame
    <3>2. CASE p.snep = "continue"
      <4>1. Spoken(p, "NdefMsgSending") /\ "NdefMsgSending" \in States
        BY <2>1, <3>1, <3>2, <3>4 DEF Spoken, States
      <4> QED
        BY <1>1, <1>2, <2>1, <3>1, <3>4, <4>1
    <3>3. CASE p.snep # "continue"
      <4>1. Spoken(p, client)
        BY <2>1, <2>3, <3>1, <3>3, <3>4 DEF Spoken
      <4> QED
        BY <1>1, <1>2, <2>1, <3>1, <3>4, <4>1
    <3> QED
      BY <3>2, <3>3
  <2> QED
    BY <2>2, <2>3
<1>6. CASE LaterFrame(p)
  <2>1. /\ p.pdu = "I" /\ frag # 0 /\ nr' = p.ns + 1 /\ ns' = p.nr /\ size' = size /\ handed' = Handed(p)
        /\ \/ /\ frag + Payload(p) = size /\ frag' = 0
              /\ NoClientStep(Info(p.conn, p.nr, INC(p.ns), "success"))
           \/ /\ frag' = frag + Payload(p)
              /\ NoClientStep([Pdu("RR", p.conn) EXCEPT !.nr = INC(p.ns)])
    BY <1>6 DEF LaterFrame, Counted
  <2>2. Payload(p) \in Nat /\ handed' \in Nat
    BY <1>1, <1>2, <2>1 DEF Payload, Handed
  <2>3. frag' \in Nat
    BY <1>1, <2>1, <2>2
  <2>5. /\ UNCHANGED <<client, delay, ptr, pushed, resends>>
        /\ \/ frag + Payload(p) = size /\ frag' = 0 /\ Replies(reply', "I", p.conn, "success")
           \/ frag' = frag + Payload(p) /\ Replies(reply', "RR", p.conn, "none")
    BY <2>1, RepliesAre DEF NoClientStep, Says
  <2>4. Received(p)
    BY <2>1, <2>5 DEF Received, Replies
  <2> QED
    BY <1>1, <1>2, <2>1, <2>2, <2>3, <2>4
<1>7. CASE Connected(p)
  <2>1. Spoken(p, "SnepClientConnected") /\ "SnepClientConnected" \in States
    BY <1>7 DEF Connected, Spoken, States
  <2> QED
    BY <1>1, <1>7, <2>1 DEF Connected
<1>8. CASE Acknowledged(p)
  <2>1. p.pdu = "RR" /\ ns' = p.nr /\ nr' = nr /\ UNCHANGED <<size, frag, handed>>
    BY <1>8 DEF Acknowledged
  <2>2. CASE frag # 0
    <3>1. Answered(p)
      BY <1>3, <1>8, <2>1, <2>2 DEF Acknowledged, Answered, NoClientStep, Says
    <3> QED
      BY <1>1, <1>2, <2>1, <3>1
  <2>3. CASE frag = 0
    <3>1. Spoken(p, client)
      BY <1>8, <2>1, <2>3 DEF Acknowledged, Spoken
    <3> QED
      BY <1>1, <1>2, <2>1, <3>1
  <2> QED
    BY <2>2, <2>3
<1>9. CASE OtherPdu(p)
  <2>1. Spoken(p, client)
    BY <1>9 DEF OtherPdu, Spoken
  <2> QED
    BY <1>1, <1>9, <2>1 DEF OtherPdu
<1> QED
  BY <1>4, <1>5, <1>6, <1>7, <1>8, <1>9 DEF P2P_NDEF_Next

-----------------------------------------------------------------------------
(* The three parts of the invariant, after a PDU that was taken.             *)
Grasps ==
  ~crossed' =>
    /\ frag' # 0 => pull /\ handed' = frag'
    /\ reply'.snep = "success" => handed' = size'
    /\ Linked =>
         /\ cl.at = "more" => frag' = cl.sent /\ frag' # 0
         /\ cl.at \in {"off", "asked", "on", "done"} => frag' = 0
         /\ Tells(reply)'

Pushes ==
  Linked /\ ~late /\ ~crossed' =>
    /\ client' \in {"Idle", "Initial", "DelayingPush"} => sv = IdleSv
    /\ reply'.pdu = "CONNECT" => sv.nr = 0 /\ client' = "SnepClientConnecting"
    /\ ~IsPush(reply') =>
         /\ sv.at = "continue" => client' = "NdefMsgWaitingForContinue"
         /\ sv.at = "success" => client' \in Ends
         /\ client' \in {"NdefMsgWaitingForContinue", "NdefMsgSending"} => ptr' = sv.bytes
         /\ client' \notin Sends
    /\ IsPush(reply') => Expected(reply)'
    /\ client' \in Sends => nr' # 16

Reports ==
  Linked /\ ~spoiled /\ pushed' /\ resends' = 0 =>
    /\ client' = "NdefMsgSent"
    /\ IsPush(reply') => reply'.from + reply'.len = own /\ reply'.size = own
    /\ ~IsPush(reply') =>
         sv.bytes = own /\ sv.at \notin {"asked", "continue"} /\ reply'.pdu # "CONNECT"

LEMMA TakenKeeps ==
  ASSUME IInv, P2pData, Results, nr' \in 0 .. 16, ns' \in 0 .. 15,
         size' \in Nat, frag' \in Nat, handed' \in Nat,
         serving = epoch => Grasps /\ Pushes /\ Reports
  PROVE  IInv'
PROOF
<1>1. /\ pc = "p2p" /\ pc' = "send" /\ out # <<>> /\ out' = Tail(out) /\ Head(out).kind = "data"
      /\ crossed' = (crossed \/ Crosses(Head(out).pdu))
      /\ UNCHANGED <<restart, msgVars, serving, st, lost, role, epoch, peerVars>>
  BY DEF P2pData, At, Take, P2P_NDEF_Next, loopVars
<1>2. UNCHANGED <<own, pull, turn, cl, sv, late, spoiled, restart, serving, st, lost, role, epoch>>
  BY <1>1 DEF msgVars, peerVars
<1>3. TypeOK /\ Typed /\ Queue /\ Ordered(out) /\ Turns
  BY DEF IInv, Queue
<1>4. crossed' \in BOOLEAN /\ (crossed => crossed')
  BY <1>1, <1>3 DEF Crosses, Typed
<1>5. TypeOK'
  BY <1>1, <1>2, <1>3 DEF TypeOK, Results, States
<1>6. Typed'
  BY <1>2, <1>3, <1>4 DEF Typed, Results
<1>7. Less(out, out')
  BY <1>1, <1>3, TakeLess
<1>8. turn' => turn /\ Linked'
  BY <1>2, <1>3 DEF Queue, Linked
<1>9. Queue'
  BY <1>2, <1>3, <1>7, <1>8, QueueLess
<1>10. PushInSequence'
  BY <1>2, <1>4 DEF IInv, PushInSequence
<1>11. CASE serving # epoch
  <2>1. ~Serves'
    BY <1>2, <1>11 DEF Serves
  <2> QED
    BY <1>5, <1>6, <1>9, <1>10, <2>1, NotServing DEF IInv
<1>12. CASE serving = epoch
  <2>1. Serves /\ Serves' /\ Acts(out) = {}
    BY <1>1, <1>2, <1>3, <1>12, ServedAlone DEF Serves
  <2>2. Head(out).pdu \in Flight(out) /\ Flight(out') = {}
    BY <1>1, <1>3, <2>1, TailQueue
  <2>3. ~turn /\ ~turn'
    BY <1>2, <1>3, <2>2 DEF Queue
  <2>4. Linked' = Linked
    BY <1>2 DEF Linked
  <2>5. Pushing' = IsPush(reply')
    BY <1>1 DEF Pushing, IsPush
  <2>6. Turns'
    BY <1>1, <2>2, <2>3 DEF Turns
  <2>7. Reception'
    <3> SUFFICES ASSUME ~crossed'
                 PROVE  /\ frag' # 0 => pull' /\ handed' = frag'
                        /\ reply'.snep = "success" => handed' = size'
                        /\ Linked => Agrees(cl, {})' /\ Tells(reply)'
      BY <1>1, <2>2, <2>4 DEF Reception
    <3>1. Linked /\ cl.at \notin {"off", "asked"} => pull
      BY <1>4, <2>1 DEF IInv, Reception, Agrees
    <3>2. /\ frag' # 0 => pull /\ handed' = frag'
          /\ reply'.snep = "success" => handed' = size'
          /\ Linked =>
               /\ cl.at = "more" => frag' = cl.sent /\ frag' # 0
               /\ cl.at \in {"off", "asked", "on", "done"} => frag' = 0
               /\ Tells(reply)'
      BY <1>12 DEF Grasps
    <3>3. Linked => Agrees(cl, {})'
      BY <1>2, <3>1, <3>2 DEF Agrees
    <3> QED
      BY <1>2, <3>2, <3>3
  <2>8. Push'
    <3> SUFFICES ASSUME Linked, ~late, ~crossed'
                 PROVE  ServerAgrees'
      BY <1>2, <2>4 DEF Push
    <3>1. /\ client' \in {"Idle", "Initial", "DelayingPush"} => sv = IdleSv
          /\ reply'.pdu = "CONNECT" => sv.nr = 0 /\ client' = "SnepClientConnecting"
          /\ ~IsPush(reply') =>
               /\ sv.at = "continue" => client' = "NdefMsgWaitingForContinue"
               /\ sv.at = "success" => client' \in Ends
               /\ client' \in {"NdefMsgWaitingForContinue", "NdefMsgSending"} => ptr' = sv.bytes
               /\ client' \notin Sends
          /\ IsPush(reply') => Expected(reply)'
          /\ client' \in Sends => nr' # 16
      BY <1>12 DEF Pushes
    <3>2. sv.at = "asked" => sv.nr = 0
      BY <1>4, <2>1 DEF IInv, Push, ServerAgrees
    <3>3. IsPush(reply)' = IsPush(reply')
      BY DEF IsPush
    <3> QED
      BY <1>1, <1>2, <2>2, <2>3, <2>5, <3>1, <3>2, <3>3 DEF ServerAgrees
  <2>9. Told'
    BY <1>1, <1>2, <1>12, <2>2, <2>4, <2>5 DEF Told, Reports
  <2> QED
    BY <1>5, <1>6, <1>9, <1>10, <2>6, <2>7, <2>8, <2>9 DEF IInv
<1> QED
  BY <1>11, <1>12

(* What is known of a PDU that the host takes.                               *)
LEMMA TakenOf ==
  ASSUME IInv, P2pData, serving = epoch, NEW p, p = Head(out).pdu
  PROVE  /\ p \in Pdus /\ FromPeer(p)
         /\ ~crossed =>
              /\ frag # 0 => pull /\ handed = frag
              /\ p.pdu = "I" /\ p.conn = "server" => Follows(p)
              /\ Linked =>
                   /\ cl.at = "more" => frag = cl.sent /\ frag # 0
                   /\ cl.at \in {"asked", "on", "done"} => frag = 0
                   /\ cl.at = "off" => frag = 0 \/ p.pdu = "DISC"
                   /\ p.pdu = "I" /\ p.conn = "server" => cl.at = "waiting" /\ cl.sent = p.from + p.len
         /\ Linked /\ ~late /\ ~crossed =>
              /\ client \in {"Idle", "Initial", "DelayingPush"} => sv = IdleSv
              /\ sv.at = "continue" => client = "NdefMsgWaitingForContinue"
              /\ sv.at = "success" => client \in Ends
              /\ client \in {"NdefMsgWaitingForContinue", "NdefMsgSending"} => ptr = sv.bytes
              /\ Calls(p) /\ (client \in Sends => nr # 16)
         /\ Linked /\ ~spoiled /\ pushed /\ resends = 0 =>
              /\ client = "NdefMsgSent" /\ sv.bytes = own /\ sv.at \notin {"asked", "continue"}
              /\ p.pdu # "CC" /\ p.snep # "continue"
PROOF
<1>1. pc = "p2p" /\ out # <<>> /\ Head(out).kind = "data"
  BY DEF P2pData, At, Take
<1>2. TypeOK /\ Queue /\ Ordered(out)
  BY DEF IInv, Queue
<1>3. Serves /\ Acts(out) = {}
  BY <1>1, <1>2, ServedAlone DEF Serves
<1>4. p \in Flight(out) /\ p \in Pdus
  BY <1>1, <1>2, <1>3, TailQueue DEF Packets
<1>5. FromPeer(p)
  BY <1>2, <1>4 DEF Queue
<1>6. \A f \in Flight(out) : f = p
  BY <1>2, <1>4, FlightOf DEF Ordered
<1>7. ~Pushing
  BY <1>1 DEF Pushing
<1>8. ~crossed =>
        /\ frag # 0 => pull /\ handed = frag
        /\ p.pdu = "I" /\ p.conn = "server" => Follows(p)
  BY <1>3, <1>4 DEF IInv, Reception
<1>9. ~crossed /\ Linked =>
        /\ cl.at = "more" => frag = cl.sent /\ frag # 0
        /\ cl.at \in {"asked", "on", "done"} => frag = 0
        /\ cl.at = "off" => frag = 0 \/ p.pdu = "DISC"
        /\ p.pdu = "I" /\ p.conn = "server" => cl.at = "waiting" /\ cl.sent = p.from + p.len
  BY <1>3, <1>4, <1>6 DEF IInv, Reception, Agrees
<1>10. Linked /\ ~late /\ ~crossed =>
         /\ client \in {"Idle", "Initial", "DelayingPush"} => sv = IdleSv
         /\ sv.at = "continue" => client = "NdefMsgWaitingForContinue"
         /\ sv.at = "success" => client \in Ends
         /\ client \in {"NdefMsgWaitingForContinue", "NdefMsgSending"} => ptr = sv.bytes
         /\ Calls(p) /\ (client \in Sends => nr # 16)
  BY <1>3, <1>4, <1>7 DEF IInv, Push, ServerAgrees
<1>11. Linked /\ ~spoiled /\ pushed /\ resends = 0 =>
         /\ client = "NdefMsgSent" /\ sv.bytes = own /\ sv.at \notin {"asked", "continue"}
         /\ p.pdu # "CC" /\ p.snep # "continue"
  BY <1>3, <1>4, <1>7 DEF IInv, Told
<1> QED
  BY <1>4, <1>5, <1>8, <1>9, <1>10, <1>11

LEMMA StaysOf ==
  ASSUME P2pData, NEW p, p = Head(out).pdu
  PROVE  /\ UNCHANGED <<own, pull, cl, sv>> /\ P2P_NDEF_Next(p)
         /\ ~crossed' => ~crossed /\ ~Crosses(p)
  BY DEF P2pData, loopVars, msgVars, peerVars, P2P_NDEF_Next

LEMMA ReceivedSound ==
  ASSUME IInv, P2pData, serving = epoch, NEW p, p = Head(out).pdu, Received(p)
  PROVE  Grasps /\ Pushes /\ Reports
PROOF
<1>1. /\ UNCHANGED <<own, pull, cl, sv>>
      /\ ~crossed' => ~crossed /\ ~Crosses(p)
  BY StaysOf
<1>2. p \in Pdus /\ FromPeer(p)
  BY TakenOf
<1>3. /\ p.pdu = "I" /\ UNCHANGED <<client, ptr, pushed, resends>> /\ reply'.conn = p.conn
      /\ reply'.pdu \in {"I", "RR"} /\ reply'.snep \in {"success", "continue", "none"}
  BY DEF Received
<1>4. ~IsPush(reply')
  BY <1>3 DEF IsPush
<1>5. frag \in Nat /\ p.from \in Nat /\ p.len \in Nat /\ p.size \in Nat
  BY <1>2 DEF IInv, TypeOK, Pdus
<1>6. ~crossed' => p.conn = "server"
  <2>1. p.conn # "server" => p.conn = "client" /\ p.snep \notin {"put", "more"}
    BY <1>2, <1>3 DEF FromPeer
  <2>2. p.conn # "server" => frag # 0
    BY <2>1 DEF Received
  <2> QED
    BY <1>1, <1>3, <2>1, <2>2 DEF Crosses
<1>7. Grasps
  <2> SUFFICES ASSUME ~crossed'
               PROVE  /\ frag' # 0 => pull /\ handed' = frag'
                      /\ reply'.snep = "success" => handed' = size'
                      /\ Linked =>
                           /\ cl.at = "more" => frag' = cl.sent /\ frag' # 0
                           /\ cl.at \in {"off", "asked", "on", "done"} => frag' = 0
                           /\ Tells(reply)'
    BY DEF Grasps
  <2>1. ~crossed /\ p.conn = "server" /\ Follows(p) /\ (frag # 0 => pull /\ handed = frag)
    BY <1>1, <1>3, <1>6, TakenOf
  <2>2. Linked => cl.at = "waiting" /\ cl.sent = p.from + p.len
    BY <1>3, <2>1, TakenOf
  <2>3. pull
    BY <2>1 DEF Follows
  <2>4. CASE frag = 0
    <3>1. /\ p.from = 0 /\ p.len # 0 /\ p.len <= p.size /\ p.snep = "put"
      BY <2>1, <2>4 DEF Follows
    <3>2. /\ size' = p.size /\ handed' = p.len
          /\ \/ p.size <= p.len /\ frag' = 0 /\ reply'.pdu = "I" /\ reply'.snep = "success"
             \/ p.size > p.len /\ frag' = p.len /\ reply'.pdu = "I" /\ reply'.snep = "continue"
      BY <2>3, <2>4 DEF Received
    <3>3. Linked => cl.sent = p.len
      BY <1>5, <2>2, <3>1
    <3>4. reply'.snep = "success" => handed' = size'
      BY <1>5, <3>1, <3>2
    <3>5. Linked => Tells(reply)'
      BY <1>1, <1>3, <2>1, <2>3, <3>1, <3>2, <3>3 DEF Tells
    <3> QED
      BY <2>2, <2>3, <3>1, <3>2, <3>4, <3>5
  <2>5. CASE frag # 0
    <3>1. p.snep = "more" /\ p.from = frag
      BY <2>1, <2>5 DEF Follows
    <3>2. handed' = frag + p.len /\ Payload(p) = p.len /\ size' = size
      BY <2>1, <2>3, <2>5, <3>1 DEF Received, Handed, Payload
    <3>3. \/ frag + p.len = size /\ frag' = 0 /\ reply'.pdu = "I" /\ reply'.snep = "success"
          \/ frag' = frag + p.len /\ reply'.pdu = "RR" /\ reply'.snep = "none"
      BY <2>5, <3>2 DEF Received
    <3>4. PICK n \in Nat : n = frag + p.len /\ n # 0
      BY <1>5, <2>5
    <3>5. Linked => cl.sent = n
      BY <2>2, <3>1, <3>4
    <3>6. Linked => Tells(reply)'
      BY <1>1, <1>3, <2>1, <2>3, <3>3, <3>4, <3>5 DEF Tells
    <3> QED
      BY <2>2, <2>3, <3>2, <3>3, <3>4, <3>6
  <2> QED
    BY <2>4, <2>5
<1>8. Pushes
  <2> SUFFICES ASSUME Linked, ~late, ~crossed'
               PROVE  /\ client' \in {"Idle", "Initial", "DelayingPush"} => sv = IdleSv
                      /\ reply'.pdu # "CONNECT"
                      /\ sv.at = "continue" => client' = "NdefMsgWaitingForContinue"
                      /\ sv.at = "success" => client' \in Ends
                      /\ client' \in {"NdefMsgWaitingForContinue", "NdefMsgSending"} => ptr' = sv.bytes
                      /\ client' \notin Sends
    BY <1>4 DEF Pushes
  <2>1. ~crossed /\ p.conn = "server"
    BY <1>1, <1>6
  <2>2. Calls(p) /\ ~Acks(p)
    BY <2>1, TakenOf DEF Acks
  <2>3. client \notin Sends
    BY <2>2 DEF Calls
  <2> QED
    BY <1>3, <2>1, <2>3, TakenOf
<1>9. Reports
  BY <1>3, <1>4, TakenOf DEF Reports
<1> QED
  BY <1>7, <1>8, <1>9

(* After any other PDU, the reception stands where it stood.                 *)
LEMMA StandsStill ==
  ASSUME IInv, P2pData, serving = epoch, NEW p, p = Head(out).pdu, UNCHANGED <<size, frag, handed>>,
         reply'.snep # "success", ~crossed' /\ Linked => Tells(reply)'
  PROVE  Grasps
PROOF
<1>1. ~crossed' => ~crossed /\ ~Crosses(p)
  BY StaysOf
<1>2. ~crossed' => (p.pdu = "DISC" => frag = 0)
  BY <1>1 DEF Crosses
<1> QED
  BY <1>1, <1>2, TakenOf DEF Grasps

LEMMA AnsweredSound ==
  ASSUME IInv, P2pData, serving = epoch, NEW p, p = Head(out).pdu, Answered(p)
  PROVE  Grasps /\ Pushes /\ Reports
PROOF
<1>1. /\ UNCHANGED <<own, pull, cl, sv>>
      /\ ~crossed' => ~crossed /\ ~Crosses(p)
  BY StaysOf
<1>2. /\ UNCHANGED <<size, frag, handed, client, ptr, pushed, resends>>
      /\ reply'.pdu \in {"CC", "DM", "SYMM"} /\ reply'.snep = "none" /\ (reply'.pdu = "CC" => pull)
      /\ p.pdu = "CONNECT" \/ (p.pdu = "RR" /\ frag # 0)
  BY DEF Answered
<1>3. ~IsPush(reply')
  BY <1>2 DEF IsPush
<1>4. Tells(reply)'
  BY <1>1, <1>2 DEF Tells
<1>5. Grasps
  BY <1>2, <1>4, StandsStill
<1>6. Pushes
  <2> SUFFICES ASSUME Linked, ~late, ~crossed'
               PROVE  /\ client' \in {"Idle", "Initial", "DelayingPush"} => sv = IdleSv
                      /\ reply'.pdu # "CONNECT"
                      /\ sv.at = "continue" => client' = "NdefMsgWaitingForContinue"
                      /\ sv.at = "success" => client' \in Ends
                      /\ client' \in {"NdefMsgWaitingForContinue", "NdefMsgSending"} => ptr' = sv.bytes
                      /\ client' \notin Sends
    BY <1>3 DEF Pushes
  <2>1. ~crossed /\ ~Acks(p)
    BY <1>1, <1>2 DEF Crosses, Acks
  <2>2. client \notin Sends
    BY <2>1, TakenOf DEF Calls
  <2> QED
    BY <1>2, <2>1, <2>2, TakenOf
<1>7. Reports
  BY <1>2, <1>3, TakenOf DEF Reports
<1> QED
  BY <1>5, <1>6, <1>7

LEMMA QuietSound ==
  ASSUME IInv, P2pData, serving = epoch, NEW p, p = Head(out).pdu,
         NEW s \in States \ Sends, Spoken(p, s), Quiet(s)
  PROVE  Grasps /\ Pushes /\ Reports
PROOF
<1>1. /\ UNCHANGED <<own, pull, cl, sv>>
      /\ ~crossed' => ~crossed /\ ~Crosses(p)
  BY StaysOf
<1>2. UNCHANGED <<size, frag, handed>> /\ s = client
  BY DEF Spoken, Sends
<1>3. /\ UNCHANGED <<ptr, pushed, resends>>
      /\ reply'.pdu \in {"SYMM", "CONNECT", "empty"} /\ reply'.snep = "none"
      /\ client \in Waiting => client' \in {"DelayingPush", "SnepClientConnecting"}
      /\ client \notin Waiting => client' = client /\ reply'.pdu = "SYMM"
      /\ reply'.pdu = "CONNECT" => client' = "SnepClientConnecting"
  BY <1>2 DEF Quiet
<1>4. ~IsPush(reply')
  BY <1>3 DEF IsPush
<1>5. Tells(reply)'
  BY <1>1, <1>3 DEF Tells
<1>6. Grasps
  BY <1>2, <1>3, <1>5, StandsStill
<1>7. Pushes
  <2> SUFFICES ASSUME Linked, ~late, ~crossed'
               PROVE  /\ client' \in {"Idle", "Initial", "DelayingPush"} => sv = IdleSv
                      /\ reply'.pdu = "CONNECT" => sv.nr = 0 /\ client' = "SnepClientConnecting"
                      /\ sv.at = "continue" => client' = "NdefMsgWaitingForContinue"
                      /\ sv.at = "success" => client' \in Ends
                      /\ client' \in {"NdefMsgWaitingForContinue", "NdefMsgSending"} => ptr' = sv.bytes
                      /\ client' \notin Sends
    BY <1>4 DEF Pushes
  <2>1. ~crossed
    BY <1>1
  <2>2. CASE client \in Waiting
    <3>1. sv = IdleSv
      BY <2>1, <2>2, TakenOf DEF Waiting
    <3>2. sv.at = "off" /\ sv.nr = 0
      BY <3>1 DEF IdleSv
    <3> QED
      BY <1>3, <2>2, <3>1, <3>2 DEF Sends
  <2>3. CASE client \notin Waiting
    BY <1>2, <1>3, <2>1, <2>3, TakenOf
  <2> QED
    BY <2>2, <2>3
<1>8. Reports
  BY <1>3, <1>4, TakenOf DEF Reports, Waiting
<1> QED
  BY <1>6, <1>7, <1>8

LEMMA FramesSound ==
  ASSUME IInv, P2pData, serving = epoch, NEW p, p = Head(out).pdu,
         NEW s \in Sends, Spoken(p, s), Frames(p, s), Results
  PROVE  Grasps /\ Pushes /\ Reports
PROOF
<1>1. /\ UNCHANGED <<own, pull, cl, sv>>
      /\ ~crossed' => ~crossed /\ ~Crosses(p)
  BY StaysOf
<1>2. p \in Pdus /\ FromPeer(p)
  BY TakenOf
<1>3. UNCHANGED <<size, frag, handed>>
  BY DEF Spoken
<1>4. /\ reply'.pdu = "I" /\ reply'.conn = p.conn /\ reply'.size = own
      /\ nr' # 16 => reply'.ns = ns'
      /\ reply'.snep = (IF s = "SnepClientConnected" THEN "put" ELSE "more")
      /\ reply'.from = (IF s = "SnepClientConnected" THEN 0 ELSE ptr)
  BY DEF Frames
<1>5. IsPush(reply')
  BY <1>4 DEF IsPush
<1>6. Tells(reply)'
  BY <1>1, <1>4 DEF Tells
<1>7. Grasps
  BY <1>3, <1>4, <1>6, StandsStill
<1>8. Reports
  <2> SUFFICES ASSUME Linked, ~spoiled, pushed', resends' = 0
               PROVE  client' = "NdefMsgSent" /\ reply'.from + reply'.len = own
    BY <1>4, <1>5 DEF Reports
  <2>1. resends \in Nat /\ resends + 1 # 0
    BY DEF IInv, Typed
  <2>2. CASE pushed /\ resends = 0
    <3>1. client = "NdefMsgSent" /\ p.pdu # "CC" /\ p.snep # "continue"
      BY <2>2, TakenOf
    <3> QED
      BY <3>1 DEF Spoken, Sends
  <2>3. CASE ~(pushed /\ resends = 0)
    <3>1. ~UNCHANGED <<pushed, resends>>
      BY <2>3
    <3> QED
      BY <2>1, <3>1 DEF Frames
  <2> QED
    BY <2>2, <2>3
<1>9. Pushes
  <2> SUFFICES ASSUME Linked, ~late, ~crossed'
               PROVE  /\ client' \notin {"Idle", "Initial", "DelayingPush"}
                      /\ Expected(reply)' /\ nr' # 16
    BY <1>4, <1>5 DEF Pushes
  <2>1. ~crossed /\ Calls(p) /\ (client \in Sends => nr # 16)
    BY <1>1, TakenOf
  <2>9. nr' # 16
    BY <2>1 DEF Spoken
  <2>2. p.conn = "client"
    <3>1. CASE s = client
      <4>1. Acks(p)
        BY <2>1, <3>1 DEF Calls
      <4> QED
        BY <4>1 DEF Acks
    <3>2. CASE s # client
      BY <1>2, <3>2 DEF Spoken, FromPeer
    <3> QED
      BY <3>1, <3>2
  <2>3. ns' = sv.nr
    <3>1. CASE p.pdu \in {"I", "RR"}
      BY <2>1, <2>2, <3>1 DEF Spoken, Calls, Acks
    <3>2. CASE p.pdu = "CC"
      BY <2>1, <3>2 DEF Spoken, Calls
    <3>3. CASE p.pdu \notin {"I", "RR", "CC"}
      <4>1. s = client /\ ~Acks(p)
        BY <3>3 DEF Spoken, Acks
      <4> QED
        BY <2>1, <4>1 DEF Calls
    <3> QED
      BY <3>1, <3>2, <3>3
  <2>4. s # "SnepClientConnected" => ptr = sv.bytes
    <3> SUFFICES ASSUME s = "NdefMsgSending"
                 PROVE  client \in {"NdefMsgWaitingForContinue", "NdefMsgSending"}
      BY <2>1, TakenOf DEF Sends
    <3> QED
      BY <2>1 DEF Spoken, Calls
  <2>5. Accepts(reply)'
    BY <1>1, <1>4, <2>2, <2>3, <2>4, <2>9 DEF Accepts
  <2>6. client' \notin {"Idle", "Initial", "DelayingPush"}
    BY DEF Frames
  <2>7. \/ reply'.from + reply'.len = own /\ client' \in Ends
        \/ /\ reply'.from + reply'.len # own /\ reply'.from + reply'.len = ptr'
           /\ client' = IF reply'.snep = "put" THEN "NdefMsgWaitingForContinue" ELSE "NdefMsgSending"
    BY <1>4 DEF Frames, Ends
  <2>8. Expected(reply)'
    BY <1>1, <1>4, <2>5, <2>7 DEF Expected
  <2> QED
    BY <2>6, <2>8, <2>9
<1> QED
  BY <1>7, <1>8, <1>9

LEMMA DataKeeps ==
  ASSUME IInv, P2pData
  PROVE  IInv'
PROOF
<1>1. out # <<>> /\ TypeOK /\ Typed /\ Ordered(out)
  BY DEF IInv, Queue, P2pData, Take
<1>2. PICK p \in Pdus : p = Head(out).pdu
  BY <1>1, TailQueue DEF Packets
<1>3. P2P_NDEF_Next(p)
  BY <1>2, StaysOf
<1>4. /\ Received(p) \/ Answered(p) \/ \E s \in States : Spoken(p, s)
      /\ nr' \in 0 .. 16 /\ ns' \in 0 .. 15
      /\ size' \in Nat /\ frag' \in Nat /\ handed' \in Nat
  BY <1>1, <1>3, NextOf
<1>5. client \in States /\ delay \in 1 .. 2 /\ ptr \in Nat /\ ptr <= own /\ resends \in Nat /\ pushed \in BOOLEAN
  BY <1>1 DEF TypeOK, Typed, States
<1>6. CASE Received(p)
  <2>1. Results
    BY <1>5, <1>6 DEF Received, Results
  <2>2. serving = epoch => Grasps /\ Pushes /\ Reports
    BY <1>2, <1>6, ReceivedSound
  <2> QED
    BY <1>4, <2>1, <2>2, TakenKeeps
<1>7. CASE Answered(p)
  <2>1. Results
    BY <1>5, <1>7 DEF Answered, Results
  <2>2. serving = epoch => Grasps /\ Pushes /\ Reports
    BY <1>2, <1>7, AnsweredSound
  <2> QED
    BY <1>4, <2>1, <2>2, TakenKeeps
<1>8. ASSUME NEW s \in States, Spoken(p, s)
      PROVE  IInv'
  <2>1. ClientStep(p, s)
    BY <1>8 DEF Spoken
  <2>2. CASE s \in Sends
    <3>1. Frames(p, s) /\ Results
      BY <1>1, <1>4, <2>1, <2>2, FramesOf
    <3>2. serving = epoch => Grasps /\ Pushes /\ Reports
      BY <1>2, <1>8, <2>2, <3>1, FramesSound
    <3> QED
      BY <1>4, <3>1, <3>2, TakenKeeps
  <2>3. CASE s \notin Sends
    <3>1. Quiet(s) /\ Results
      BY <1>1, <1>8, <2>1, <2>3, QuietOf
    <3>2. serving = epoch => Grasps /\ Pushes /\ Reports
      BY <1>2, <1>8, <2>3, <3>1, QuietSound
    <3> QED
      BY <1>4, <3>1, <3>2, TakenKeeps
  <2> QED
    BY <2>2, <2>3
<1> QED
  BY <1>4, <1>6, <1>7, <1>8

-----------------------------------------------------------------------------
(* Theorems *)

LEMMA InitInv == Init => IInv
PROOF
<1> SUFFICES ASSUME Init
             PROVE  IInv
  OBVIOUS
<1>1. out = <<>> /\ pc = "wait" /\ ~turn /\ ~spoiled
  BY DEF Init
<1>2. own \in Nat /\ MaxActivations \in Nat
  <2>1. PICK t \in Traffic : own = t[1]
    BY DEF Init
  <2>2. t \in Nat \X (Nat \ {0})
    BY P2PAssumption
  <2> QED
    BY <2>1, <2>2, P2PAssumption
<1>3. TypeOK
  <2>1. /\ delay \in 1 .. 2 /\ {size, frag, ptr, handed} \subseteq Nat /\ nr \in 0 .. 15 /\ ns \in 0 .. 15
        /\ serving \in 0 .. epoch /\ epoch \in 0 .. MaxActivations /\ ptr <= own
    BY <1>2 DEF Init
  <2>2. /\ client = "Initial" /\ pc = "wait" /\ restart \in BOOLEAN
        /\ st = "discovering" /\ role = "polled"
    BY DEF Init
  <2> QED
    BY <2>1, <2>2 DEF TypeOK
<1>4. Typed
  <2>1. IdleCl \in Clients
    BY DEF IdleCl, Clients
  <2>2. IdleSv \in Servers
    BY DEF IdleSv, Servers
  <2> QED
    BY <1>2, <2>1, <2>2, NoneIs DEF Init, Typed
<1>5. Len(out) = 0 /\ out \in Seq(Packets)
  BY <1>1
<1>6. Acts(out) = {} /\ Current(out) = {} /\ Flight(out) = {}
  BY <1>5 DEF Acts, Current, Flight
<1>7. Ordered(out)
  BY <1>5, <1>6 DEF Ordered
<1>8. Queue
  BY <1>1, <1>6, <1>7 DEF Queue
<1>9. Turns /\ Reception /\ Push /\ Told
  BY <1>1 DEF Turns, Reception, Push, Told, Serves
<1>10. PushInSequence
  BY <1>1 DEF PushInSequence
<1> QED
  BY <1>3, <1>4, <1>8, <1>9, <1>10 DEF IInv

LEMMA UnchangedKeeps ==
  ASSUME IInv, UNCHANGED vars
  PROVE  IInv'
PROOF
<1>1. UNCHANGED <<own, pull, client, delay, size, frag, ptr, nr, ns, pc, restart, reply, st, out, lost,
                  role, epoch, turn, cl, sv, serving, handed, resends, pushed, late, crossed, spoiled>>
  BY DEF vars, msgVars, ndefVars, hostVars, ctlVars, peerVars, histVars
<1>2. TypeOK' /\ Typed' /\ PushInSequence'
  BY <1>1 DEF IInv, TypeOK, Typed, PushInSequence
<1>3. Less(out, out') /\ (turn' => turn /\ Linked')
  BY <1>1, LessSame DEF IInv, Queue, Linked
<1>4. Queue'
  BY <1>1, <1>3, QueueLess DEF IInv
<1>5. (Serves' <=> Serves) /\ (Linked' <=> Linked) /\ Pushing' = Pushing
  BY <1>1 DEF Serves, Linked, Pushing, IsPush
<1>6. Turns'
  BY <1>1, <1>5 DEF IInv, Turns
<1>7. Reception'
  BY <1>1, <1>5 DEF IInv, Reception, Follows, Agrees, Tells
<1>8. ServerAgrees => ServerAgrees'
  BY <1>1, <1>5 DEF ServerAgrees, Calls, Expected, Accepts, IsPush
<1>9. Push'
  BY <1>1, <1>5, <1>8 DEF IInv, Push
<1>10. Told'
  BY <1>1, <1>5 DEF IInv, Told
<1> QED
  BY <1>2, <1>4, <1>6, <1>7, <1>9, <1>10 DEF IInv

LEMMA NextInv == IInv /\ [Next]_vars => IInv'
PROOF
<1>1. ASSUME IInv, Host
      PROVE  IInv'
  <2>1. WaitSilent => UNCHANGED vars
    BY DEF WaitSilent
  <2> QED
    BY <1>1, <2>1, ActivatedKeeps, UnchangedKeeps, GreetKeeps, DataKeeps, ReplyKeeps, LeavingKeeps, OverKeeps
       DEF Host
<1> QED
  BY <1>1, SpeaksKeeps, LeavesKeeps, ArrivesKeeps, UnchangedKeeps DEF Next

LEMMA Invariant == Spec => []IInv
  BY InitInv, NextInv, PTL DEF Spec

(* A put is answered with a success (P2P_NDEF_Next) only when the pull       *)
(* callback has been given every byte of the message in the order in which   *)
(* the peer sent them, unless the reception was broken off or mixed with a   *)
(* push.                                                                     *)
THEOREM PutCorrect == Spec => []SuccessMeansAll
PROOF
<1>1. IInv => SuccessMeansAll
  BY DEF IInv, Reception, SuccessMeansAll, Serves
<1> QED
  BY <1>1, Invariant, PTL

(* The frames that the client of P2P_NDEF_Next sends are those that the      *)
(* peer's server expects, in number and position, if it acknowledges each in *)
(* time; and the push callback is called for a message that the peer, if it  *)
(* stays, has whole.                                                         *)
THEOREM PushSoundCorrect == Spec => []PushSound
PROOF
<1>1. IInv => PushTellsAll
  BY DEF IInv, Told, PushTellsAll, Serves, Pushing
<1>2. IInv => PushSound
  BY <1>1 DEF IInv, PushSound
<1> QED
  BY <1>2, Invariant, PTL
=============================================================================
