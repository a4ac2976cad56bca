---------------------------- MODULE CardEmuProofs ----------------------------
(***************************************************************************)
(* Theorems of CardEmu, for every message, all reads and writes of the      *)
(* reader and any number of activations: what is read is the file, the      *)
(* application is told when all of it has been read, and the file is used   *)
(* only by an activation that selected it.                                  *)
(*                                                                          *)
(* The array of the emulation and the ideal file are related cell by cell;  *)
(* that commands are those of the activation under way follows from the     *)
(* order of activations, commands and deactivations in the queue.           *)
(***************************************************************************)
EXTENDS CardEmu, TLAPS

Kinds == {"credits", "error", "stopped", "started", "activated", "deactivated", "data"}

Packets == [kind : Kinds, cmd : Commands \cup {NoCmd}, epoch : 0 .. MaxActivations]

QueueOK(q, n) ==
  /\ q \in Seq(Packets) /\ n \in Nat
  /\ \A i \in 1 .. Len(q) : q[i].epoch <= n /\ (q[i].kind = "data" => q[i].cmd \in Commands)

Queued == QueueOK(out, epoch) /\ answer \in Packets

History ==
  /\ upto \in Nat
  /\ jumped \in BOOLEAN /\ pushed \in BOOLEAN /\ settled \in BOOLEAN
  /\ alien \in BOOLEAN /\ missed \in BOOLEAN

(* The array holds the bytes of the file that have been written since the    *)
(* message was set, the message all the others; the size is the one that     *)
(* was stored last.                                                          *)
Mirror ==
  /\ own => since = {} /\ \A i \in 1 .. Len(Message) : file[i + 1] = Message[i]
  /\ ~own => since # {} /\ \A i \in since : i >= 2 => written[i - 2] = file[i]
  /\ settled => size = FileSize

(* A response under way to a read.                                           *)
Answered ==
  pc = "reply" /\ reply # <<>> /\ Complete =>
    LET c == answer.cmd
    IN  c.off + c.len <= FileSize + 2 => \A k \in 1 .. c.len : reply[k] = file[c.off + k - 1]

(* From the head of a queue to its first deactivation all commands are of    *)
(* activation e, and if there is none, e is the activation n under way; s is *)
(* the controller's state.                                                   *)
Leads(q, e, s, n) ==
  /\ \A i \in 1 .. Len(q) :
       q[i].kind = "data" /\ (\A k \in 1 .. i : q[k].kind # "deactivated") => q[i].epoch = e
  /\ (\A k \in 1 .. Len(q) : q[k].kind # "deactivated") => s = "active" /\ n = e

(* The same from any command in the queue on.                                *)
Runs(q, s, n) ==
  /\ \A i, j \in 1 .. Len(q) :
       /\ i < j /\ q[i].kind = "data" /\ q[j].kind = "data"
       /\ \A k \in i .. j : q[k].kind # "deactivated"
       => q[j].epoch = q[i].epoch
  /\ \A i \in 1 .. Len(q) :
       q[i].kind = "data" /\ (\A k \in i .. Len(q) : q[k].kind # "deactivated") =>
         s = "active" /\ n = q[i].epoch

(* The file is selected by the activation whose commands come next.          *)
InOrder ==
  /\ Runs(out, st, epoch)
  /\ pc \in {"card", "reply"} /\ state = "NDEF_Selected" /\ ~missed => Leads(out, selected, st, epoch)

IInv ==
  /\ TypeOK /\ Queued /\ History
  /\ Mirror /\ Answered /\ PushTells
  /\ InOrder /\ SelectedFirst

-----------------------------------------------------------------------------
(* Queues *)

LEMMA TailOf ==
  ASSUME NEW S, NEW q \in Seq(S), q # <<>>
  PROVE  /\ Head(q) = q[1] /\ Head(q) \in S
         /\ Tail(q) \in Seq(S)
         /\ Len(q) \in Nat \ {0}
         /\ Len(Tail(q)) = Len(q) - 1
         /\ \A i \in 1 .. Len(Tail(q)) : Tail(q)[i] = q[i + 1]
  OBVIOUS

LEMMA AppendOf ==
  ASSUME NEW S, NEW q \in Seq(S), NEW x \in S
  PROVE  /\ Append(q, x) \in Seq(S)
         /\ Append(q, x) # <<>>
         /\ Len(q) \in Nat
         /\ Len(Append(q, x)) = Len(q) + 1
         /\ \A i \in 1 .. Len(q) : Append(q, x)[i] = q[i]
         /\ Append(q, x)[Len(q) + 1] = x
  OBVIOUS

LEMMA RunsTail ==
  ASSUME NEW q \in Seq(Packets), q # <<>>, NEW s, NEW n, Runs(q, s, n)
  PROVE  Runs(Tail(q), s, n)
PROOF
<1> DEFINE t == Tail(q)
<1>1. Len(q) \in Nat \ {0} /\ Len(t) = Len(q) - 1 /\ \A i \in 1 .. Len(t) : t[i] = q[i + 1]
  BY TailOf
<1> HIDE DEF t
<1>2. ASSUME NEW i \in 1 .. Len(t), NEW j \in 1 .. Len(t), i < j, t[i].kind = "data", t[j].kind = "data",
             \A k \in i .. j : t[k].kind # "deactivated"
      PROVE  t[j].epoch = t[i].epoch
  <2>1. i + 1 \in 1 .. Len(q) /\ j + 1 \in 1 .. Len(q) /\ i + 1 < j + 1
    BY <1>1, <1>2
  <2>2. t[i] = q[i + 1] /\ t[j] = q[j + 1]
    BY <1>1
  <2>3. ASSUME NEW k \in i + 1 .. j + 1
        PROVE  q[k].kind # "deactivated"
    <3>1. k - 1 \in i .. j /\ k - 1 \in 1 .. Len(t) /\ (k - 1) + 1 = k
      BY <1>1
    <3>2. t[k - 1] = q[(k - 1) + 1]
      BY <1>1, <3>1
    <3> QED
      BY <1>2, <3>1, <3>2
  <2> QED
    BY <1>2, <2>1, <2>2, <2>3 DEF Runs
<1>3. ASSUME NEW i \in 1 .. Len(t), t[i].kind = "data", \A k \in i .. Len(t) : t[k].kind # "deactivated"
      PROVE  s = "active" /\ n = t[i].epoch
  <2>1. i + 1 \in 1 .. Len(q) /\ t[i] = q[i + 1]
    BY <1>1
  <2>2. ASSUME NEW k \in i + 1 .. Len(q)
        PROVE  q[k].kind # "deactivated"
    <3>1. k - 1 \in i .. Len(t) /\ k - 1 \in 1 .. Len(t) /\ (k - 1) + 1 = k
      BY <1>1
    <3>2. t[k - 1] = q[(k - 1) + 1]
      BY <1>1, <3>1
    <3> QED
      BY <1>3, <3>1, <3>2
  <2> QED
    BY <1>3, <2>1, <2>2 DEF Runs
<1> QED
  BY <1>2, <1>3 DEF Runs, t

LEMMA LeadsTail ==
  ASSUME NEW q \in Seq(Packets), q # <<>>, NEW e, NEW s, NEW n, Leads(q, e, s, n),
         Head(q).kind # "deactivated"
  PROVE  Leads(Tail(q), e, s, n)
PROOF
<1> DEFINE t == Tail(q)
<1>1. /\ Len(q) \in Nat \ {0} /\ Len(t) = Len(q) - 1 /\ \A i \in 1 .. Len(t) : t[i] = q[i + 1]
      /\ q[1].kind # "deactivated"
  BY TailOf
<1> HIDE DEF t
<1>2. ASSUME NEW m \in 0 .. Len(t), \A k \in 1 .. m : t[k].kind # "deactivated", NEW k \in 1 .. m + 1
      PROVE  q[k].kind # "deactivated"
  <2>1. CASE k = 1
    BY <2>1, <1>1
  <2>2. CASE k # 1
    <3>1. k - 1 \in 1 .. m /\ k - 1 \in 1 .. Len(t) /\ (k - 1) + 1 = k
      BY <2>2, <1>1
    <3>2. t[k - 1] = q[(k - 1) + 1]
      BY <1>1, <3>1
    <3> QED
      BY <1>2, <3>1, <3>2
  <2> QED
    BY <2>1, <2>2
<1>3. ASSUME NEW i \in 1 .. Len(t), t[i].kind = "data", \A k \in 1 .. i : t[k].kind # "deactivated"
      PROVE  t[i].epoch = e
  <2>1. i + 1 \in 1 .. Len(q) /\ t[i] = q[i + 1] /\ i \in 0 .. Len(t)
    BY <1>1
  <2>2. \A k \in 1 .. i + 1 : q[k].kind # "deactivated"
    BY <1>2, <1>3, <2>1
  <2> QED
    BY <1>3, <2>1, <2>2 DEF Leads
<1>4. ASSUME \A k \in 1 .. Len(t) : t[k].kind # "deactivated"
      PROVE  s = "active" /\ n = e
  <2>1. Len(t) \in 0 .. Len(t) /\ Len(t) + 1 = Len(q)
    BY <1>1
  <2>2. \A k \in 1 .. Len(q) : q[k].kind # "deactivated"
    BY <1>2, <1>4, <2>1
  <2> QED
    BY <2>2 DEF Leads
<1> QED
  BY <1>3, <1>4 DEF Leads, t

(* What follows a command is led by its activation.                          *)
LEMMA LeadsFirst ==
  ASSUME NEW q \in Seq(Packets), q # <<>>, NEW s, NEW n, Runs(q, s, n), Head(q).kind = "data"
  PROVE  Leads(q, Head(q).epoch, s, n)
PROOF
<1>1. Len(q) \in Nat \ {0} /\ Head(q) = q[1] /\ 1 \in 1 .. Len(q)
  BY TailOf
<1>2. ASSUME NEW i \in 1 .. Len(q), q[i].kind = "data", \A k \in 1 .. i : q[k].kind # "deactivated"
      PROVE  q[i].epoch = q[1].epoch
  <2>1. CASE i = 1
    BY <2>1
  <2>2. CASE i # 1
    <3>1. 1 < i
      BY <2>2, <1>1
    <3> QED
      BY <3>1, <1>1, <1>2 DEF Runs
  <2> QED
    BY <2>1, <2>2
<1>3. ASSUME \A k \in 1 .. Len(q) : q[k].kind # "deactivated"
      PROVE  s = "active" /\ n = q[1].epoch
  BY <1>1, <1>3 DEF Runs
<1> QED
  BY <1>1, <1>2, <1>3 DEF Leads

(* The packets that come while the controller goes from state s and          *)
(* activation n to state s2 and activation n2.                               *)
Fits(x, s, n, s2, n2) ==
  \/ x.kind = "deactivated"
  \/ x.kind = "data" /\ x.epoch = n /\ s = "active" /\ s2 = s /\ n2 = n
  \/ x.kind \notin {"data", "deactivated"} /\ (s # "active" \/ (s2 = s /\ n2 = n))

LEMMA RunsAppend ==
  ASSUME NEW q \in Seq(Packets), NEW x \in Packets, NEW s, NEW n, NEW s2, NEW n2,
         Fits(x, s, n, s2, n2), Runs(q, s, n)
  PROVE  Runs(Append(q, x), s2, n2)
PROOF
<1> DEFINE t == Append(q, x)
<1>1. /\ Len(q) \in Nat /\ Len(t) = Len(q) + 1 /\ \A i \in 1 .. Len(q) : t[i] = q[i]
      /\ t[Len(q) + 1] = x
  BY AppendOf
<1> HIDE DEF t
<1>2. \A i \in 1 .. Len(t) : i \in 1 .. Len(q) \/ i = Len(q) + 1
  BY <1>1
<1>3. ASSUME NEW i \in 1 .. Len(q), q[i].kind = "data", \A k \in i .. Len(q) : t[k].kind # "deactivated"
      PROVE  s = "active" /\ n = q[i].epoch
  <2>1. \A k \in i .. Len(q) : k \in 1 .. Len(q)
    BY <1>1
  <2>2. \A k \in i .. Len(q) : q[k].kind # "deactivated"
    BY <1>1, <1>3, <2>1
  <2> QED
    BY <1>3, <2>2 DEF Runs
<1>4. ASSUME NEW i \in 1 .. Len(t), NEW j \in 1 .. Len(t), i < j, t[i].kind = "data", t[j].kind = "data",
             \A k \in i .. j : t[k].kind # "deactivated"
      PROVE  t[j].epoch = t[i].epoch
  <2>1. i \in 1 .. Len(q) /\ t[i] = q[i]
    BY <1>1, <1>4
  <2>2. CASE j \in 1 .. Len(q)
    <3>1. t[j] = q[j] /\ \A k \in i .. j : k \in 1 .. Len(q)
      BY <2>2, <1>1
    <3>2. \A k \in i .. j : q[k].kind # "deactivated"
      BY <3>1, <1>1, <1>4
    <3> QED
      BY <2>1, <2>2, <3>1, <3>2, <1>4 DEF Runs
  <2>3. CASE j = Len(q) + 1
    <3>1. \A k \in i .. Len(q) : k \in i .. j
      BY <2>3, <1>1
    <3>2. s = "active" /\ n = q[i].epoch
      BY <2>1, <3>1, <1>3, <1>4
    <3>3. x.epoch = n
      BY <2>3, <1>1, <1>4 DEF Fits
    <3> QED
      BY <2>1, <2>3, <3>2, <3>3, <1>1
  <2> QED
    BY <1>2, <2>2, <2>3
<1>5. ASSUME NEW i \in 1 .. Len(t), t[i].kind = "data", \A k \in i .. Len(t) : t[k].kind # "deactivated"
      PROVE  s2 = "active" /\ n2 = t[i].epoch
  <2>1. x.kind # "deactivated"
    <3>1. Len(t) \in i .. Len(t)
      BY <1>1
    <3> QED
      BY <3>1, <1>1, <1>5
  <2>2. CASE i \in 1 .. Len(q)
    <3>1. \A k \in i .. Len(q) : k \in i .. Len(t)
      BY <1>1
    <3>2. s = "active" /\ n = q[i].epoch /\ t[i] = q[i]
      BY <2>2, <3>1, <1>1, <1>3, <1>5
    <3> QED
      BY <2>1, <3>2 DEF Fits
  <2>3. CASE i = Len(q) + 1
    BY <2>3, <1>1, <1>5 DEF Fits
  <2> QED
    BY <1>2, <2>2, <2>3
<1> QED
  BY <1>4, <1>5 DEF Runs, t

LEMMA LeadsAppend ==
  ASSUME NEW q \in Seq(Packets), NEW x \in Packets, NEW e, NEW s, NEW n, NEW s2, NEW n2,
         Fits(x, s, n, s2, n2), Leads(q, e, s, n)
  PROVE  Leads(Append(q, x), e, s2, n2)
PROOF
<1> DEFINE t == Append(q, x)
<1>1. /\ Len(q) \in Nat /\ Len(t) = Len(q) + 1 /\ \A i \in 1 .. Len(q) : t[i] = q[i]
      /\ t[Len(q) + 1] = x
  BY AppendOf
<1> HIDE DEF t
<1>2. ASSUME NEW m \in 1 .. Len(t), \A k \in 1 .. m : t[k].kind # "deactivated", NEW k \in 1 .. m, k <= Len(q)
      PROVE  q[k].kind # "deactivated"
  BY <1>1, <1>2
<1>3. ASSUME \A k \in 1 .. Len(t) : t[k].kind # "deactivated"
      PROVE  s = "active" /\ n = e /\ x.kind # "deactivated"
  <2>1. \A k \in 1 .. Len(q) : k \in 1 .. Len(t)
    BY <1>1
  <2>2. \A k \in 1 .. Len(q) : q[k].kind # "deactivated"
    BY <1>1, <1>3, <2>1
  <2>3. Len(q) + 1 \in 1 .. Len(t)
    BY <1>1
  <2> QED
    BY <1>1, <1>3, <2>2, <2>3 DEF Leads
<1>4. ASSUME NEW i \in 1 .. Len(t), t[i].kind = "data", \A k \in 1 .. i : t[k].kind # "deactivated"
      PROVE  t[i].epoch = e
  <2>1. CASE i <= Len(q)
    <3>1. t[i] = q[i] /\ i \in 1 .. Len(q)
      BY <2>1, <1>1
    <3>2. \A k \in 1 .. i : q[k].kind # "deactivated"
      BY <2>1, <1>1, <1>2, <1>4
    <3> QED
      BY <3>1, <3>2, <1>4 DEF Leads
  <2>2. CASE i = Len(q) + 1
    BY <2>2, <1>1, <1>3, <1>4 DEF Fits
  <2> QED
    BY <2>1, <2>2, <1>1
<1>5. ASSUME \A k \in 1 .. Len(t) : t[k].kind # "deactivated"
      PROVE  s2 = "active" /\ n2 = e
  BY <1>3, <1>5 DEF Fits
<1> QED
  BY <1>4, <1>5 DEF Leads, t

LEMMA QueueAppend ==
  ASSUME NEW q, NEW x \in Packets, NEW s, NEW n, NEW s2, NEW n2 \in Nat,
         n <= n2, x.epoch <= n2, QueueOK(q, n), Runs(q, s, n), Fits(x, s, n, s2, n2), x.kind = "data" => x.cmd \in Commands
  PROVE  /\ QueueOK(Append(q, x), n2) /\ Append(q, x) # <<>> /\ Runs(Append(q, x), s2, n2)
         /\ \A e : Leads(q, e, s, n) => Leads(Append(q, x), e, s2, n2)
PROOF
<1>1. q \in Seq(Packets)
  BY DEF QueueOK
<1>2. QueueOK(Append(q, x), n2)
  <2> DEFINE t == Append(q, x)
  <2>1. /\ Len(q) \in Nat /\ Len(t) = Len(q) + 1 /\ \A i \in 1 .. Len(q) : t[i] = q[i]
        /\ t[Len(q) + 1] = x /\ t \in Seq(Packets)
    BY <1>1, AppendOf
  <2> HIDE DEF t
  <2>2. ASSUME NEW i \in 1 .. Len(t), t[i].kind = "data"
        PROVE  t[i].cmd \in Commands
    <3>1. i \in 1 .. Len(q) \/ i = Len(q) + 1
      BY <2>1
    <3> QED
      BY <3>1, <2>1, <2>2 DEF QueueOK
  <2>3. ASSUME NEW i \in 1 .. Len(t)
        PROVE  t[i].epoch <= n2
    <3>1. CASE i \in 1 .. Len(q)
      <4>1. t[i] = q[i] /\ q[i].epoch <= n /\ q[i] \in Packets /\ n \in Nat
        BY <2>1, <3>1, <1>1 DEF QueueOK
      <4>2. q[i].epoch \in Nat
        BY <4>1, CardAssumption DEF Packets
      <4> QED
        BY <4>1, <4>2
    <3>2. CASE i = Len(q) + 1
      BY <3>2, <2>1
    <3> QED
      BY <3>1, <3>2, <2>1
  <2> QED
    BY <2>1, <2>2, <2>3 DEF QueueOK, t
<1>3. Append(q, x) # <<>>
  BY <1>1, AppendOf
<1> QED
  BY <1>1, <1>2, <1>3, RunsAppend, LeadsAppend

LEMMA QueueTail ==
  ASSUME NEW q, q # <<>>, NEW s, NEW n, QueueOK(q, n), Runs(q, s, n)
  PROVE  /\ QueueOK(Tail(q), n) /\ Runs(Tail(q), s, n)
         /\ Head(q) \in Packets /\ Head(q).epoch <= n
         /\ Head(q).kind = "data" => Head(q).cmd \in Commands /\ Leads(Tail(q), Head(q).epoch, s, n)
         /\ \A e : Leads(q, e, s, n) /\ Head(q).kind # "deactivated" => Leads(Tail(q), e, s, n)
PROOF
<1>1. q \in Seq(Packets)
  BY DEF QueueOK
<1>2. /\ Head(q) \in Packets /\ Head(q) = q[1] /\ 1 \in 1 .. Len(q)
      /\ Tail(q) \in Seq(Packets) /\ Len(Tail(q)) = Len(q) - 1 /\ Len(q) \in Nat
      /\ \A i \in 1 .. Len(Tail(q)) : Tail(q)[i] = q[i + 1]
  BY <1>1, TailOf
<1>3. QueueOK(Tail(q), n)
  <2> DEFINE t == Tail(q)
  <2> HIDE DEF t
  <2>1. t \in Seq(Packets) /\ Len(t) = Len(q) - 1 /\ \A i \in 1 .. Len(t) : t[i] = q[i + 1]
    BY <1>2 DEF t
  <2>2. ASSUME NEW i \in 1 .. Len(t), t[i].kind = "data"
        PROVE  t[i].cmd \in Commands
    <3>1. i + 1 \in 1 .. Len(q) /\ q[i + 1].kind = "data"
      BY <1>2, <2>1, <2>2
    <3>2. q[i + 1].cmd \in Commands
      BY <3>1 DEF QueueOK
    <3> QED
      BY <2>1, <3>2
  <2>3. ASSUME NEW i \in 1 .. Len(t)
        PROVE  t[i].epoch <= n
    <3>1. i + 1 \in 1 .. Len(q)
      BY <1>2, <2>1
    <3>2. q[i + 1].epoch <= n
      BY <3>1 DEF QueueOK
    <3> QED
      BY <2>1, <3>2
  <2>4. n \in Nat
    BY DEF QueueOK
  <2> QED
    BY <2>1, <2>2, <2>3, <2>4 DEF QueueOK, t
<1>4. Runs(Tail(q), s, n)
  BY <1>1, RunsTail
<1>5. \A e : Leads(q, e, s, n) /\ Head(q).kind # "deactivated" => Leads(Tail(q), e, s, n)
  BY <1>1, LeadsTail
<1>6. ASSUME Head(q).kind = "data"
      PROVE  Head(q).cmd \in Commands /\ Leads(Tail(q), Head(q).epoch, s, n)
  <2>1. Leads(q, Head(q).epoch, s, n)
    BY <1>1, <1>6, LeadsFirst
  <2>2. Head(q).cmd \in Commands
    BY <1>2, <1>6 DEF QueueOK
  <2> QED
    BY <1>5, <1>6, <2>1, <2>2
<1>7. Head(q).epoch <= n
  BY <1>2 DEF QueueOK
<1> QED
  BY <1>2, <1>3, <1>4, <1>5, <1>6, <1>7

LEMMA ReplyAppend ==
  ASSUME NEW q, NEW x \in Packets, NEW s, NEW s2, NEW n \in Nat, x.epoch = 0, x.kind # "data",
         QueueOK(q, n), Runs(q, s, n), Fits(x, s, n, s2, n)
  PROVE  /\ QueueOK(Append(q, x), n) /\ Append(q, x) # <<>> /\ Runs(Append(q, x), s2, n)
         /\ \A e : Leads(q, e, s, n) => Leads(Append(q, x), e, s2, n)
PROOF
<1>1. n <= n /\ x.epoch <= n
  OBVIOUS
<1> QED
  BY <1>1, QueueAppend

-----------------------------------------------------------------------------
(* Packets and commands *)

LEMMA PacketTypes ==
  ASSUME TypeOK
  PROVE  /\ \A k \in Kinds : Packet(k) \in Packets /\ Packet(k).kind = k /\ Packet(k).epoch = 0
         /\ \A c \in Commands : /\ Data(c) \in Packets /\ Data(c).kind = "data"
                                /\ Data(c).cmd = c /\ Data(c).epoch = epoch
PROOF
<1>1. epoch \in 0 .. MaxActivations /\ MaxActivations \in Nat
  BY CardAssumption DEF TypeOK
<1>2. 0 \in 0 .. MaxActivations /\ "data" \in Kinds
  BY <1>1 DEF Kinds
<1> QED
  BY <1>1, <1>2 DEF Packets, Packet, Data

LEMMA CommandIs ==
  ASSUME NEW c \in Commands
  PROVE  /\ c.ins = "read" => c.off \in Nat /\ c.len \in 1 .. 255
         /\ c.ins = "write" => /\ c.off \in Nat /\ c.data \in Seq(Byte) /\ c.data # <<>>
                               /\ c.off + Len(c.data) <= MaxFile
PROOF
<1>1. \/ \E i \in {"app", "cc", "ndef", "other"} : c = [ins |-> i]
      \/ \E r \in Reads : c = [ins |-> "read", off |-> r.off, len |-> r.len]
      \/ \E w \in Writes : c = [ins |-> "write", off |-> w.off, data |-> w.data]
  BY DEF Commands
<1>2. ASSUME NEW i \in {"app", "cc", "ndef", "other"}, c = [ins |-> i]
      PROVE  c.ins \notin {"read", "write"}
  BY <1>2
<1>3. ASSUME NEW r \in Reads, c = [ins |-> "read", off |-> r.off, len |-> r.len]
      PROVE  c.ins = "read" /\ c.off \in Nat /\ c.len \in 1 .. 255
  <2>1. r \in [off : Nat, len : 1 .. 255]
    BY CardAssumption
  <2> QED
    BY <1>3, <2>1
<1>4. ASSUME NEW w \in Writes, c = [ins |-> "write", off |-> w.off, data |-> w.data]
      PROVE  /\ c.ins = "write" /\ c.off \in Nat /\ c.data \in Seq(Byte) /\ c.data # <<>>
             /\ c.off + Len(c.data) <= MaxFile
  BY <1>4, CardAssumption
<1> QED
  BY <1>1, <1>2, <1>3, <1>4

(* What the controller sends in reply to a command of the host.              *)
LEMMA ControllerReplies ==
  ASSUME TypeOK, QueueOK(out, epoch), Runs(out, st, epoch), NEW r \in {OnStop, OnStart, OnData}
  PROVE  /\ QueueOK(out \o r.out, epoch) /\ Runs(out \o r.out, r.st, epoch)
         /\ out \o r.out # <<>>
         /\ r.st \in {"idle", "discovering", "active"} /\ r.asking \in BOOLEAN
         /\ \A e : Leads(out, e, st, epoch) => Leads(out \o r.out, e, r.st, epoch)
PROOF
<1>1. st \in {"idle", "discovering", "active"} /\ asking \in BOOLEAN /\ out \in Seq(Packets) /\ epoch \in Nat
  BY DEF TypeOK, QueueOK
<1>2. \A k \in Kinds : Packet(k) \in Packets /\ Packet(k).kind = k /\ Packet(k).epoch = 0
  BY PacketTypes
<1>3. \A x \in Packets : out \o <<x>> = Append(out, x)
  BY <1>1
<1>4. \A x, y \in Packets : out \o <<x, y>> = Append(Append(out, x), y)
  BY <1>1
<1>5. CASE r = OnStart
  <2> DEFINE x == Packet("started")
  <2>1. r.out = <<x>> /\ r.st = (IF st = "idle" THEN "discovering" ELSE st) /\ r.asking = asking
    BY <1>5 DEF OnStart
  <2>2. x \in Packets /\ x.kind = "started" /\ x.epoch = 0
    BY <1>2 DEF Kinds
  <2> HIDE DEF x
  <2>3. Fits(x, st, epoch, r.st, epoch)
    BY <2>1, <2>2, <1>1 DEF Fits
  <2>4. out \o r.out = Append(out, x)
    BY <2>1, <2>2, <1>3
  <2> QED
    BY <2>1, <2>2, <2>3, <2>4, <1>1, ReplyAppend
<1>6. CASE r = OnData
  <2> DEFINE x == IF st = "active" THEN Packet("credits") ELSE Packet("error")
  <2>1. r.out = <<x>> /\ r.st = st /\ r.asking = FALSE
    BY <1>6 DEF OnData
  <2>2. x \in Packets /\ x.kind \in {"credits", "error"} /\ x.epoch = 0
    BY <1>2 DEF Kinds
  <2> HIDE DEF x
  <2>3. Fits(x, st, epoch, r.st, epoch)
    BY <2>1, <2>2, <1>1 DEF Fits
  <2>4. out \o r.out = Append(out, x)
    BY <2>1, <2>2, <1>3
  <2> QED
    BY <2>1, <2>2, <2>3, <2>4, <1>1, ReplyAppend
<1>7. CASE r = OnStop
  <2> DEFINE x == Packet("stopped")
             y == Packet("deactivated")
             t == Append(out, x)
  <2>1. /\ r.st = "idle" /\ r.asking = FALSE
        /\ st = "active" => r.out = <<x, y>>
        /\ st # "active" => r.out = <<x>>
    BY <1>7 DEF OnStop
  <2>2. x \in Packets /\ x.kind = "stopped" /\ y \in Packets /\ y.kind = "deactivated" /\ x.epoch = 0 /\ y.epoch = 0
    BY <1>2 DEF Kinds
  <2> HIDE DEF x, y
  <2>3. CASE st # "active"
    <3>1. Fits(x, st, epoch, "idle", epoch)
      BY <2>2, <2>3 DEF Fits
    <3>2. out \o r.out = Append(out, x)
      BY <2>1, <2>2, <2>3, <1>3
    <3> QED
      BY <2>1, <2>2, <3>1, <3>2, <1>1, ReplyAppend
  <2>4. CASE st = "active"
    <3>1. Fits(x, st, epoch, st, epoch) /\ Fits(y, st, epoch, "idle", epoch)
      BY <2>2 DEF Fits
    <3>2. out \o r.out = Append(t, y)
      BY <2>1, <2>2, <2>4, <1>4
    <3> HIDE DEF t
    <3>3. QueueOK(t, epoch) /\ Runs(t, st, epoch) /\ \A e : Leads(out, e, st, epoch) => Leads(t, e, st, epoch)
      BY <2>2, <3>1, <1>1, ReplyAppend DEF t
    <3>4. /\ QueueOK(Append(t, y), epoch) /\ Append(t, y) # <<>> /\ Runs(Append(t, y), "idle", epoch)
          /\ \A e : Leads(t, e, st, epoch) => Leads(Append(t, y), e, "idle", epoch)
      BY <2>2, <3>1, <3>3, <1>1, ReplyAppend
    <3> QED
      BY <2>1, <3>2, <3>3, <3>4
  <2> QED
    BY <2>3, <2>4
<1> QED
  BY <1>5, <1>6, <1>7

-----------------------------------------------------------------------------
(* The steps that leave the emulation alone *)

LEMMA FileKept ==
  ASSUME Mirror, Answered, PushTells, UNCHANGED <<written, own, size, fileVars, readVars>>,
         pc' = "reply" => pc = "reply" /\ UNCHANGED <<reply, answer>>
  PROVE  Mirror' /\ Answered' /\ PushTells'
PROOF
<1>1. UNCHANGED <<written, own, size, file, settled, since, upto, jumped, pushed>>
  BY DEF fileVars, readVars
<1>2. FileSize' = FileSize /\ (Complete' <=> Complete)
  BY <1>1 DEF FileSize, Complete
<1>3. Mirror'
  BY <1>1, <1>2 DEF Mirror
<1>4. Answered'
  BY <1>1, <1>2 DEF Answered
<1>5. PushTells'
  BY <1>1 DEF PushTells
<1> QED
  BY <1>3, <1>4, <1>5

LEMMA ReaderKeeps ==
  ASSUME IInv, Reader
  PROVE  IInv'
PROOF
<1>1. UNCHANGED <<emuVars, hostVars, fileVars, readVars, selected, alien, missed>>
  BY DEF Reader, ReaderArrives, ReaderAsks, ReaderLeaves, envVars
<1>2. PICK x \in Packets :
        /\ out' = Append(out, x) /\ Fits(x, st, epoch, st', epoch')
        /\ x.kind = "data" => x.cmd \in Commands
        /\ x.epoch <= epoch' /\ epoch <= epoch' /\ epoch' \in Nat
  <2>0. epoch \in Nat /\ epoch' \in {epoch, epoch + 1} /\ epoch <= epoch' /\ epoch' \in Nat
    <3>1. epoch \in Nat
      BY DEF IInv, TypeOK
    <3>2. epoch' \in {epoch, epoch + 1}
      BY DEF Reader, ReaderArrives, ReaderAsks, ReaderLeaves
    <3> QED
      BY <3>1, <3>2
  <2>1. \A k \in Kinds : Packet(k) \in Packets /\ Packet(k).kind = k /\ Packet(k).epoch = 0
    BY PacketTypes DEF IInv
  <2>2. CASE ReaderArrives
    BY <2>0, <2>1, <2>2 DEF ReaderArrives, Fits, Kinds
  <2>3. CASE ReaderLeaves
    BY <2>0, <2>1, <2>3 DEF ReaderLeaves, Fits, Kinds
  <2>4. ASSUME NEW c \in Commands, ReaderAsks(c)
        PROVE  /\ Data(c) \in Packets /\ out' = Append(out, Data(c))
               /\ Fits(Data(c), st, epoch, st', epoch') /\ Data(c).cmd \in Commands
               /\ Data(c).epoch <= epoch'
    <3>1. /\ Data(c) \in Packets /\ Data(c).kind = "data"
          /\ Data(c).cmd = c /\ Data(c).epoch = epoch
      BY PacketTypes DEF IInv
    <3> QED
      BY <2>0, <3>1, <2>4 DEF ReaderAsks, Fits
  <2> QED
    BY <2>0, <2>2, <2>3, <2>4 DEF Reader
<1>3. /\ QueueOK(out', epoch') /\ Runs(out', st', epoch')
      /\ \A e : Leads(out, e, st, epoch) => Leads(out', e, st', epoch')
  BY <1>2, QueueAppend DEF IInv, Queued, InOrder
<1>4. TypeOK'
  <2>1. /\ st' \in {"idle", "discovering", "active"} /\ asking' \in BOOLEAN
        /\ epoch' \in 0 .. MaxActivations /\ selected \in 0 .. epoch'
    <3>1. /\ MaxActivations \in Nat /\ epoch \in 0 .. MaxActivations /\ selected \in 0 .. epoch
          /\ st \in {"idle", "discovering", "active"} /\ asking \in BOOLEAN
      BY CardAssumption DEF IInv, TypeOK
    <3>2. epoch + 1 \in Nat /\ selected \in 0 .. epoch + 1 /\ (epoch < MaxActivations => epoch + 1 \in 0 .. MaxActivations)
      BY <3>1
    <3>3. epoch' \in {epoch, epoch + 1} /\ (epoch' # epoch => epoch < MaxActivations)
      BY DEF Reader, ReaderArrives, ReaderAsks, ReaderLeaves
    <3>4. st' \in {st, "active", "discovering"} /\ asking' \in BOOLEAN
      BY <3>1 DEF Reader, ReaderArrives, ReaderAsks, ReaderLeaves
    <3> QED
      BY <3>1, <3>2, <3>3, <3>4
  <2> QED
    BY <1>1, <2>1 DEF IInv, TypeOK, emuVars, hostVars, fileVars
<1>5. Queued' /\ History'
  BY <1>1, <1>3 DEF IInv, Queued, History, hostVars, readVars, fileVars
<1>6. Mirror' /\ Answered' /\ PushTells'
  BY <1>1, FileKept DEF IInv, emuVars, hostVars
<1>7. InOrder' /\ SelectedFirst'
  BY <1>1, <1>3 DEF IInv, InOrder, SelectedFirst, emuVars, hostVars
<1> QED
  BY <1>4, <1>5, <1>6, <1>7 DEF IInv

(* A step of the loop that takes a packet and leaves the emulation alone.    *)
LEMMA TakeKeeps ==
  ASSUME IInv, NEW q, QueueOK(q, epoch), Runs(q, st', epoch), Take(q),
         \A e : Leads(out, e, st, epoch) => Leads(q, e, st', epoch),
         UNCHANGED <<written, own, size, fileVars, readVars, selected, alien, epoch>>,
         state' \in {state, "Ready"}, reply' \in {reply, <<>>}, first' \in BOOLEAN,
         st' \in {"idle", "discovering", "active"}, asking' \in BOOLEAN,
         pc' \in {"wait", "card", "stop", "drain", "restart"},
         missed' \in BOOLEAN, missed => missed',
         pc' = "card" => \/ state' = "Ready"
                         \/ pc \in {"card", "reply"} /\ (answer'.kind # "deactivated" \/ missed')
  PROVE  IInv'
PROOF
<1>1. /\ QueueOK(out', epoch') /\ Runs(out', st', epoch) /\ answer' = Head(q) /\ answer' \in Packets
      /\ \A e : Leads(q, e, st', epoch) /\ answer'.kind # "deactivated" => Leads(out', e, st', epoch)
  BY QueueTail DEF Take
<1>2. TypeOK'
  <2>1. state' \in {"Ready", "NDEF_Application_Selected", "CC_Selected", "NDEF_Selected"}
    BY DEF IInv, TypeOK
  <2>2. reply' \in Seq(Byte \cup {Foreign})
    <3>1. reply \in Seq(Byte \cup {Foreign})
      BY DEF IInv, TypeOK
    <3>2. <<>> \in Seq(Byte \cup {Foreign})
      OBVIOUS
    <3> QED
      BY <3>1, <3>2
  <2>3. /\ written' \in [0 .. MaxFile - 3 -> Byte] /\ own' \in BOOLEAN /\ size' \in Nat /\ size' < 65536
        /\ own' => size' = Len(Message)
        /\ file' \in [0 .. MaxFile - 1 -> Byte] /\ since' \subseteq DOMAIN file'
    BY DEF IInv, TypeOK, fileVars
  <2>4. epoch' \in 0 .. MaxActivations /\ selected' \in 0 .. epoch'
    BY DEF IInv, TypeOK
  <2>5. pc' \in {"wait", "card", "reply", "stop", "drain", "restart"}
    OBVIOUS
  <2> QED
    BY <2>1, <2>2, <2>3, <2>4, <2>5 DEF TypeOK
<1>3. Queued' /\ History'
  BY <1>1 DEF IInv, Queued, History, readVars, fileVars
<1>4. Mirror' /\ Answered' /\ PushTells'
  BY FileKept DEF IInv
<1>5. InOrder'
  <2>1. ASSUME pc' \in {"card", "reply"}, state' = "NDEF_Selected", ~missed'
        PROVE  Leads(out', selected', st', epoch')
    <3>1. pc \in {"card", "reply"} /\ state = "NDEF_Selected" /\ ~missed /\ answer'.kind # "deactivated"
      BY <2>1
    <3>2. Leads(out, selected, st, epoch)
      BY <3>1 DEF IInv, InOrder
    <3> QED
      BY <3>1, <3>2, <1>1
  <2> QED
    BY <1>1, <2>1 DEF InOrder
<1>6. SelectedFirst'
  BY DEF IInv, SelectedFirst
<1> QED
  BY <1>2, <1>3, <1>4, <1>5, <1>6 DEF IInv

(* A step without a packet.                                                  *)
LEMMA SilentKeeps ==
  ASSUME IInv, UNCHANGED <<first, answer, reply, ctlVars, emuVars, fileVars, readVars, selected, alien, missed>>,
         pc' \in {"wait", "drain", "restart"}
  PROVE  IInv'
PROOF
<1>1. TypeOK' /\ Queued' /\ History'
  BY DEF IInv, TypeOK, Queued, History, emuVars, ctlVars, fileVars, readVars
<1>2. Mirror' /\ Answered' /\ PushTells'
  BY FileKept DEF IInv, emuVars
<1>3. InOrder' /\ SelectedFirst'
  BY DEF IInv, InOrder, SelectedFirst, ctlVars
<1> QED
  BY <1>1, <1>2, <1>3 DEF IInv

LEMMA HostKeeps ==
  ASSUME IInv,
         \/ Activated \/ CardDeactivated \/ CardOther \/ CardSilent
         \/ SendReply \/ Stop \/ Drain \/ Restart
  PROVE  IInv'
PROOF
<1>1. /\ QueueOK(out, epoch) /\ Runs(out, st, epoch) /\ TypeOK
      /\ st \in {"idle", "discovering", "active"} /\ asking \in BOOLEAN /\ first \in BOOLEAN
      /\ missed \in BOOLEAN
  BY DEF IInv, Queued, InOrder, TypeOK, History
<1>2. CASE Activated
  BY <1>1, <1>2, TakeKeeps DEF Activated, emuVars
<1>3. CASE CardDeactivated
  BY <1>1, <1>3, TakeKeeps DEF CardDeactivated, keptVars, emuVars
<1>4. CASE CardOther
  BY <1>1, <1>4, TakeKeeps DEF CardOther, At, keptVars, emuVars
<1>5. CASE CardSilent
  BY <1>5, SilentKeeps DEF CardSilent, At, keptVars
<1>6. ASSUME NEW r \in {OnStop, OnStart, OnData}, Transceive(r)
      PROVE  /\ QueueOK(out \o r.out, epoch) /\ Runs(out \o r.out, st', epoch) /\ Take(out \o r.out)
             /\ \A e : Leads(out, e, st, epoch) => Leads(out \o r.out, e, st', epoch)
             /\ st' \in {"idle", "discovering", "active"} /\ asking' \in BOOLEAN /\ epoch' = epoch
  BY <1>1, <1>6, ControllerReplies DEF Transceive
<1>7. CASE SendReply
  <2>1. Transceive(OnData)
    BY <1>7 DEF SendReply
  <2>2. /\ pc = "reply" /\ pc' = "card" /\ first' = FALSE /\ reply' = <<>>
        /\ missed' = (missed \/ answer'.kind = "deactivated") /\ UNCHANGED <<emuVars, fileVars, readVars, selected, alien>>
    BY <1>7 DEF SendReply, At, keptVars
  <2> QED
    BY <1>1, <1>6, <2>1, <2>2, TakeKeeps DEF emuVars
<1>8. CASE Stop
  <2>1. Transceive(OnStop)
    BY <1>8 DEF Stop
  <2>2. pc' = "drain" /\ UNCHANGED <<first, reply, missed, emuVars, fileVars, readVars, selected, alien>>
    BY <1>8 DEF Stop, At, keptVars
  <2> QED
    BY <1>1, <1>6, <2>1, <2>2, TakeKeeps DEF emuVars
<1>9. CASE Restart
  <2>1. Transceive(OnStart)
    BY <1>9 DEF Restart
  <2>2. pc' = "wait" /\ UNCHANGED <<first, reply, missed, emuVars, fileVars, readVars, selected, alien>>
    BY <1>9 DEF Restart, At, keptVars
  <2> QED
    BY <1>1, <1>6, <2>1, <2>2, TakeKeeps DEF emuVars
<1>10. CASE Drain
  <2>1. UNCHANGED <<first, reply, st, asking, epoch, keptVars, missed>>
    BY <1>10 DEF Drain
  <2>2. CASE Take(out) /\ pc' = "drain"
    BY <1>1, <2>1, <2>2, TakeKeeps DEF keptVars, emuVars
  <2>3. CASE UNCHANGED <<answer, out>> /\ pc' = "restart"
    BY <2>1, <2>3, SilentKeeps DEF keptVars, ctlVars
  <2> QED
    BY <1>10, <2>2, <2>3 DEF Drain
<1> QED
  BY <1>2, <1>3, <1>4, <1>5, <1>7, <1>8, <1>9, <1>10

-----------------------------------------------------------------------------
(* The file *)

Patched(D, cells, at, data, new) ==
  /\ D \subseteq Int /\ cells \in [D -> Byte] /\ at \in Int /\ data \in Seq(Byte)
  /\ new = Patch(cells, at, data)

LEMMA PatchOf ==
  ASSUME NEW D, NEW cells, NEW at, NEW data, NEW new, Patched(D, cells, at, data, new)
  PROVE  /\ new \in [D -> Byte]
         /\ \A i \in D : i - at \in 0 .. Len(data) - 1 => new[i] = data[i - at + 1]
         /\ \A i \in D : i - at \notin 0 .. Len(data) - 1 => new[i] = cells[i]
PROOF
<1>1. /\ D \subseteq Int /\ cells \in [D -> Byte] /\ at \in Int /\ data \in Seq(Byte)
      /\ new = Patch(cells, at, data) /\ DOMAIN cells = D /\ Len(data) \in Nat
  BY DEF Patched
<1>2. ASSUME NEW i \in D, i - at \in 0 .. Len(data) - 1
      PROVE  data[i - at + 1] \in Byte
  <2>1. i - at + 1 \in 1 .. Len(data)
    BY <1>1, <1>2
  <2> QED
    BY <1>1, <2>1
<1> QED
  BY <1>1, <1>2 DEF Patch

LEMMA TwoBytes ==
  ASSUME NEW a \in Byte, NEW b \in Byte
  PROVE  /\ 256 * a + b \in Nat /\ 256 * a + b < 65536
         /\ (256 * a + b) \div 256 = a /\ (256 * a + b) % 256 = b
PROOF
<1>1. a \in Int /\ b \in Int /\ 0 <= a /\ a <= 255 /\ 0 <= b /\ b <= 255
  BY DEF Byte
<1>2. 256 * a + b \in Nat /\ 256 * a + b < 65536
  BY <1>1
<1>3. (256 * a + b) \div 256 = a
  BY <1>1
<1>4. (256 * a + b) % 256 = b
  BY <1>1
<1> QED
  BY <1>2, <1>3, <1>4

LEMMA FileSizeOf ==
  ASSUME TypeOK
  PROVE  /\ file[0] \in Byte /\ file[1] \in Byte /\ FileSize \in Nat
         /\ FileSize \div 256 = file[0] /\ FileSize % 256 = file[1]
PROOF
<1>1. file \in [0 .. MaxFile - 1 -> Byte] /\ MaxFile \in 2 .. 256
  BY CardAssumption DEF TypeOK
<1>2. 0 \in 0 .. MaxFile - 1 /\ 1 \in 0 .. MaxFile - 1
  BY <1>1
<1>3. file[0] \in Byte /\ file[1] \in Byte
  BY <1>1, <1>2
<1> DEFINE a == file[0]
           b == file[1]
<1>4. FileSize = 256 * a + b
  BY DEF FileSize
<1>5. a \in Byte /\ b \in Byte
  BY <1>3
<1> HIDE DEF a, b, FileSize
<1>6. /\ 256 * a + b \in Nat
      /\ (256 * a + b) \div 256 = a /\ (256 * a + b) % 256 = b
  BY <1>5, TwoBytes
<1>7. FileSize \in Nat /\ FileSize \div 256 = a /\ FileSize % 256 = b
  BY <1>4, <1>6
<1> QED
  BY <1>3, <1>7 DEF a, b

LEMMA StoredOf ==
  ASSUME TypeOK, Mirror, NEW i \in Nat
  PROVE  /\ Stored(i) \in Byte \cup {Foreign}
         /\ Complete /\ i < FileSize => Stored(i) = file[i + 2]
PROOF
<1>1. /\ Message \in Seq(Byte) /\ MaxFile \in 2 .. 256 /\ Len(Message) \in Nat
      /\ written \in [0 .. MaxFile - 3 -> Byte] /\ own \in BOOLEAN /\ (own => size = Len(Message))
  BY CardAssumption DEF TypeOK
<1>2. CASE own
  <2>1. Stored(i) = IF i < Len(Message) THEN Message[i + 1] ELSE Foreign
    BY <1>2 DEF Stored
  <2>2. i < Len(Message) => i + 1 \in 1 .. Len(Message)
    BY <1>1
  <2>3. i < Len(Message) => Message[i + 1] \in Byte /\ file[i + 1 + 1] = Message[i + 1]
    BY <1>1, <1>2, <2>2 DEF Mirror
  <2>4. Complete /\ i < FileSize => i < Len(Message)
    BY <1>1, <1>2 DEF Complete, Mirror
  <2> QED
    BY <2>1, <2>3, <2>4
<1>3. CASE ~own
  <2>1. Stored(i) = IF i < MaxFile - 2 THEN written[i] ELSE Foreign
    BY <1>3 DEF Stored
  <2>2. i < MaxFile - 2 => i \in 0 .. MaxFile - 3
    BY <1>1
  <2>3. i < MaxFile - 2 => written[i] \in Byte
    BY <1>1, <2>2
  <2>4. ASSUME Complete, i < FileSize
        PROVE  i < MaxFile - 2 /\ written[i] = file[i + 2]
    <3>1. FileSize \in Nat
      BY FileSizeOf
    <3>2. i + 2 \in 2 .. FileSize + 1 /\ (i + 2) - 2 = i /\ i < MaxFile - 2
      BY <1>1, <2>4, <3>1 DEF Complete
    <3>3. i + 2 \in since
      BY <1>3, <2>4, <3>2 DEF Complete, Mirror
    <3>4. written[(i + 2) - 2] = file[i + 2]
      BY <1>3, <3>2, <3>3 DEF Mirror
    <3> QED
      BY <3>2, <3>4
  <2> QED
    BY <2>1, <2>3, <2>4
<1> QED
  BY <1>1, <1>2, <1>3

LEMMA FillRspOf ==
  ASSUME TypeOK, Mirror, NEW off \in Nat, NEW len \in 1 .. 255
  PROVE  /\ FillRsp(off, len) \in Seq(Byte \cup {Foreign})
         /\ Complete /\ off + len <= FileSize + 2 =>
              \A k \in 1 .. len : FillRsp(off, len)[k] = file[off + k - 1]
PROOF
<1> DEFINE cell(k) == CASE off + k = 1 -> size \div 256
                        [] off + k = 2 -> size % 256
                        [] OTHER -> Stored(off + k - 3)
<1>1. FillRsp(off, len) = [k \in 1 .. len |-> cell(k)]
  BY DEF FillRsp
<1>2. ASSUME NEW k \in 1 .. len
      PROVE  /\ off + k = 1 => cell(k) = size \div 256
             /\ off + k = 2 => cell(k) = size % 256
             /\ off + k # 1 /\ off + k # 2 => cell(k) = Stored(off + k - 3)
  <2>1. ~(off + k = 1 /\ off + k = 2)
    OBVIOUS
  <2> QED
    BY <2>1, Zenon
<1> HIDE DEF cell
<1>3. size \in Nat /\ size < 65536 /\ FileSize \in Nat
  BY FileSizeOf DEF TypeOK
<1>4. ASSUME NEW k \in 1 .. len
      PROVE  /\ cell(k) \in Byte \cup {Foreign}
             /\ Complete /\ off + len <= FileSize + 2 => cell(k) = file[off + k - 1]
  <2>1. off + k >= 1
    OBVIOUS
  <2>2. Complete => size = FileSize
    BY DEF Complete, Mirror
  <2>3. CASE off + k = 1
    <3>1. size \div 256 \in Byte
      BY <1>3 DEF Byte
    <3>2. Complete => size \div 256 = file[0]
      BY <2>2, FileSizeOf
    <3> QED
      BY <1>2, <2>3, <3>1, <3>2
  <2>4. CASE off + k = 2
    <3>1. size % 256 \in Byte
      BY <1>3 DEF Byte
    <3>2. Complete => size % 256 = file[1]
      BY <2>2, FileSizeOf
    <3> QED
      BY <1>2, <2>4, <3>1, <3>2
  <2>5. CASE off + k # 1 /\ off + k # 2
    <3>1. off + k - 3 \in Nat /\ (off + k - 3) + 2 = off + k - 1
      BY <2>1, <2>5
    <3>2. off + len <= FileSize + 2 => off + k - 3 < FileSize
      BY <1>3
    <3> QED
      BY <1>2, <2>5, <3>1, <3>2, StoredOf
  <2> QED
    BY <2>3, <2>4, <2>5
<1>5. FillRsp(off, len) \in Seq(Byte \cup {Foreign})
  BY <1>1, <1>4
<1>6. \A k \in 1 .. len : FillRsp(off, len)[k] = cell(k)
  BY <1>1
<1> QED
  BY <1>4, <1>5, <1>6

-----------------------------------------------------------------------------
(* A command to the emulation *)

LEMMA ServedIs ==
  ASSUME NEW c \in Commands
  PROVE  /\ UsesFile(c) => state = "NDEF_Selected" /\ c.ins \in {"read", "write"}
         /\ NextState(c) \in {"Ready", "NDEF_Application_Selected", "CC_Selected", "NDEF_Selected", state}
         /\ NextState(c) = "NDEF_Selected" => c.ins = "ndef" \/ state = "NDEF_Selected"
PROOF
<1>1. UsesFile(c) => state = "NDEF_Selected" /\ c.ins \in {"read", "write"}
  BY DEF UsesFile
<1>2. \/ NextState(c) \in {"Ready", "NDEF_Application_Selected", "CC_Selected"}
      \/ NextState(c) = "NDEF_Selected" /\ c.ins = "ndef"
      \/ NextState(c) = state
  <2>1. CASE ~Served(c)
    BY <2>1 DEF NextState
  <2>2. CASE Served(c)
    <3>1. CASE c.ins \in {"app", "cc", "ndef"}
      BY <2>2, <3>1, Zenon DEF NextState
    <3>2. CASE c.ins \notin {"app", "cc", "ndef"}
      <4>1. c.ins # "app" /\ c.ins # "cc" /\ c.ins # "ndef"
        BY <3>2
      <4> QED
        BY <2>2, <4>1, Zenon DEF NextState
    <3> QED
      BY <3>1, <3>2
  <2> QED
    BY <2>1, <2>2
<1> QED
  BY <1>1, <1>2

(* A write.                                                                  *)
LEMMA WriteKeeps ==
  ASSUME TypeOK, History, Mirror, NEW c \in Commands, c.ins = "write", WriteFile(c), NoteWrite(c), reply' = <<>>
  PROVE  /\ written' \in [0 .. MaxFile - 3 -> Byte] /\ ~own' /\ size' \in Nat /\ size' < 65536
         /\ file' \in [0 .. MaxFile - 1 -> Byte] /\ since' \subseteq DOMAIN file'
         /\ upto' \in Nat /\ jumped' \in BOOLEAN /\ pushed' \in BOOLEAN /\ settled' \in BOOLEAN
         /\ Mirror' /\ Answered' /\ PushTells'
PROOF
<1>1. /\ c.off \in Nat /\ c.data \in Seq(Byte) /\ Len(c.data) \in Nat \ {0}
      /\ c.off + Len(c.data) <= MaxFile /\ MaxFile \in 2 .. 256
  <2>1. c.off \in Nat /\ c.data \in Seq(Byte) /\ c.data # <<>> /\ c.off + Len(c.data) <= MaxFile
    BY CommandIs
  <2> QED
    BY <2>1, CardAssumption
<1>2. /\ written \in [0 .. MaxFile - 3 -> Byte] /\ file \in [0 .. MaxFile - 1 -> Byte]
      /\ since \subseteq 0 .. MaxFile - 1
  BY DEF TypeOK
<1>3. /\ written' = Patch(written, c.off - 2, c.data) /\ file' = Patch(file, c.off, c.data)
      /\ own' = FALSE /\ settled' = (c.off = 0 /\ Len(c.data) >= 2)
      /\ since' = since \cup {i \in 0 .. MaxFile - 1 : i - c.off \in 0 .. Len(c.data) - 1}
      /\ upto' = 0 /\ jumped' = FALSE /\ pushed' = FALSE
  BY <1>2 DEF WriteFile, NoteWrite
<1>4. /\ written' \in [0 .. MaxFile - 3 -> Byte]
      /\ \A i \in 0 .. MaxFile - 3 : i - (c.off - 2) \in 0 .. Len(c.data) - 1 => written'[i] = c.data[i - (c.off - 2) + 1]
      /\ \A i \in 0 .. MaxFile - 3 : i - (c.off - 2) \notin 0 .. Len(c.data) - 1 => written'[i] = written[i]
  <2> DEFINE D == 0 .. MaxFile - 3
             at == c.off - 2
             d == c.data
  <2>1. D \subseteq Int /\ at \in Int /\ written \in [D -> Byte] /\ d \in Seq(Byte)
    BY <1>1, <1>2
  <2>2. written' = Patch(written, at, d)
    BY <1>3
  <2>3. Patched(D, written, at, d, written')
    BY <2>1, <2>2 DEF Patched
  <2> HIDE DEF D, at, d
  <2>4. /\ written' \in [D -> Byte]
        /\ \A i \in D : i - at \in 0 .. Len(d) - 1 => written'[i] = d[i - at + 1]
        /\ \A i \in D : i - at \notin 0 .. Len(d) - 1 => written'[i] = written[i]
    BY <2>3, PatchOf
  <2> QED
    BY <2>4 DEF D, at, d
<1>5. /\ file' \in [0 .. MaxFile - 1 -> Byte]
      /\ \A i \in 0 .. MaxFile - 1 : i - c.off \in 0 .. Len(c.data) - 1 => file'[i] = c.data[i - c.off + 1]
      /\ \A i \in 0 .. MaxFile - 1 : i - c.off \notin 0 .. Len(c.data) - 1 => file'[i] = file[i]
  <2> DEFINE D == 0 .. MaxFile - 1
             at == c.off
             d == c.data
  <2>1. D \subseteq Int /\ at \in Int /\ file \in [D -> Byte] /\ d \in Seq(Byte)
    BY <1>1, <1>2
  <2>2. file' = Patch(file, at, d)
    BY <1>3
  <2>3. Patched(D, file, at, d, file')
    BY <2>1, <2>2 DEF Patched
  <2> HIDE DEF D, at, d
  <2>4. /\ file' \in [D -> Byte]
        /\ \A i \in D : i - at \in 0 .. Len(d) - 1 => file'[i] = d[i - at + 1]
        /\ \A i \in D : i - at \notin 0 .. Len(d) - 1 => file'[i] = file[i]
    BY <2>3, PatchOf
  <2> QED
    BY <2>4 DEF D, at, d
<1>6. PICK low \in Byte : /\ size' = 256 * c.data[1] + low
                          /\ Len(c.data) > 1 => low = c.data[2]
  <2>1. Len(c.data) > 1 => c.data[2] \in Byte
    BY <1>1
  <2> QED
    BY <2>1, CardAssumption DEF WriteFile
<1>7. c.data[1] \in Byte
  BY <1>1
<1>8. size' \in Nat /\ size' < 65536
  <2> DEFINE high == c.data[1]
  <2>1. high \in Byte /\ size' = 256 * high + low
    BY <1>6, <1>7
  <2> HIDE DEF high
  <2>2. 256 * high + low \in Nat /\ 256 * high + low < 65536
    BY <2>1, TwoBytes
  <2> QED
    BY <2>1, <2>2
<1>9. since' # {} /\ since' \subseteq 0 .. MaxFile - 1
  <2>1. c.off \in 0 .. MaxFile - 1 /\ c.off - c.off \in 0 .. Len(c.data) - 1
    BY <1>1
  <2> QED
    BY <1>2, <1>3, <2>1
<1>10. ASSUME NEW i \in since', i >= 2
       PROVE  written'[i - 2] = file'[i]
  <2>1. i \in 0 .. MaxFile - 1 /\ i - 2 \in 0 .. MaxFile - 3 /\ (i - 2) - (c.off - 2) = i - c.off
    BY <1>1, <1>9, <1>10
  <2>2. CASE i - c.off \in 0 .. Len(c.data) - 1
    BY <2>1, <2>2, <1>4, <1>5
  <2>3. CASE i - c.off \notin 0 .. Len(c.data) - 1
    <3>1. i \in since
      BY <2>1, <2>3, <1>3
    <3>2. ~own
      BY <3>1 DEF Mirror
    <3>3. written[i - 2] = file[i]
      BY <3>1, <3>2, <1>10 DEF Mirror
    <3>4. written'[i - 2] = written[i - 2] /\ file'[i] = file[i]
      BY <2>1, <2>3, <1>4, <1>5
    <3> QED
      BY <3>3, <3>4
  <2> QED
    BY <2>2, <2>3
<1>11. ASSUME settled'
       PROVE  size' = FileSize'
  <2>1. c.off = 0 /\ Len(c.data) >= 2
    BY <1>3, <1>11
  <2>2. /\ 0 \in 0 .. MaxFile - 1 /\ 1 \in 0 .. MaxFile - 1
        /\ 0 - c.off = 0 /\ 1 - c.off = 1 /\ 0 \in 0 .. Len(c.data) - 1 /\ 1 \in 0 .. Len(c.data) - 1
    BY <2>1, <1>1
  <2>3. file'[0] = c.data[1] /\ file'[1] = c.data[2]
    BY <2>2, <1>5
  <2> QED
    BY <2>1, <2>3, <1>1, <1>6 DEF FileSize
<1>12. Mirror'
  BY <1>3, <1>9, <1>10, <1>11 DEF Mirror
<1>13. Answered'
  BY DEF Answered
<1>14. PushTells'
  <2> DEFINE n == size'
  <2>1. n \in Nat
    BY <1>8
  <2> HIDE DEF n
  <2>2. ~(0 >= n + 2)
    BY <2>1
  <2>3. ~(0 >= size' + 2)
    BY <2>2, Zenon DEF n
  <2>4. (~pushed) ' /\ upto' = 0
    BY <1>3
  <2> QED
    BY <2>3, <2>4, Zenon DEF PushTells
<1>15. since' \subseteq DOMAIN file'
  BY <1>5, <1>9
<1>16. upto' \in Nat /\ jumped' \in BOOLEAN /\ pushed' \in BOOLEAN /\ settled' \in BOOLEAN
  BY <1>3
<1>17. ~own'
  BY <1>3
<1>18. written' \in [0 .. MaxFile - 3 -> Byte] /\ file' \in [0 .. MaxFile - 1 -> Byte]
  BY <1>4, <1>5
<1> QED
  BY <1>8, <1>12, <1>13, <1>14, <1>15, <1>16, <1>17, <1>18

(* A read.                                                                   *)
LEMMA ReadKeeps ==
  ASSUME TypeOK, History, Mirror, PushTells, NEW c \in Commands, c.ins = "read", NoteRead(c),
         UNCHANGED <<written, own, size>>, answer'.cmd = c, reply' = FillRsp(c.off, c.len)
  PROVE  /\ reply' \in Seq(Byte \cup {Foreign})
         /\ upto' \in Nat /\ jumped' \in BOOLEAN /\ pushed' \in BOOLEAN
         /\ Mirror' /\ Answered' /\ PushTells'
PROOF
<1>1. c.off \in Nat /\ c.len \in 1 .. 255
  BY CommandIs
<1>2. UNCHANGED <<file, settled, since>>
  BY DEF NoteRead, fileVars
<1>3. FileSize' = FileSize /\ (Complete' <=> Complete)
  BY <1>2 DEF FileSize, Complete
<1>4. Mirror'
  BY <1>2, <1>3 DEF Mirror
<1>5. /\ reply' \in Seq(Byte \cup {Foreign})
      /\ Complete /\ c.off + c.len <= FileSize + 2 =>
           \A k \in 1 .. c.len : reply'[k] = file[c.off + k - 1]
  BY <1>1, FillRspOf
<1>6. Answered'
  BY <1>2, <1>3, <1>5 DEF Answered
<1>7. /\ jumped' = (jumped \/ c.off > upto)
      /\ upto' = IF ~jumped' /\ c.off + c.len > upto THEN c.off + c.len ELSE upto
      /\ pushed' = (~jumped' /\ (pushed \/ c.off + c.len >= size + 2))
  BY DEF NoteRead, ReachedEnd
<1>8. upto' \in Nat /\ jumped' \in BOOLEAN /\ pushed' \in BOOLEAN
  BY <1>1, <1>7 DEF History
<1>9. PushTells'
  <2>1. upto \in Nat /\ size \in Nat /\ c.off + c.len \in Nat
    <3>1. upto \in Nat /\ size \in Nat
      BY DEF History, TypeOK
    <3> QED
      BY <1>1, <3>1
  <2>2. ASSUME ~jumped'
        PROVE  pushed' <=> upto' >= size + 2
    <3>1. ~jumped
      BY <1>7, <2>2 DEF History
    <3>2. pushed <=> upto >= size + 2
      BY <3>1 DEF PushTells
    <3>3. pushed' <=> (upto >= size + 2 \/ c.off + c.len >= size + 2)
      BY <1>7, <2>2, <3>2
    <3>4. upto' = IF c.off + c.len > upto THEN c.off + c.len ELSE upto
      BY <1>7, <2>2
    <3> QED
      BY <2>1, <3>3, <3>4
  <2> QED
    BY <2>2 DEF PushTells
<1> QED
  BY <1>4, <1>5, <1>6, <1>8, <1>9

LEMMA CardDataKeeps ==
  ASSUME IInv, CardData
  PROVE  IInv'
PROOF
<1> DEFINE c == answer'.cmd
           e == answer'.epoch
<1>1. /\ TypeOK /\ History /\ Mirror /\ PushTells
      /\ QueueOK(out, epoch) /\ Runs(out, st, epoch) /\ (missed => missed')
  BY DEF IInv, Queued, InOrder, CardData
<1>2. /\ pc = "card" /\ pc' = "reply" /\ UNCHANGED <<first, st, asking, epoch, missed>>
      /\ out # <<>> /\ answer' = Head(out) /\ out' = Tail(out) /\ answer'.kind = "data"
      /\ EmuNext(c, e)
  BY DEF CardData, At, Take
<1>3. /\ QueueOK(out', epoch') /\ Runs(out', st, epoch) /\ answer' \in Packets /\ c \in Commands
      /\ Leads(out', e, st, epoch)
      /\ Leads(out, selected, st, epoch) => Leads(out', selected, st, epoch)
  BY <1>1, <1>2, QueueTail
<1>4. Leads(out, selected, st, epoch) => e = selected
  <2>1. out \in Seq(Packets) /\ Head(out) = out[1] /\ 1 \in 1 .. Len(out) /\ \A k \in 1 .. 1 : k = 1
    BY <1>1, <1>2 DEF QueueOK
  <2> QED
    BY <1>2, <2>1 DEF Leads
<1>5. e \in 0 .. epoch
  <2>1. answer' \in Packets /\ answer'.epoch <= epoch
    BY <1>1, <1>2, QueueTail
  <2>2. answer'.epoch \in 0 .. MaxActivations
    BY <2>1 DEF Packets
  <2>3. epoch \in Nat
    BY DEF IInv, TypeOK
  <2> QED
    BY <2>1, <2>2, <2>3
<1>6. /\ reply' = IF UsesFile(c) /\ c.ins = "read" THEN FillRsp(c.off, c.len) ELSE <<>>
      /\ state' = NextState(c)
      /\ selected' = IF c.ins = "ndef" THEN e ELSE selected
      /\ alien' = (alien \/ (UsesFile(c) /\ selected # e))
  BY <1>2 DEF EmuNext
<1> HIDE DEF e
<1>7. /\ written' \in [0 .. MaxFile - 3 -> Byte] /\ own' \in BOOLEAN /\ size' \in Nat /\ size' < 65536
      /\ own' => size' = Len(Message)
      /\ file' \in [0 .. MaxFile - 1 -> Byte] /\ since' \subseteq DOMAIN file'
      /\ reply' \in Seq(Byte \cup {Foreign})
      /\ upto' \in Nat /\ jumped' \in BOOLEAN /\ pushed' \in BOOLEAN /\ settled' \in BOOLEAN
      /\ Mirror' /\ Answered' /\ PushTells'
  <2>1. CASE UsesFile(c) /\ c.ins = "write"
    <3>1. WriteFile(c) /\ NoteWrite(c) /\ reply' = <<>>
      BY <1>2, <1>6, <2>1 DEF EmuNext
    <3>2. /\ written' \in [0 .. MaxFile - 3 -> Byte] /\ ~own' /\ size' \in Nat /\ size' < 65536
          /\ file' \in [0 .. MaxFile - 1 -> Byte] /\ since' \subseteq DOMAIN file'
          /\ upto' \in Nat /\ jumped' \in BOOLEAN /\ pushed' \in BOOLEAN /\ settled' \in BOOLEAN
          /\ Mirror' /\ Answered' /\ PushTells'
      BY <1>1, <1>3, <2>1, <3>1, WriteKeeps
    <3>3. own' \in BOOLEAN
      BY <3>1 DEF WriteFile
    <3>4. reply' \in Seq(Byte \cup {Foreign})
      BY <3>1
    <3> QED
      BY <3>2, <3>3, <3>4
  <2>2. /\ written \in [0 .. MaxFile - 3 -> Byte] /\ own \in BOOLEAN /\ size \in Nat /\ size < 65536
        /\ own => size = Len(Message)
        /\ file \in [0 .. MaxFile - 1 -> Byte] /\ since \subseteq DOMAIN file
        /\ upto \in Nat /\ jumped \in BOOLEAN /\ pushed \in BOOLEAN /\ settled \in BOOLEAN
    BY <1>1 DEF TypeOK, History
  <2>3. CASE UsesFile(c) /\ c.ins = "read"
    <3>1. NoteRead(c) /\ UNCHANGED <<written, own, size>> /\ reply' = FillRsp(c.off, c.len)
      BY <1>2, <1>6, <2>3 DEF EmuNext
    <3>2. UNCHANGED <<file, settled, since>>
      BY <3>1 DEF NoteRead, fileVars
    <3>3. /\ reply' \in Seq(Byte \cup {Foreign})
          /\ upto' \in Nat /\ jumped' \in BOOLEAN /\ pushed' \in BOOLEAN
          /\ Mirror' /\ Answered' /\ PushTells'
      BY <1>1, <1>3, <2>3, <3>1, ReadKeeps
    <3> QED
      BY <2>2, <3>1, <3>2, <3>3
  <2>4. CASE ~UsesFile(c)
    <3>1. UNCHANGED <<written, own, size, file, settled, since>> /\ reply' = <<>>
      BY <1>2, <1>6, <2>4 DEF EmuNext, NoteSelect, fileVars
    <3>2. \/ upto' = 0 /\ ~jumped' /\ ~pushed'
          \/ upto' = upto /\ jumped' = jumped /\ pushed' = pushed
      <4>1. \/ c.ins = "ndef" /\ NoteSelect
            \/ ~UsesFile(c) /\ c.ins # "ndef" /\ UNCHANGED <<fileVars, readVars>>
        BY <1>2, <2>4 DEF EmuNext
      <4>2. NoteSelect => upto' = 0 /\ ~jumped' /\ ~pushed'
        BY DEF NoteSelect
      <4>3. UNCHANGED readVars => upto' = upto /\ jumped' = jumped /\ pushed' = pushed
        BY DEF readVars
      <4> QED
        BY <4>1, <4>2, <4>3
    <3>3. upto' \in Nat /\ jumped' \in BOOLEAN /\ pushed' \in BOOLEAN
      <4>1. CASE NoteSelect
        BY <4>1 DEF NoteSelect
      <4>2. CASE UNCHANGED readVars
        BY <2>2, <4>2 DEF readVars
      <4> QED
        BY <1>2, <2>4, <4>1, <4>2 DEF EmuNext
    <3>4. FileSize' = FileSize
      BY <3>1 DEF FileSize
    <3>5. Mirror'
      BY <1>1, <3>1, <3>4 DEF Mirror
    <3>6. Answered'
      BY <3>1 DEF Answered
    <3>7. PushTells'
      <4>1. ~(0 >= size + 2)
        BY <2>2
      <4> QED
        BY <1>1, <3>1, <3>2, <4>1 DEF PushTells
    <3>8. reply' \in Seq(Byte \cup {Foreign})
      BY <3>1
    <3> QED
      BY <2>2, <3>1, <3>3, <3>5, <3>6, <3>7, <3>8
  <2> QED
    BY <1>3, <2>1, <2>3, <2>4, ServedIs
<1>8. state' \in {"Ready", "NDEF_Application_Selected", "CC_Selected", "NDEF_Selected"}
  BY <1>1, <1>3, <1>6, ServedIs DEF TypeOK
<1>9. state' = "NDEF_Selected" => c.ins = "ndef" \/ state = "NDEF_Selected"
  BY <1>3, <1>6, ServedIs
<1>10. UsesFile(c) => state = "NDEF_Selected"
  BY <1>3, ServedIs
<1> HIDE DEF c
<1>11. TypeOK'
  <2>1. selected' \in 0 .. epoch' /\ epoch' \in 0 .. MaxActivations
    BY <1>1, <1>2, <1>5, <1>6 DEF TypeOK
  <2>2. st' \in {"idle", "discovering", "active"} /\ asking' \in BOOLEAN /\ first' \in BOOLEAN
    BY <1>1, <1>2 DEF TypeOK
  <2> QED
    BY <1>2, <1>7, <1>8, <2>1, <2>2 DEF TypeOK
<1>12. Queued' /\ History'
  <2>1. alien' \in BOOLEAN /\ missed' \in BOOLEAN
    BY <1>1, <1>2, <1>6 DEF History
  <2> QED
    BY <1>2, <1>3, <1>7, <2>1 DEF Queued, History
<1>13. state = "NDEF_Selected" /\ ~missed => Leads(out, selected, st, epoch)
  BY <1>2 DEF IInv, InOrder
<1>14. InOrder'
  <2>1. ASSUME state' = "NDEF_Selected", ~missed'
        PROVE  Leads(out', selected', st', epoch')
    <3>1. CASE c.ins = "ndef"
      BY <1>2, <1>3, <1>6, <3>1
    <3>2. CASE c.ins # "ndef"
      BY <1>2, <1>3, <1>6, <1>9, <1>13, <2>1, <3>2
    <3> QED
      BY <3>1, <3>2
  <2> QED
    BY <1>2, <1>3, <2>1 DEF InOrder
<1>15. SelectedFirst'
  BY <1>2, <1>4, <1>6, <1>10, <1>13 DEF IInv, SelectedFirst
<1> QED
  BY <1>7, <1>11, <1>12, <1>14, <1>15 DEF IInv

-----------------------------------------------------------------------------
(* Results *)

LEMMA InitInv == Init => IInv
PROOF
<1> SUFFICES ASSUME Init
             PROVE  IInv
  OBVIOUS
<1>1. /\ Message \in Seq(Byte) /\ Len(Message) \in Nat /\ Len(Message) + 2 <= MaxFile
      /\ MaxFile \in Nat /\ 2 <= MaxFile /\ MaxFile <= 256 /\ MaxActivations \in Nat
  BY CardAssumption
<1>2. /\ file \in [0 .. MaxFile - 1 -> Byte] /\ file[0] = 0 /\ file[1] = Len(Message)
      /\ \A i \in 1 .. Len(Message) : file[i + 1] = Message[i]
  <2>1. file = [i \in 0 .. MaxFile - 1 |->
                  IF i = 1 THEN Len(Message)
                  ELSE IF i \in 2 .. Len(Message) + 1 THEN Message[i - 1] ELSE 0]
    BY DEF Init
  <2>2. ASSUME NEW i \in 0 .. MaxFile - 1
        PROVE  file[i] \in Byte
    <3>1. CASE i = 1
      <4> DEFINE n == Len(Message)
      <4>1. file[i] = n
        BY <2>1, <3>1
      <4>2. n \in Nat /\ n <= 254
        BY <1>1
      <4> HIDE DEF n
      <4>3. n \in Byte
        BY <4>2 DEF Byte
      <4> QED
        BY <4>1, <4>3
    <3>2. CASE i \in 2 .. Len(Message) + 1
      <4>1. file[i] = Message[i - 1]
        BY <2>1, <3>2
      <4>2. i - 1 \in 1 .. Len(Message)
        BY <1>1, <3>2
      <4> QED
        BY <1>1, <4>1, <4>2
    <3>3. CASE i # 1 /\ i \notin 2 .. Len(Message) + 1
      <4>1. file[i] = 0
        BY <2>1, <3>3
      <4> QED
        BY <4>1 DEF Byte
    <3> QED
      BY <3>1, <3>2, <3>3
  <2>3. ASSUME NEW i \in 1 .. Len(Message)
        PROVE  file[i + 1] = Message[i]
    <3>1. i + 1 \in 0 .. MaxFile - 1 /\ i + 1 # 1 /\ i + 1 \in 2 .. Len(Message) + 1 /\ (i + 1) - 1 = i
      BY <1>1
    <3> QED
      BY <2>1, <3>1
  <2>4. file[0] = 0 /\ file[1] = Len(Message)
    <3>1. 0 \in 0 .. MaxFile - 1 /\ 1 \in 0 .. MaxFile - 1
      BY <1>1
    <3>2. 0 # 1 /\ 0 \notin 2 .. Len(Message) + 1
      BY <1>1
    <3> QED
      BY <2>1, <3>1, <3>2
  <2>5. file \in [0 .. MaxFile - 1 -> Byte]
    BY <2>1, <2>2
  <2> QED
    BY <2>3, <2>4, <2>5
<1>3. written \in [0 .. MaxFile - 3 -> Byte]
  <2>1. 0 \in Byte
    BY DEF Byte
  <2> QED
    BY <2>1 DEF Init
<1>4. size \in Nat /\ size < 65536 /\ size = Len(Message) /\ ~(0 >= size + 2)
  <2>1. size = Len(Message)
    BY DEF Init
  <2> QED
    BY <1>1, <2>1
<1>5. TypeOK
  <2>1. reply \in Seq(Byte \cup {Foreign})
    BY DEF Init
  <2>2. epoch \in 0 .. MaxActivations /\ selected \in 0 .. epoch
    BY <1>1 DEF Init
  <2>3. since \subseteq DOMAIN file
    BY DEF Init
  <2>4. /\ state = "Ready" /\ own \in BOOLEAN /\ pc = "wait" /\ first \in BOOLEAN
        /\ st = "discovering" /\ asking \in BOOLEAN
    BY DEF Init
  <2> QED
    BY <1>2, <1>3, <1>4, <2>1, <2>2, <2>3, <2>4 DEF TypeOK
<1>6. Queued
  <2>1. answer \in Packets
    BY <1>5, PacketTypes DEF Kinds, Init
  <2>2. out = <<>> /\ epoch = 0
    BY DEF Init
  <2> QED
    BY <2>1, <2>2 DEF Queued, QueueOK
<1>7. History
  BY DEF History, Init
<1>8. Mirror
  <2>1. size = FileSize
    BY <1>1, <1>2, <1>4 DEF FileSize
  <2>2. own /\ since = {}
    BY DEF Init
  <2> QED
    BY <1>2, <2>1, <2>2 DEF Mirror
<1>9. Answered /\ PushTells /\ InOrder /\ SelectedFirst
  <2>1. out = <<>> /\ pc = "wait" /\ upto = 0 /\ ~jumped /\ ~pushed /\ ~alien
    BY DEF Init
  <2>2. PushTells
    BY <1>4, <2>1 DEF PushTells
  <2>3. Runs(out, st, epoch)
    BY <2>1 DEF Runs
  <2> QED
    BY <2>1, <2>2, <2>3 DEF Answered, InOrder, SelectedFirst
<1> QED
  BY <1>5, <1>6, <1>7, <1>8, <1>9 DEF IInv

LEMMA NextInv == IInv /\ [Next]_vars => IInv'
PROOF
<1> SUFFICES ASSUME IInv, [Next]_vars
             PROVE  IInv'
  OBVIOUS
<1>1. CASE UNCHANGED vars
  <2>1. TypeOK' /\ Queued' /\ History'
    BY <1>1 DEF vars, emuVars, hostVars, ctlVars, fileVars, readVars, IInv, TypeOK, Queued, History
  <2>2. Mirror' /\ Answered' /\ PushTells'
    BY <1>1, FileKept DEF vars, emuVars, hostVars, IInv
  <2>3. InOrder' /\ SelectedFirst'
    BY <1>1 DEF vars, emuVars, hostVars, ctlVars, IInv, InOrder, SelectedFirst
  <2> QED
    BY <2>1, <2>2, <2>3 DEF IInv
<1>2. CASE Reader
  BY <1>2, ReaderKeeps
<1>3. CASE Host
  <2>1. CASE CardData
    BY <2>1, CardDataKeeps
  <2>2. CASE WaitSilent
    BY <2>2, <1>1 DEF WaitSilent
  <2> QED
    BY <1>3, <2>1, <2>2, HostKeeps DEF Host
<1> QED
  BY <1>1, <1>2, <1>3 DEF Next

LEMMA Invariant == Spec => []IInv
BY InitInv, NextInv, PTL DEF Spec

(* T4T_NDEF_EMU_Next: once a writer has stored a message and, last of all,   *)
(* its length, or if nothing was written, each read inside the file gives    *)
(* its bytes, whatever was read or written before.                           *)
THEOREM EmulationCorrect == Spec => []EmulatesFile
PROOF
<1>1. IInv => EmulatesFile
  BY DEF IInv, EmulatesFile, Answered
<1> QED
  BY <1>1, Invariant, PTL

(* T4T_NDEF_EMU_FillRsp, "Notify application of the NDEF send": a reader     *)
(* that reads from the beginning without gaps has the whole message exactly  *)
(* when the application has been told.                                       *)
THEOREM PushCorrect == Spec => []PushTells
PROOF
<1>1. IInv => PushTells
  BY DEF IInv
<1> QED
  BY <1>1, Invariant, PTL

(* NxpNci_ProcessCardMode and T4T_NDEF_EMU_Reset: no activation uses the     *)
(* file on the strength of the selection of an earlier one, unless a         *)
(* deactivation was taken for the answer to a response.                      *)
THEOREM SelectionCorrect == Spec => []SelectedFirst
PROOF
<1>1. IInv => SelectedFirst
  BY DEF IInv
<1> QED
  BY <1>1, Invariant, PTL
=============================================================================
