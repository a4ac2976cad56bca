---------------------------- MODULE NciSetupProofs ----------------------------
(***************************************************************************)
(* Theorems of NciSetup, for every set of modes: type correctness; that     *)
(* time stamp and restore flag together keep track of the settings in the   *)
(* controller's memory, whatever fails and whenever power is lost; that a   *)
(* set-up that reports success has set the controller up for the mode; and  *)
(* that every set-up ends, with success once nothing fails any more.        *)
(***************************************************************************)
EXTENDS NciSetup, TLAPS

(* The packets of a CORE_RESET.                                              *)
ResetDone == Packet(FALSE, "reset", TRUE, FALSE)
Notices   == {ResetNtf, Recovered}

Has(s, x) == \E i \in 1 .. Len(s) : s[i] = x

(* Responses and notifications of resets in turn, up to a notification.      *)
Replies(s) ==
  /\ \A i \in 1 .. Len(s) : s[i] \in {ResetDone} \cup Notices
  /\ \A i \in 1 .. Len(s) - 1 : s[i] = ResetDone <=> s[i + 1] # ResetDone
  /\ s # <<>> => s[Len(s)] # ResetDone

NoSet(s) == \A i \in 1 .. Len(s) : s[i].op # "set"

Early  == {"init", "standby", "core"}
Chain  == {"clk", "tvdd", "rf", "write_ts"}
Finish == {"reset2", "ntf2", "init2", "ready"} \cup {ModeSteps[i] : i \in DOMAIN ModeSteps}

(* The settings sent before p.                                               *)
Earlier(p) ==
  CASE p = "clk" -> {"extn"}
    [] p = "tvdd" -> {"extn", "clk"}
    [] p = "rf" -> {"extn", "clk", "tvdd"}
    [] OTHER -> Persistent

(* What can be in the queue and the buffer at each command: up to the        *)
(* reading of the time stamp nothing is taken for the answer to a settings    *)
(* command, from there on no packet is left over.                            *)
Queue ==
  /\ pc = "off" => out = <<>>
  /\ pc = "reset" => Replies(out) /\ (out # <<>> => out[1] = ResetDone)
  /\ pc = "ntf" => Replies(out) /\ out # <<>> /\ out[1] # ResetDone
  /\ pc \in Early => NoSet(out)
  /\ pc = "core" => answer.op # "set"
  /\ pc = "read_ts" => out = <<>> /\ answer.op = "set"
  /\ pc = "extn" => out = <<>> /\ answer.op # "set"

(* Unless the host went on without an answer, the settings sent so far have  *)
(* been accepted, and all of them when the second reset is reached; the RF   *)
(* settings may have been restored, if a set-up that was told has failed.    *)
Sent ==
  /\ pc \in Chain /\ ~blind => nvm = Persistent \/ (out = <<>> /\ Earlier(pc) \subseteq nvm)
  /\ pc \in Finish /\ ~blind =>
       Persistent \ {"rf"} \subseteq nvm /\ ("rf" \in nvm \/ (forgotten /\ ~told))

(* Where the report of a recovery is: still in the queue, in the restore     *)
(* flag, or lost with a set-up that failed.                                  *)
Told ==
  /\ pc \notin {"off", "reset", "failed"} => ~notice
  /\ pc = "off" => ~told
  /\ pc \in {"reset", "ntf"} /\ told => Has(out, Recovered)
  /\ pc \in Early /\ told => rf_restored \/ Has(out, Recovered)
  /\ pc = "read_ts" /\ told => rf_restored
  /\ pc = "failed" /\ told => "rf" \in nvm \/ forgotten

IInv == TypeOK /\ Queue /\ Sent /\ Told /\ TimestampTells

-----------------------------------------------------------------------------
(* Facts about queues *)

LEMMA PacketTypes ==
  /\ ResetDone \in Packets /\ ResetNtf \in Packets
  /\ Recovered \in Packets /\ Nothing \in Packets
  /\ ResetDone # ResetNtf /\ ResetDone # Recovered /\ ResetNtf # Recovered
PROOF
<1>1. "reset2" \in Commands /\ Opcode("reset2") = "reset"
  BY DEF Commands, Opcode, SetConfig, Persistent
<1>2. "reset" \in {Opcode(q) : q \in Commands}
  BY <1>1
<1> QED
  BY <1>2 DEF Packets, Packet, ResetDone, ResetNtf, Recovered, Nothing

LEMMA TailOf ==
  ASSUME NEW S, NEW s \in Seq(S), s # <<>>
  PROVE  /\ Head(s) = s[1] /\ Head(s) \in S
         /\ Tail(s) \in Seq(S)
         /\ Len(s) \in Nat \ {0}
         /\ Len(Tail(s)) = Len(s) - 1
         /\ \A i \in 1 .. Len(Tail(s)) : Tail(s)[i] = s[i + 1]
  OBVIOUS

LEMMA SingleOf ==
  ASSUME NEW S, NEW s \in Seq(S), Len(s) = 1
  PROVE  s # <<>> /\ Head(s) = s[1] /\ Tail(s) = <<>>
PROOF
<1>1. s # <<>>
  OBVIOUS
<1> DEFINE t == Tail(s)
<1>2. t \in Seq(S) /\ Len(t) = 0
  BY <1>1, TailOf
<1>3. Head(s) = s[1]
  BY <1>1, TailOf
<1> HIDE DEF t
<1>4. t = <<>>
  BY <1>2
<1> QED
  BY <1>1, <1>3, <1>4 DEF t

LEMMA AppendOf ==
  ASSUME NEW S, NEW s \in Seq(S), NEW x \in S
  PROVE  /\ Append(s, x) \in Seq(S)
         /\ Append(s, x) # <<>>
         /\ Len(s) \in Nat
         /\ Len(Append(s, x)) = Len(s) + 1
         /\ \A i \in 1 .. Len(s) : Append(s, x)[i] = s[i]
         /\ Append(s, x)[Len(s) + 1] = x
  OBVIOUS

LEMMA PairOf ==
  ASSUME NEW S, NEW s \in Seq(S), NEW x \in S, NEW y \in S
  PROVE  /\ s \o <<x, y>> \in Seq(S)
         /\ s \o <<x, y>> # <<>>
         /\ Len(s) \in Nat
         /\ Len(s \o <<x, y>>) = Len(s) + 2
         /\ \A i \in 1 .. Len(s) : (s \o <<x, y>>)[i] = s[i]
         /\ (s \o <<x, y>>)[Len(s) + 1] = x
         /\ (s \o <<x, y>>)[Len(s) + 2] = y
  OBVIOUS

LEMMA HasTail ==
  ASSUME NEW S, NEW s \in Seq(S), NEW x, Has(s, x)
  PROVE  s # <<>> /\ (Head(s) # x => Has(Tail(s), x))
PROOF
<1>1. PICK i \in 1 .. Len(s) : s[i] = x
  BY DEF Has
<1>2. s # <<>>
  BY <1>1
<1>3. ASSUME Head(s) # x
      PROVE  Has(Tail(s), x)
  <2>1. i # 1 /\ i - 1 \in 1 .. Len(Tail(s)) /\ (i - 1) + 1 = i
    BY <1>1, <1>2, <1>3, TailOf
  <2>2. Tail(s)[i - 1] = s[(i - 1) + 1]
    BY <2>1, <1>2, TailOf
  <2>3. Tail(s)[i - 1] = x
    BY <2>1, <2>2, <1>1
  <2> QED
    BY <2>1, <2>3 DEF Has
<1> QED
  BY <1>2, <1>3

LEMMA HasMore ==
  ASSUME NEW S, NEW s \in Seq(S), NEW x
  PROVE  /\ \A y \in S : Has(s, x) => Has(Append(s, y), x)
         /\ \A y \in S, z \in S : Has(s, x) \/ z = x => Has(s \o <<y, z>>, x)
PROOF
<1>1. ASSUME NEW y \in S, Has(s, x)
      PROVE  Has(Append(s, y), x)
  <2>1. PICK i \in 1 .. Len(s) : s[i] = x
    BY <1>1 DEF Has
  <2>2. i \in 1 .. Len(Append(s, y)) /\ Append(s, y)[i] = x
    BY <2>1, AppendOf
  <2> QED
    BY <2>2 DEF Has
<1>2. ASSUME NEW y \in S, NEW z \in S, Has(s, x)
      PROVE  Has(s \o <<y, z>>, x)
  <2>1. PICK i \in 1 .. Len(s) : s[i] = x
    BY <1>2 DEF Has
  <2>2. i \in 1 .. Len(s \o <<y, z>>) /\ (s \o <<y, z>>)[i] = x
    BY <2>1, PairOf
  <2> QED
    BY <2>2 DEF Has
<1>3. ASSUME NEW y \in S, NEW z \in S, z = x
      PROVE  Has(s \o <<y, z>>, x)
  <2>1. Len(s) + 2 \in 1 .. Len(s \o <<y, z>>) /\ (s \o <<y, z>>)[Len(s) + 2] = x
    BY <1>3, PairOf
  <2> QED
    BY <2>1 DEF Has
<1> QED
  BY <1>1, <1>2, <1>3

(* A reset adds its two packets at the end.                                  *)
LEMMA RepliesGrow ==
  ASSUME NEW s \in Seq(Packets), Replies(s), s # <<>> => s[1] = ResetDone,
         NEW n \in Notices
  PROVE  LET t == s \o <<ResetDone, n>>
         IN  Replies(t) /\ t # <<>> /\ t[1] = ResetDone
PROOF
<1> DEFINE t == s \o <<ResetDone, n>>
<1>1. n \in Packets /\ ResetDone \in Packets /\ n # ResetDone
  BY PacketTypes DEF Notices
<1>2. /\ t \in Seq(Packets) /\ t # <<>> /\ Len(s) \in Nat /\ Len(t) = Len(s) + 2
      /\ \A i \in 1 .. Len(s) : t[i] = s[i]
      /\ t[Len(s) + 1] = ResetDone /\ t[Len(s) + 2] = n
  BY <1>1, PairOf
<1>3. s = <<>> <=> Len(s) = 0
  OBVIOUS
<1> HIDE DEF t
<1>4. \A i \in 1 .. Len(t) : t[i] \in {ResetDone} \cup Notices
  <2> TAKE i \in 1 .. Len(t)
  <2>1. i \in 1 .. Len(s) \/ i = Len(s) + 1 \/ i = Len(s) + 2
    BY <1>2
  <2> QED
    BY <1>2, <2>1 DEF Replies
<1>5. \A i \in 1 .. Len(t) - 1 : t[i] = ResetDone <=> t[i + 1] # ResetDone
  <2> TAKE i \in 1 .. Len(t) - 1
  <2>1. CASE i \in 1 .. Len(s) - 1
    BY <1>2, <2>1 DEF Replies
  <2>2. CASE i = Len(s) /\ Len(s) # 0
    <3>1. i \in 1 .. Len(s)
      BY <2>2, <1>2
    <3> QED
      BY <2>2, <3>1, <1>2, <1>3 DEF Replies
  <2>3. CASE i = Len(s) + 1
    BY <2>3, <1>1, <1>2
  <2> QED
    BY <1>2, <2>1, <2>2, <2>3
<1>6. t[1] = ResetDone
  <2>1. CASE s = <<>>
    BY <2>1, <1>2, <1>3
  <2>2. CASE s # <<>>
    BY <2>2, <1>2, <1>3
  <2> QED
    BY <2>1, <2>2
<1>7. t[Len(t)] # ResetDone
  BY <1>1, <1>2
<1> QED
  BY <1>2, <1>4, <1>5, <1>6, <1>7 DEF Replies, t

LEMMA RepliesTail ==
  ASSUME NEW s \in Seq(Packets), Replies(s), s # <<>>
  PROVE  /\ Replies(Tail(s))
         /\ Head(s) = ResetDone => Tail(s) # <<>> /\ Tail(s)[1] # ResetDone
         /\ Head(s) # ResetDone => Tail(s) = <<>> \/ Tail(s)[1] = ResetDone
         /\ Head(s) \in {ResetDone} \cup Notices
PROOF
<1> DEFINE t == Tail(s)
<1>1. /\ Head(s) = s[1] /\ t \in Seq(Packets) /\ Len(s) \in Nat \ {0} /\ Len(t) = Len(s) - 1
      /\ \A i \in 1 .. Len(t) : t[i] = s[i + 1]
  BY TailOf
<1>2. t = <<>> <=> Len(t) = 0
  BY <1>1
<1> HIDE DEF t
<1>3. Head(s) \in {ResetDone} \cup Notices
  BY <1>1 DEF Replies
<1>4. \A i \in 1 .. Len(t) : t[i] \in {ResetDone} \cup Notices
  BY <1>1 DEF Replies
<1>5. \A i \in 1 .. Len(t) - 1 : t[i] = ResetDone <=> t[i + 1] # ResetDone
  <2> TAKE i \in 1 .. Len(t) - 1
  <2>1. i + 1 \in 1 .. Len(s) - 1 /\ i \in 1 .. Len(t) /\ i + 1 \in 1 .. Len(t)
    BY <1>1
  <2> QED
    BY <1>1, <2>1 DEF Replies
<1>6. t # <<>> => t[Len(t)] # ResetDone
  <2> HAVE t # <<>>
  <2>1. Len(t) \in 1 .. Len(t) /\ Len(t) + 1 = Len(s)
    BY <1>1, <1>2
  <2> QED
    BY <1>1, <2>1 DEF Replies
<1>7. Head(s) = ResetDone => t # <<>> /\ t[1] # ResetDone
  <2> HAVE Head(s) = ResetDone
  <2>1. Len(s) # 1
    BY <1>1 DEF Replies
  <2>2. 1 \in 1 .. Len(s) - 1 /\ 1 \in 1 .. Len(t)
    BY <2>1, <1>1
  <2> QED
    BY <1>1, <1>2, <2>2 DEF Replies
<1>8. Head(s) # ResetDone => t = <<>> \/ t[1] = ResetDone
  <2>1. ASSUME t # <<>>
        PROVE  1 \in 1 .. Len(s) - 1 /\ 1 \in 1 .. Len(t)
    BY <2>1, <1>1, <1>2
  <2> QED
    BY <1>1, <2>1 DEF Replies
<1> QED
  BY <1>3, <1>4, <1>5, <1>6, <1>7, <1>8 DEF Replies, t

LEMMA NoSetOf ==
  ASSUME NEW s \in Seq(Packets)
  PROVE  /\ NoSet(s) /\ s # <<>> => Head(s).op # "set" /\ NoSet(Tail(s))
         /\ \A x \in Packets : NoSet(s) /\ x.op # "set" => NoSet(Append(s, x))
         /\ Replies(s) => NoSet(s)
PROOF
<1>1. ASSUME NoSet(s), s # <<>>
      PROVE  Head(s).op # "set" /\ NoSet(Tail(s))
  BY <1>1, TailOf DEF NoSet
<1>2. ASSUME NEW x \in Packets, NoSet(s), x.op # "set"
      PROVE  NoSet(Append(s, x))
  <2> DEFINE t == Append(s, x)
  <2>1. /\ Len(s) \in Nat /\ Len(t) = Len(s) + 1
        /\ \A i \in 1 .. Len(s) : t[i] = s[i]
        /\ t[Len(s) + 1] = x
    BY AppendOf
  <2> HIDE DEF t
  <2>2. \A i \in 1 .. Len(t) : i \in 1 .. Len(s) \/ i = Len(s) + 1
    BY <2>1
  <2>3. NoSet(t)
    BY <2>1, <2>2, <1>2 DEF NoSet
  <2> QED
    BY <2>3 DEF t
<1>3. ASSUME Replies(s)
      PROVE  NoSet(s)
  <2>1. \A x \in {ResetDone} \cup Notices : x.op # "set"
    BY DEF ResetDone, Notices, ResetNtf, Recovered, Packet
  <2> QED
    BY <1>3, <2>1 DEF Replies, NoSet
<1> QED
  BY <1>1, <1>2, <1>3

-----------------------------------------------------------------------------
(* Facts about the commands *)

LEMMA Opcodes ==
  /\ Opcode("init") = "init" /\ Opcode("standby") = "standby" /\ Opcode("read_ts") = "read_ts"
  /\ Opcode("core") = "set" /\ Opcode("extn") = "set" /\ Opcode("clk") = "set"
  /\ Opcode("tvdd") = "set" /\ Opcode("rf") = "set" /\ Opcode("write_ts") = "set"
BY DEF Opcode, SetConfig, Persistent

LEMMA Earliers ==
  /\ Earlier("clk") = {"extn"} /\ Earlier("tvdd") = {"extn", "clk"}
  /\ Earlier("rf") = {"extn", "clk", "tvdd"} /\ Earlier("write_ts") = Persistent
BY DEF Earlier

LEMMA ModeStepFinish == \A n \in 0 .. 5 : ModeStep(n) \in Finish
PROOF
<1> TAKE n \in 0 .. 5
<1> DEFINE rest == {i \in n + 1 .. Len(ModeSteps) : Applies(ModeSteps[i])}
<1>1. Len(ModeSteps) = 5 /\ DOMAIN ModeSteps = 1 .. 5
  BY DEF ModeSteps
<1>2. rest \subseteq 1 .. 5
  BY <1>1
<1>3. ModeStep(n) = IF rest = {} THEN "ready"
                    ELSE ModeSteps[CHOOSE i \in rest : \A j \in rest : i <= j]
  BY DEF ModeStep
<1> HIDE DEF rest
<1>4. ASSUME rest # {}
      PROVE  \E i \in rest : \A j \in rest : i <= j
  <2>1. CASE 1 \in rest
    BY <1>2, <2>1
  <2>2. CASE 1 \notin rest /\ 2 \in rest
    BY <1>2, <2>2
  <2>3. CASE 1 \notin rest /\ 2 \notin rest /\ 3 \in rest
    BY <1>2, <2>3
  <2>4. CASE 1 \notin rest /\ 2 \notin rest /\ 3 \notin rest /\ 4 \in rest
    BY <1>2, <2>4
  <2>5. CASE 1 \notin rest /\ 2 \notin rest /\ 3 \notin rest /\ 4 \notin rest
    <3>1. PICK i \in rest : TRUE
      BY <1>4
    <3>2. \A j \in rest : j = 5
      BY <1>2, <2>5
    <3> QED
      BY <3>1, <3>2
  <2> QED
    BY <2>1, <2>2, <2>3, <2>4, <2>5
<1>5. CASE rest = {}
  BY <1>3, <1>5 DEF Finish
<1>6. CASE rest # {}
  <2>1. (CHOOSE i \in rest : \A j \in rest : i <= j) \in DOMAIN ModeSteps
    BY <1>1, <1>2, <1>4, <1>6
  <2> QED
    BY <1>3, <1>6, <2>1 DEF Finish
<1> QED
  BY <1>5, <1>6

LEMMA Groups ==
  /\ ModeSteps[1] = "prop_act" /\ ModeSteps[2] = "map" /\ ModeSteps[3] = "routing"
  /\ ModeSteps[4] = "sel_rsp" /\ ModeSteps[5] = "llcp" /\ DOMAIN ModeSteps = 1 .. 5
  /\ Finish = {"reset2", "ntf2", "init2", "ready", "prop_act", "map", "routing", "sel_rsp", "llcp"}
  /\ Commands = Early \cup {"read_ts", "extn"} \cup Chain \cup (Finish \ {"ntf2", "ready"})
PROOF
<1>1. /\ ModeSteps[1] = "prop_act" /\ ModeSteps[2] = "map" /\ ModeSteps[3] = "routing"
      /\ ModeSteps[4] = "sel_rsp" /\ ModeSteps[5] = "llcp" /\ DOMAIN ModeSteps = 1 .. 5
  BY DEF ModeSteps
<1>2. {ModeSteps[i] : i \in 1 .. 5} = {"prop_act", "map", "routing", "sel_rsp", "llcp"}
  BY <1>1
<1>3. Finish = {"reset2", "ntf2", "init2", "ready", "prop_act", "map", "routing", "sel_rsp", "llcp"}
  BY <1>1, <1>2 DEF Finish
<1> QED
  BY <1>1, <1>3 DEF Commands, SetConfig, Persistent, Early, Chain

(* What follows each command.                                                *)
LEMMA Successors ==
  /\ After("init") = "standby" /\ After("standby") = "core" /\ After("core") = "read_ts"
  /\ After("read_ts") = (IF answer'.ts /\ ~rf_restored THEN "reset2" ELSE "extn")
  /\ After("extn") = "clk" /\ After("clk") = "tvdd" /\ After("tvdd") = "rf"
  /\ After("rf") = "write_ts" /\ After("write_ts") = "reset2"
  /\ \A p \in Finish \ {"ntf2", "ready"} : After(p) \in Finish
PROOF
<1>1. /\ After("init") = "standby" /\ After("standby") = "core" /\ After("core") = "read_ts"
      /\ After("read_ts") = (IF answer'.ts /\ ~rf_restored THEN "reset2" ELSE "extn")
      /\ After("extn") = "clk" /\ After("clk") = "tvdd" /\ After("tvdd") = "rf"
      /\ After("rf") = "write_ts" /\ After("write_ts") = "reset2"
  BY DEF After
<1>2. After("reset2") = "ntf2" /\ After("init2") = ModeStep(0)
  BY DEF After
<1>3. ASSUME NEW p \in {"prop_act", "map", "routing", "sel_rsp", "llcp"}
      PROVE  After(p) \in Finish
  <2> DEFINE n == CHOOSE k \in DOMAIN ModeSteps : ModeSteps[k] = p
  <2>1. After(p) = ModeStep(n)
    BY <1>3 DEF After
  <2>2. \E k \in DOMAIN ModeSteps : ModeSteps[k] = p
    BY <1>3, Groups
  <2>3. n \in 1 .. 5
    BY <2>2, Groups
  <2> HIDE DEF n
  <2>4. n \in 0 .. 5
    BY <2>3
  <2> QED
    BY <2>1, <2>4, ModeStepFinish
<1>4. "ntf2" \in Finish /\ ModeStep(0) \in Finish
  BY Groups, ModeStepFinish
<1> QED
  BY <1>1, <1>2, <1>3, <1>4, Groups

(* What the buffer may hold before a command.                                *)
LEMMA BufferBefore ==
  ASSUME TypeOK, NEW p \in Commands, NEW old \in Before(p)
  PROVE  /\ old \in Packets
         /\ p \in {"core", "read_ts", "extn"} \cup Chain => old = answer
PROOF
<1>1. Packet(FALSE, Opcode(p), TRUE, FALSE) \in Packets
  BY DEF Packet, Packets
<1>2. old \in Packets
  BY <1>1, PacketTypes DEF Before, TypeOK
<1>3. ASSUME p \in {"core", "read_ts", "extn"} \cup Chain
      PROVE  p \notin {"init", "standby", ModeStep(0)}
  BY <1>3, ModeStepFinish, Groups DEF Chain
<1> QED
  BY <1>2, <1>3 DEF Before

-----------------------------------------------------------------------------
(* One command and its answer *)

LEMMA Received ==
  ASSUME NEW q \in Seq(Packets), NEW heard \in BOOLEAN, NEW old \in Packets, Receive(q, heard, old)
  PROVE  /\ out' \in Seq(Packets) /\ answer' \in Packets
         /\ heard => q # <<>> /\ answer' = Head(q) /\ out' = Tail(q)
         /\ ~heard => answer' = old /\ out' = q
         /\ \A x : Has(q, x) /\ (heard => answer' # x) => Has(out', x)
PROOF
<1>1. CASE heard
  <2>1. q # <<>> /\ answer' = Head(q) /\ out' = Tail(q)
    BY <1>1 DEF Receive
  <2>2. Head(q) \in Packets /\ Tail(q) \in Seq(Packets)
    BY <2>1, TailOf
  <2> QED
    BY <1>1, <2>1, <2>2, HasTail
<1>2. CASE ~heard
  BY <1>2 DEF Receive
<1> QED
  BY <1>1, <1>2

(* Any command but the reset.                                                *)
LEMMA Exchanged ==
  ASSUME TypeOK, NEW p \in Commands, p # "reset2", NEW heard \in BOOLEAN, NEW old \in Packets,
         HostTransceive(p, heard, old)
  PROVE  /\ out' \in Seq(Packets) /\ answer' \in Packets
         /\ awake' \in BOOLEAN /\ stamp' \in BOOLEAN /\ unsent' \in BOOLEAN
         /\ ram' \subseteq Volatile /\ nvm' \subseteq Persistent /\ nvm \subseteq nvm'
         /\ stamp' => stamp \/ p = "write_ts"
         /\ notice' = notice /\ told' = told
         /\ ~heard => answer' = old
         /\ heard /\ out = <<>> =>
              /\ out' = <<>> /\ answer'.op = Opcode(p)
              /\ answer'.ts => stamp
              /\ answer'.ok /\ p \in Persistent => p \in nvm'
         /\ NoSet(out) /\ Opcode(p) # "set" => NoSet(out')
         /\ NoSet(out) /\ heard /\ answer'.op = "set" => out = <<>>
         /\ Has(out, Recovered) /\ (heard => answer' # Recovered) => Has(out', Recovered)
PROOF
<1>1. /\ out \in Seq(Packets) /\ awake \in BOOLEAN /\ stamp \in BOOLEAN /\ unsent \in BOOLEAN
      /\ ram \subseteq Volatile /\ nvm \subseteq Persistent
  BY DEF TypeOK
<1>2. CASE Refused /\ ~heard /\ answer' = old /\ UNCHANGED out
  BY <1>1, <1>2 DEF Refused
<1>3. CASE /\ \E ok \in BOOLEAN :
                /\ OnCommand(p, ok)
                /\ Receive(Append(out, Response(p, ok)), heard, old)
           /\ UNCHANGED unsent
  <2>1. PICK ok \in BOOLEAN : /\ OnCommand(p, ok)
                              /\ Receive(Append(out, Response(p, ok)), heard, old)
    BY <1>3
  <2> DEFINE r == Response(p, ok)
             q == Append(out, r)
  <2>2. r \in Packets
    BY <1>1 DEF Response, Packet, Packets
  <2>3. r.op = Opcode(p) /\ r.ok = ok /\ (r.ts => stamp)
    BY DEF Response, Packet
  <2>4. Receive(q, heard, old)
    BY <2>1
  <2> HIDE DEF r
  <2>5. /\ q \in Seq(Packets) /\ q # <<>>
        /\ out = <<>> => Head(q) = r /\ Tail(q) = <<>>
        /\ out # <<>> => Head(q) = Head(out)
    <3>1. /\ q \in Seq(Packets) /\ q # <<>> /\ Len(q) = Len(out) + 1 /\ Len(out) \in Nat
          /\ \A i \in 1 .. Len(out) : q[i] = out[i]
          /\ q[Len(out) + 1] = r
      BY <1>1, <2>2, AppendOf
    <3> HIDE DEF q
    <3>2. out = <<>> <=> Len(out) = 0
      BY <1>1
    <3>3. Head(q) = q[1] /\ Tail(q) \in Seq(Packets) /\ Len(Tail(q)) = Len(q) - 1
      BY <3>1, TailOf
    <3>4. out # <<>> => Head(out) = out[1]
      BY <1>1, TailOf
    <3>5. out = <<>> => Tail(q) = <<>>
      BY <3>1, <3>2, <3>3
    <3> QED
      BY <3>1, <3>2, <3>3, <3>4, <3>5
  <2>6. Has(out, Recovered) => Has(q, Recovered)
    BY <1>1, <2>2, HasMore
  <2>7. NoSet(out) /\ Opcode(p) # "set" => NoSet(q)
    BY <1>1, <2>2, <2>3, NoSetOf
  <2>8. NoSet(out) /\ out # <<>> => Head(out).op # "set"
    BY <1>1, NoSetOf
  <2> HIDE DEF q
  <2>9. /\ out' \in Seq(Packets) /\ answer' \in Packets
        /\ heard => q # <<>> /\ answer' = Head(q) /\ out' = Tail(q)
        /\ ~heard => answer' = old /\ out' = q
        /\ \A x : Has(q, x) /\ (heard => answer' # x) => Has(out', x)
    BY <2>4, <2>5, Received
  <2>10. /\ awake' \in BOOLEAN /\ stamp' \in BOOLEAN /\ unsent' \in BOOLEAN
         /\ ram' \subseteq Volatile /\ nvm' \subseteq Persistent /\ nvm \subseteq nvm'
         /\ stamp' => stamp \/ p = "write_ts"
         /\ notice' = notice /\ told' = told
         /\ ok /\ p \in Persistent => p \in nvm'
    BY <1>1, <1>3, <2>1 DEF OnCommand
  <2>11. heard /\ out = <<>> =>
           /\ out' = <<>> /\ answer'.op = Opcode(p)
           /\ answer'.ts => stamp
           /\ answer'.ok /\ p \in Persistent => p \in nvm'
    BY <2>3, <2>5, <2>9, <2>10
  <2>12. NoSet(out) /\ Opcode(p) # "set" => NoSet(out')
    BY <2>5, <2>7, <2>9, NoSetOf
  <2>13. NoSet(out) /\ heard /\ answer'.op = "set" => out = <<>>
    BY <2>5, <2>8, <2>9
  <2>14. Has(out, Recovered) /\ (heard => answer' # Recovered) => Has(out', Recovered)
    BY <2>6, <2>9
  <2> QED
    BY <2>9, <2>10, <2>11, <2>12, <2>13, <2>14
<1> QED
  BY <1>2, <1>3 DEF HostTransceive

(* The reset in the middle of the settings.                                  *)
LEMMA ResetExchanged ==
  ASSUME TypeOK, ~notice, NEW heard \in BOOLEAN, NEW old \in Packets,
         HostTransceive("reset2", heard, old)
  PROVE  /\ out' \in Seq(Packets) /\ answer' \in Packets
         /\ awake' \in BOOLEAN /\ unsent' \in BOOLEAN /\ ram' \subseteq Volatile
         /\ UNCHANGED <<nvm, stamp, notice, told>>
PROOF
<1>1. /\ out \in Seq(Packets) /\ awake \in BOOLEAN /\ unsent \in BOOLEAN
      /\ ram \subseteq Volatile /\ notice \in BOOLEAN /\ told \in BOOLEAN
  BY DEF TypeOK
<1>2. CASE Refused /\ ~heard /\ answer' = old /\ UNCHANGED out
  BY <1>1, <1>2 DEF Refused
<1>3. CASE OnReset(Kept) /\ Receive(out \o ResetReply, heard, old) /\ UNCHANGED unsent
  <2>1. ResetReply = <<ResetDone, ResetNtf>>
    BY DEF ResetReply, ResetDone
  <2>2. out \o ResetReply \in Seq(Packets)
    BY <1>1, <2>1, PacketTypes, PairOf
  <2>3. out' \in Seq(Packets) /\ answer' \in Packets
    BY <1>3, <2>2, Received
  <2> QED
    BY <1>1, <1>3, <2>3 DEF OnReset
<1> QED
  BY <1>2, <1>3 DEF HostTransceive

-----------------------------------------------------------------------------
(* The steps *)

(* The values of pc that are no commands.                                    *)
Places == {"off", "reset", "ntf", "ntf2", "ready", "failed"}

LEMMA InitInv == Init => IInv
PROOF
<1> SUFFICES ASSUME Init PROVE IInv
  OBVIOUS
<1>1. TypeOK
  <2>1. pc \in Commands \cup Places /\ mode \in Modes /\ tries \in 0 .. 2
    BY DEF Init, TypeOK, Places
  <2>2. answer \in Packets /\ out \in Seq(Packets)
    BY PacketTypes DEF Init, TypeOK
  <2>3. ram \subseteq Volatile /\ nvm \subseteq Persistent
    BY DEF Init, TypeOK
  <2> QED
    BY <2>1, <2>2, <2>3 DEF Init, TypeOK, Places
<1>2. Queue /\ Sent /\ Told /\ TimestampTells
  BY Groups DEF Init, Queue, Sent, Told, TimestampTells, Early, Chain
<1> QED
  BY <1>1, <1>2 DEF IInv

LEMMA BeginInv == IInv /\ Begin => IInv'
PROOF
<1> SUFFICES ASSUME IInv, Begin PROVE IInv'
  OBVIOUS
<1>1. TypeOK'
  <2>1. pc' \in Commands \cup Places /\ mode' \in Modes /\ tries' \in 0 .. 2
    BY DEF IInv, Begin, TypeOK, Places
  <2>2. answer' \in Packets /\ out' \in Seq(Packets)
    BY PacketTypes DEF IInv, Begin, TypeOK
  <2>3. ram' \subseteq Volatile /\ nvm' \subseteq Persistent
    BY DEF IInv, Begin, TypeOK
  <2> QED
    BY <2>1, <2>2, <2>3 DEF IInv, Begin, TypeOK, Places
<1>2. Queue' /\ Sent' /\ Told'
  BY Groups DEF IInv, Begin, Queue, Sent, Told, Early, Chain, Replies
<1>3. TimestampTells'
  <2>1. told /\ ~blind => "rf" \in nvm \/ forgotten
    BY Groups DEF IInv, Begin, Sent, Told
  <2> QED
    BY <2>1 DEF IInv, Begin, TimestampTells
<1> QED
  BY <1>1, <1>2, <1>3 DEF IInv

LEMMA CheckDevPresInv == IInv /\ CheckDevPres => IInv'
PROOF
<1> SUFFICES ASSUME IInv, CheckDevPres PROVE IInv'
  OBVIOUS
<1>1. /\ TypeOK /\ pc = "reset" /\ Replies(out) /\ (out # <<>> => out[1] = ResetDone)
      /\ told => Has(out, Recovered)
  BY DEF IInv, Queue, Told, CheckDevPres
<1>2. /\ rf_restored' = FALSE
      /\ UNCHANGED <<mode, calm, unsent, blind>>
  BY DEF CheckDevPres
<1>3. CASE ~calm /\ answer' = Nothing /\ UNCHANGED <<ctlVars, told>> /\ Retry
  <2>1. TypeOK'
    <3>1. pc' \in Commands \cup Places /\ mode' \in Modes /\ tries' \in 0 .. 2
      BY <1>1, <1>2, <1>3 DEF TypeOK, Retry, Fails, ctlVars, Places
    <3>2. answer' \in Packets /\ out' \in Seq(Packets)
      BY <1>1, <1>2, <1>3, PacketTypes DEF TypeOK, Retry, Fails, ctlVars
    <3>3. ram' \subseteq Volatile /\ nvm' \subseteq Persistent
      BY <1>1, <1>2, <1>3 DEF TypeOK, Retry, Fails, ctlVars
    <3> QED
      BY <3>1, <3>2, <3>3, <1>1, <1>2, <1>3 DEF TypeOK, Retry, Fails, ctlVars, Places
  <2>2. Queue' /\ Sent'
    BY <1>1, <1>2, <1>3, Groups DEF Queue, Sent, Retry, Fails, ctlVars, Early, Chain
  <2>3. Told'
    BY <1>1, <1>2, <1>3, Groups DEF Told, Retry, Fails, ctlVars, Early
  <2>4. TimestampTells'
    <3>1. forgotten => forgotten'
      BY <1>1, <1>3 DEF TypeOK, Retry, Fails
    <3> QED
      BY <1>2, <1>3, <3>1 DEF IInv, TimestampTells, ctlVars
  <2> QED
    BY <2>1, <2>2, <2>3, <2>4 DEF IInv
<1>4. ASSUME OnReset({}),
             NEW heard \in BOOLEAN, Receive(out \o ResetReply, heard, Nothing),
             IF answer'.op = "reset" /\ ~answer'.ntf
             THEN pc' = "ntf" /\ UNCHANGED <<tries, forgotten>>
             ELSE Retry
      PROVE  IInv'
  <2> DEFINE n == IF notice THEN Recovered ELSE ResetNtf
             q == out \o <<ResetDone, n>>
  <2>1. ResetReply = <<ResetDone, n>> /\ n \in Notices /\ n \in Packets /\ ResetDone \in Packets
    BY PacketTypes DEF ResetReply, ResetDone, Notices
  <2>2. out \in Seq(Packets) /\ q \in Seq(Packets) /\ q # <<>>
    BY <1>1, <2>1, PairOf DEF TypeOK
  <2>3. Replies(q) /\ q[1] = ResetDone
    BY <1>1, <2>1, <2>2, RepliesGrow
  <2>4. told' => Has(q, Recovered)
    BY <1>1, <1>4, <2>1, <2>2, HasMore DEF OnReset
  <2>5. Receive(q, heard, Nothing)
    BY <1>4, <2>1
  <2> HIDE DEF q, n
  <2>6. /\ out' \in Seq(Packets) /\ answer' \in Packets
        /\ heard => answer' = Head(q) /\ out' = Tail(q)
        /\ ~heard => answer' = Nothing /\ out' = q
        /\ Has(q, Recovered) /\ (heard => answer' # Recovered) => Has(out', Recovered)
    BY <2>2, <2>5, PacketTypes, Received
  <2>7. Head(q) = ResetDone
    BY <2>2, <2>3, TailOf
  <2>8. told' => Has(out', Recovered)
    BY <2>4, <2>6, <2>7, PacketTypes
  <2>9. CASE heard
    <3>1. pc' = "ntf" /\ UNCHANGED <<tries, forgotten>>
      BY <1>4, <2>6, <2>7, <2>9 DEF ResetDone, Packet
    <3>2. Replies(out') /\ out' # <<>> /\ out'[1] # ResetDone
      BY <2>2, <2>3, <2>6, <2>7, <2>9, RepliesTail
    <3>3. TypeOK'
      BY <1>1, <1>2, <1>4, <2>6, <3>1 DEF TypeOK, OnReset
    <3>4. Queue' /\ Sent' /\ Told' /\ TimestampTells'
      BY <1>1, <1>2, <1>4, <2>8, <3>1, <3>2, Groups
      DEF IInv, Queue, Sent, Told, TimestampTells, OnReset, Early, Chain
    <3> QED
      BY <3>3, <3>4 DEF IInv
  <2>10. CASE ~heard
    <3>1. Retry
      BY <1>4, <2>6, <2>10 DEF Nothing, Packet
    <3>2. TypeOK'
      <4>1. pc' \in Commands \cup Places /\ mode' \in Modes /\ tries' \in 0 .. 2
        BY <1>1, <1>2, <1>4, <2>6, <3>1 DEF TypeOK, OnReset, Retry, Fails, Places
      <4>2. answer' \in Packets /\ out' \in Seq(Packets)
        BY <1>1, <1>2, <1>4, <2>6, <3>1, PacketTypes DEF TypeOK, OnReset, Retry, Fails
      <4>3. ram' \subseteq Volatile /\ nvm' \subseteq Persistent
        BY <1>1, <1>2, <1>4, <2>6, <3>1 DEF TypeOK, OnReset, Retry, Fails
      <4> QED
        BY <4>1, <4>2, <4>3, <1>1, <1>2, <1>4, <2>6, <3>1 DEF TypeOK, OnReset, Retry, Fails, Places
    <3>3. Queue' /\ Sent' /\ Told' /\ TimestampTells'
      BY <1>1, <1>2, <1>4, <2>3, <2>6, <2>8, <2>10, <3>1, Groups
      DEF IInv, Queue, Sent, Told, TimestampTells, OnReset, Retry, Fails, Early, Chain
    <3> QED
      BY <3>2, <3>3 DEF IInv
  <2> QED
    BY <2>9, <2>10
<1> QED
  BY <1>3, <1>4 DEF CheckDevPres

LEMMA CatchNtfInv == IInv /\ CatchNtf => IInv'
PROOF
<1> SUFFICES ASSUME IInv, CatchNtf PROVE IInv'
  OBVIOUS
<1>1. /\ TypeOK /\ pc = "ntf" /\ Replies(out) /\ out # <<>> /\ out[1] # ResetDone
      /\ told => Has(out, Recovered)
  BY DEF IInv, Queue, Told, CatchNtf
<1>2. PICK heard \in BOOLEAN : Receive(out, heard, Nothing)
  BY DEF CatchNtf
<1>3. /\ UNCHANGED <<mode, awake, ram, nvm, stamp, notice, calm, unsent, blind, told>>
      /\ rf_restored' = (answer' = Recovered)
  BY DEF CatchNtf
<1>4. out \in Seq(Packets)
  BY <1>1 DEF TypeOK
<1>5. /\ out' \in Seq(Packets) /\ answer' \in Packets
      /\ heard => answer' = Head(out) /\ out' = Tail(out)
      /\ ~heard => answer' = Nothing /\ out' = out
      /\ Has(out, Recovered) /\ (heard => answer' # Recovered) => Has(out', Recovered)
  BY <1>2, <1>4, PacketTypes, Received
<1>6. Head(out) = out[1] /\ Head(out) \in Notices
  BY <1>1, <1>4, RepliesTail, TailOf
<1>7. pc' = "init" /\ UNCHANGED <<tries, forgotten>>
  <2>1. answer' \in {Nothing, Recovered, ResetNtf}
    BY <1>5, <1>6 DEF Notices
  <2> QED
    BY <2>1 DEF CatchNtf
<1>8. NoSet(out')
  BY <1>1, <1>4, <1>5, NoSetOf
<1>9. TypeOK'
  <2>1. pc' \in Commands \cup Places /\ mode' \in Modes /\ tries' \in 0 .. 2
    BY <1>1, <1>3, <1>7 DEF TypeOK, Places, Commands
  <2>2. answer' \in Packets /\ out' \in Seq(Packets)
    BY <1>1, <1>3, <1>5, <1>7, PacketTypes DEF TypeOK
  <2>3. ram' \subseteq Volatile /\ nvm' \subseteq Persistent
    BY <1>1, <1>3, <1>5, <1>7 DEF TypeOK
  <2> QED
    BY <2>1, <2>2, <2>3, <1>1, <1>3, <1>5, <1>7 DEF TypeOK, Places
<1>10. Queue' /\ Sent' /\ TimestampTells'
  BY <1>1, <1>3, <1>7, <1>8, Groups DEF IInv, Queue, Sent, TimestampTells, Early, Chain
<1>11. Told'
  BY <1>1, <1>3, <1>5, <1>7, Groups DEF IInv, Told, Early
<1> QED
  BY <1>9, <1>10, <1>11 DEF IInv

LEMMA CatchSecondNtfInv == IInv /\ CatchSecondNtf => IInv'
PROOF
<1> SUFFICES ASSUME IInv, CatchSecondNtf PROVE IInv'
  OBVIOUS
<1>1. PICK heard \in BOOLEAN : Receive(out, heard, answer)
  BY DEF CatchSecondNtf
<1>2. out' \in Seq(Packets) /\ answer' \in Packets
  BY <1>1, Received DEF IInv, TypeOK
<1>3. TypeOK'
  BY <1>2 DEF IInv, TypeOK, CatchSecondNtf, histVars, Commands
<1>4. Queue' /\ Sent' /\ Told' /\ TimestampTells'
  BY Groups DEF IInv, Queue, Sent, Told, TimestampTells, CatchSecondNtf, histVars, Early, Chain
<1> QED
  BY <1>3, <1>4 DEF IInv

LEMMA EnvironmentInv == IInv /\ (PowerLoss \/ NewBuild \/ CalmsDown) => IInv'
PROOF
<1>1. ASSUME IInv, PowerLoss
      PROVE  IInv'
  <2>1. TypeOK'
    <3>1. pc' \in Commands \cup Places /\ mode' \in Modes /\ tries' \in 0 .. 2
      BY <1>1 DEF IInv, TypeOK, PowerLoss, Places
    <3>2. answer' \in Packets /\ out' \in Seq(Packets)
      BY <1>1, PacketTypes DEF IInv, TypeOK, PowerLoss
    <3>3. ram' \subseteq Volatile /\ nvm' \subseteq Persistent
      BY <1>1 DEF IInv, TypeOK, PowerLoss
    <3> QED
      BY <3>1, <3>2, <3>3, <1>1 DEF IInv, TypeOK, PowerLoss, Places
  <2>2. Queue' /\ Sent' /\ Told'
    BY <1>1, Groups DEF IInv, PowerLoss, Queue, Sent, Told, Early, Chain
  <2>3. TimestampTells'
    <3>1. pc = "write_ts" /\ ~blind => Persistent \subseteq nvm
      BY <1>1, Earliers DEF IInv, Sent, Chain
    <3> QED
      BY <1>1, <3>1 DEF IInv, PowerLoss, TimestampTells, Persistent
  <2> QED
    BY <2>1, <2>2, <2>3 DEF IInv
<1>2. ASSUME IInv, NewBuild
      PROVE  IInv'
  <2>1. TypeOK'
    BY <1>2 DEF IInv, TypeOK, NewBuild, hostVars
  <2>2. Queue' /\ Sent' /\ Told' /\ TimestampTells'
    BY <1>2, Groups
    DEF IInv, NewBuild, hostVars, Queue, Sent, Told, TimestampTells, Early, Chain
  <2> QED
    BY <2>1, <2>2 DEF IInv
<1>3. ASSUME IInv, CalmsDown
      PROVE  IInv'
  <2>1. TypeOK'
    BY <1>3 DEF IInv, TypeOK, CalmsDown, hostVars, ctlVars, histVars
  <2>2. Queue' /\ Sent' /\ Told' /\ TimestampTells'
    BY <1>3 DEF IInv, CalmsDown, hostVars, ctlVars, histVars, Queue, Sent, Told, TimestampTells
  <2> QED
    BY <2>1, <2>2 DEF IInv
<1> QED
  BY <1>1, <1>2, <1>3

(* The steps of Transceive, in groups of commands.                           *)
LEMMA TransceiveType ==
  ASSUME IInv, NEW p \in Commands, NEW heard \in BOOLEAN, NEW old \in Before(p), pc = p,
         HostTransceive(p, heard, old),
         pc' \in Commands \cup Places, forgotten' \in BOOLEAN, blind' \in BOOLEAN,
         UNCHANGED <<mode, tries, rf_restored, calm>>
  PROVE  TypeOK'
PROOF
<1>1. TypeOK /\ ~notice
  BY Groups DEF IInv, Told, Early, Chain
<1>2. old \in Packets
  BY <1>1, BufferBefore
<1>3. /\ out' \in Seq(Packets) /\ answer' \in Packets
      /\ ram' \subseteq Volatile /\ nvm' \subseteq Persistent
      /\ awake' \in BOOLEAN /\ stamp' \in BOOLEAN /\ unsent' \in BOOLEAN
      /\ notice' = notice /\ told' = told
  <2>1. CASE p # "reset2"
    BY <1>1, <1>2, <2>1, Exchanged
  <2>2. CASE p = "reset2"
    BY <1>1, <1>2, <2>2, ResetExchanged DEF TypeOK
  <2> QED
    BY <2>1, <2>2
<1>4. mode' \in Modes /\ tries' \in 0 .. 2
  BY <1>1 DEF TypeOK
<1> QED
  BY <1>1, <1>3, <1>4 DEF TypeOK, Places

LEMMA TransceiveInv ==
  ASSUME IInv, NEW p \in Commands, Transceive(p)
  PROVE  IInv'
PROOF
<1>1. PICK heard \in BOOLEAN, old \in Before(p) :
        /\ pc = p
        /\ HostTransceive(p, heard, old)
        /\ IF Accepted(p)
           THEN pc' = After(p) /\ forgotten' = (forgotten /\ "rf" \notin nvm')
           ELSE Fails
        /\ blind' = (~(Persistent \subseteq nvm') /\ (blind \/ (p \in Persistent /\ ~heard /\ pc' # "failed")))
        /\ UNCHANGED <<mode, tries, rf_restored, calm>>
  BY DEF Transceive
<1>2. TypeOK /\ Queue /\ Sent /\ Told /\ TimestampTells /\ ~notice
  BY <1>1, Groups DEF IInv, Told, Early, Chain
<1>3. old \in Packets /\ (p \in {"core", "read_ts", "extn"} \cup Chain => old = answer)
  BY <1>2, BufferBefore
<1>4. /\ blind \in BOOLEAN /\ forgotten \in BOOLEAN /\ told \in BOOLEAN /\ stamp \in BOOLEAN
      /\ rf_restored \in BOOLEAN /\ notice \in BOOLEAN /\ nvm \subseteq Persistent
  BY <1>2 DEF TypeOK
<1>5. /\ nvm \subseteq nvm' /\ nvm' \subseteq Persistent
      /\ stamp' => stamp \/ p = "write_ts"
      /\ notice' = notice /\ told' = told
  <2>1. CASE p # "reset2"
    BY <1>1, <1>2, <1>3, <2>1, Exchanged
  <2>2. CASE p = "reset2"
    BY <1>1, <1>2, <1>3, <1>4, <2>2, ResetExchanged
  <2> QED
    BY <2>1, <2>2
<1>6. /\ Accepted(p) => pc' = After(p) /\ forgotten' = (forgotten /\ "rf" \notin nvm')
      /\ ~Accepted(p) => pc' = "failed" /\ forgotten' = (forgotten \/ (told' /\ "rf" \notin nvm'))
  BY <1>1 DEF Fails
<1>7. forgotten => forgotten' \/ "rf" \in nvm'
  BY <1>6, <1>4
<1>8. ~blind' => ~blind \/ nvm' = Persistent
  BY <1>1, <1>4, <1>5
<1>9. TimestampTells'
  <2>1. CASE nvm' = Persistent
    BY <2>1 DEF TimestampTells, Persistent
  <2>2. ASSUME stamp, ~blind
        PROVE  /\ Persistent \ {"rf"} \subseteq nvm'
               /\ "rf" \in nvm' \/ notice' \/ told' \/ forgotten'
    BY <1>2, <1>5, <1>7, <2>2 DEF TimestampTells
  <2>3. ASSUME p = "write_ts", ~blind
        PROVE  nvm' = Persistent
    <3>1. nvm = Persistent \/ Earlier("write_ts") \subseteq nvm
      BY <1>1, <1>2, <2>3 DEF Sent, Chain
    <3> QED
      BY <1>4, <1>5, <3>1, Earliers
  <2> QED
    BY <1>5, <1>8, <2>1, <2>2, <2>3 DEF TimestampTells
<1>10. pc' \in Commands \cup Places
  <2>1. CASE Accepted(p)
    BY <1>6, <2>1, Successors, Groups DEF Places, Early, Chain
  <2>2. CASE ~Accepted(p)
    BY <1>6, <2>2 DEF Places
  <2> QED
    BY <2>1, <2>2
<1>11. TypeOK'
  <2>1. forgotten' \in BOOLEAN /\ blind' \in BOOLEAN
    BY <1>1, <1>6
  <2> QED
    BY <1>1, <1>10, <2>1, TransceiveType
<1>12. CASE ~Accepted(p)
  <2>1. Queue' /\ Sent'
    BY <1>6, <1>12, Groups DEF Queue, Sent, Early, Chain
  <2>2. Told'
    BY <1>6, <1>12 DEF Told, Early
  <2> QED
    BY <1>9, <1>11, <2>1, <2>2 DEF IInv
<1>13. CASE Accepted(p) /\ p \in Finish
  <2>1. pc' \in Finish
    BY <1>6, <1>13, Successors, Groups DEF Early, Chain
  <2>2. Queue' /\ Told'
    BY <1>2, <1>4, <1>5, <2>1, Groups DEF Queue, Told, Early
  <2>3. ~blind' => Persistent \ {"rf"} \subseteq nvm' /\ ("rf" \in nvm' \/ (forgotten' /\ ~told'))
    <3>1. CASE nvm' = Persistent
      BY <3>1 DEF Persistent
    <3>2. CASE ~blind
      BY <1>1, <1>2, <1>5, <1>7, <1>13, <3>2 DEF Sent
    <3> QED
      BY <1>8, <3>1, <3>2
  <2>4. Sent'
    BY <2>1, <2>3, Groups DEF Sent, Chain
  <2> QED
    BY <1>9, <1>11, <2>2, <2>4 DEF IInv
<1>14. CASE Accepted(p) /\ p \in {"extn"} \cup Chain
  <2>1. /\ p = "extn" => pc' = "clk"
        /\ p = "clk" => pc' = "tvdd"
        /\ p = "tvdd" => pc' = "rf"
        /\ p = "rf" => pc' = "write_ts"
        /\ p = "write_ts" => pc' = "reset2"
    BY <1>6, <1>14, Successors
  <2>2. p = "extn" \/ p = "clk" \/ p = "tvdd" \/ p = "rf" \/ p = "write_ts"
    BY <1>14 DEF Chain
  <2>3. Queue' /\ Told'
    BY <1>2, <1>4, <1>5, <2>1, <2>2, Groups DEF Queue, Told, Early
  <2>4. ASSUME ~blind', p # "write_ts"
        PROVE  nvm' = Persistent \/ (out' = <<>> /\ Earlier(pc') \subseteq nvm')
    <3>1. CASE nvm' = Persistent
      BY <3>1
    <3>2. CASE ~blind /\ nvm' # Persistent
      <4>1. p \in Persistent /\ p # "reset2"
        BY <2>2, <2>4 DEF Persistent
      <4>2. heard
        BY <1>1, <1>4, <1>5, <1>6, <2>1, <2>2, <2>4, <3>2, <4>1
      <4>3. out = <<>> /\ (p # "extn" => Earlier(p) \subseteq nvm)
        BY <1>1, <1>2, <1>4, <1>5, <2>2, <2>4, <3>2 DEF Queue, Sent, Chain
      <4>4. answer'.ok
        BY <1>14 DEF Accepted
      <4>5. out' = <<>> /\ p \in nvm'
        BY <1>1, <1>2, <1>3, <4>1, <4>2, <4>3, <4>4, Exchanged
      <4>6. Earlier(pc') \subseteq nvm'
        <5>1. CASE p = "extn"
          BY <2>1, <4>5, <5>1, Earliers
        <5>2. CASE p = "clk"
          BY <1>5, <2>1, <4>3, <4>5, <5>2, Earliers
        <5>3. CASE p = "tvdd"
          BY <1>5, <2>1, <4>3, <4>5, <5>3, Earliers
        <5>4. CASE p = "rf"
          BY <1>5, <2>1, <4>3, <4>5, <5>4, Earliers DEF Persistent
        <5> QED
          BY <2>2, <2>4, <5>1, <5>2, <5>3, <5>4
      <4> QED
        BY <4>5, <4>6
    <3> QED
      BY <1>8, <2>4, <3>1, <3>2
  <2>5. ASSUME ~blind', p = "write_ts"
        PROVE  nvm' = Persistent
    <3>1. CASE ~blind
      <4>1. nvm = Persistent \/ Earlier("write_ts") \subseteq nvm
        BY <1>1, <1>2, <2>5, <3>1 DEF Sent, Chain
      <4> QED
        BY <1>4, <1>5, <4>1, Earliers
    <3> QED
      BY <1>8, <2>5, <3>1
  <2>6. Sent'
    <3>1. CASE p = "write_ts"
      BY <2>1, <2>5, <3>1, Groups DEF Sent, Chain, Persistent
    <3>2. CASE p # "write_ts"
      BY <2>1, <2>2, <2>4, <3>2, Groups DEF Sent
    <3> QED
      BY <3>1, <3>2
  <2> QED
    BY <1>9, <1>11, <2>3, <2>6 DEF IInv
<1>15. CASE Accepted(p) /\ p \in Early \cup {"read_ts"}
  <2>1. p # "reset2" /\ p \notin Persistent
    BY <1>15 DEF Early, Persistent
  <2>2. /\ ~heard => answer' = old
        /\ heard /\ out = <<>> =>
             out' = <<>> /\ answer'.op = Opcode(p) /\ (answer'.ts => stamp)
        /\ NoSet(out) /\ Opcode(p) # "set" => NoSet(out')
        /\ NoSet(out) /\ heard /\ answer'.op = "set" => out = <<>>
        /\ Has(out, Recovered) /\ (heard => answer' # Recovered) => Has(out', Recovered)
    BY <1>1, <1>2, <1>3, <2>1, Exchanged
  <2>3. answer'.op = Opcode(p) /\ answer' # Recovered
    BY <1>15 DEF Accepted, Recovered, Packet
  <2>4. ~blind' => ~blind \/ nvm' = Persistent
    BY <1>8
  <2>5. CASE p = "init" \/ p = "standby"
    <3>1. pc' = IF p = "init" THEN "standby" ELSE "core"
      BY <1>6, <1>15, <2>5, Successors
    <3>2. NoSet(out) /\ (told => rf_restored \/ Has(out, Recovered))
      BY <1>1, <1>2, <2>5 DEF Queue, Told, Early
    <3>3. NoSet(out') /\ (p = "standby" => answer'.op # "set")
      BY <2>2, <2>3, <2>5, <3>2, Opcodes
    <3>4. told' => rf_restored' \/ Has(out', Recovered)
      BY <1>1, <1>5, <2>2, <2>3, <3>2
    <3>5. Queue' /\ Sent'
      BY <2>5, <3>1, <3>3, Groups DEF Queue, Sent, Early, Chain
    <3>6. Told'
      BY <1>2, <1>5, <3>1, <3>4 DEF Told, Early
    <3> QED
      BY <1>9, <1>11, <3>5, <3>6 DEF IInv
  <2>6. CASE p = "core"
    <3>1. pc' = "read_ts" /\ answer'.op = "set"
      BY <1>6, <1>15, <2>3, <2>6, Successors, Opcodes
    <3>2. NoSet(out) /\ answer.op # "set" /\ (told => rf_restored \/ Has(out, Recovered))
      BY <1>1, <1>2, <2>6 DEF Queue, Told, Early
    <3>3. heard /\ out = <<>>
      BY <1>3, <2>2, <2>6, <3>1, <3>2
    <3>4. out' = <<>>
      BY <2>2, <3>3
    <3>5. ~Has(out, Recovered)
      BY <3>3 DEF Has
    <3>6. Queue' /\ Sent'
      BY <3>1, <3>4, Groups DEF Queue, Sent, Early, Chain
    <3>7. Told'
      BY <1>1, <1>2, <1>5, <3>1, <3>2, <3>5 DEF Told, Early
    <3> QED
      BY <1>9, <1>11, <3>6, <3>7 DEF IInv
  <2>7. CASE p = "read_ts"
    <3>1. out = <<>> /\ answer.op = "set" /\ (told => rf_restored)
      BY <1>1, <1>2, <2>7 DEF Queue, Told
    <3>2. answer'.op = "read_ts"
      BY <2>3, <2>7, Opcodes
    <3>3. heard
      BY <1>3, <2>2, <2>7, <3>1, <3>2
    <3>4. out' = <<>> /\ (answer'.ts => stamp)
      BY <2>2, <3>1, <3>3
    <3>5. pc' = IF answer'.ts /\ ~rf_restored THEN "reset2" ELSE "extn"
      BY <1>6, <1>15, <2>7, Successors
    <3>6. CASE pc' = "extn"
      <4>1. Queue' /\ Sent'
        BY <3>2, <3>4, <3>6, Groups DEF Queue, Sent, Early, Chain
      <4>2. Told'
        BY <1>2, <1>5, <3>6 DEF Told, Early
      <4> QED
        BY <1>9, <1>11, <4>1, <4>2 DEF IInv
    <3>7. CASE pc' = "reset2"
      <4>1. stamp /\ ~told
        BY <3>1, <3>4, <3>5, <3>7
      <4>2. ~blind' => Persistent \ {"rf"} \subseteq nvm' /\ ("rf" \in nvm' \/ (forgotten' /\ ~told'))
        <5>1. CASE nvm' = Persistent
          BY <5>1 DEF Persistent
        <5>2. CASE ~blind
          <6>1. Persistent \ {"rf"} \subseteq nvm /\ ("rf" \in nvm \/ forgotten)
            BY <1>2, <4>1, <5>2 DEF TimestampTells
          <6> QED
            BY <1>5, <1>7, <4>1, <6>1
        <5> QED
          BY <1>8, <5>1, <5>2
      <4>3. Queue' /\ Told'
        BY <1>2, <1>5, <3>7, Groups DEF Queue, Told, Early
      <4>4. Sent'
        BY <3>7, <4>2 DEF Sent, Chain
      <4> QED
        BY <1>9, <1>11, <4>3, <4>4 DEF IInv
    <3> QED
      BY <3>5, <3>6, <3>7
  <2> QED
    BY <1>15, <2>5, <2>6, <2>7 DEF Early
<1> QED
  BY <1>12, <1>13, <1>14, <1>15, Groups

LEMMA NextInv == IInv /\ [Next]_vars => IInv'
PROOF
<1> SUFFICES ASSUME IInv, [Next]_vars PROVE IInv'
  OBVIOUS
<1>1. CASE \E p \in Commands : Transceive(p)
  BY <1>1, TransceiveInv
<1>2. CASE UNCHANGED vars
  <2>1. TypeOK'
    BY <1>2 DEF IInv, TypeOK, vars, hostVars, ctlVars, histVars
  <2>2. Queue' /\ Sent' /\ Told' /\ TimestampTells'
    BY <1>2 DEF IInv, vars, hostVars, ctlVars, histVars, Queue, Sent, Told, TimestampTells
  <2> QED
    BY <2>1, <2>2 DEF IInv
<1> QED
  BY <1>1, <1>2, BeginInv, CheckDevPresInv, CatchNtfInv, CatchSecondNtfInv, EnvironmentInv
  DEF Next, Setup, Connect

-----------------------------------------------------------------------------
(* A set-up that reports success *)

Without(s, op) == \A i \in 1 .. Len(s) : s[i].op # op

ModeCommands == {ModeSteps[i] : i \in DOMAIN ModeSteps}
Settings     == {"extn"} \cup Chain
Late         == ModeCommands \cup {"ready"}

(* The commands of CORE_RESET to CORE_INIT: nothing in the queue can be      *)
(* taken for the answer to come, and the standby mode is on if its answer    *)
(* has been read.                                                            *)
Started ==
  /\ pc \in {"init", "standby"} => Without(out, "standby")
  /\ pc = "core" => "standby" \in ram \/ unsent \/ out # <<>>
  /\ pc \in {"read_ts", "reset2", "ntf2", "init2"} \cup Settings \cup Late => Kept \subseteq ram \/ unsent
  /\ pc \in Settings \cup {"reset2"} => Without(out, "reset") /\ answer.op # "reset"
  /\ pc = "ntf2" => out # <<>> /\ Tail(out) = <<>> /\ Head(out) \in Notices /\ answer.op = "reset"
  /\ pc = "init2" => answer.op # "init" /\ (out # <<>> => Head(out) \in Notices)
  /\ pc \in Late => awake

(* The first command of the mode may have been taken for granted, but then   *)
(* its answer is still in the queue and the next command finds it there.     *)
Follows(p) == \/ out = <<>> /\ (p \in ram \/ unsent)
              \/ out # <<>> /\ Head(out).op = p

(* Each command of the mode finds the commands before it in effect.          *)
InMode ==
  /\ pc = "prop_act" => mode = {"rw"} /\ out = <<>>
  /\ pc = "map" => mode # {} /\ IF mode = {"rw"} THEN Follows("prop_act") /\ answer.op = "prop_act"
                                ELSE out = <<>>
  /\ pc \in {"routing", "sel_rsp"} => mode \cap {"cardemu", "p2p"} # {}
  /\ pc = "routing" => Follows("map") /\ answer.op = "map"
  /\ pc = "sel_rsp" => out = <<>> /\ answer.op = "routing" /\ ({"map", "routing"} \subseteq ram \/ unsent)
  /\ pc = "llcp" => "p2p" \in mode /\ ({"map", "routing", "sel_rsp"} \subseteq ram \/ unsent)
  /\ pc = "ready" => /\ "p2p" \notin mode => out = <<>>
                     /\ Needed \subseteq ram \cup {"llcp"} \/ unsent

SetUpInv == Started /\ InMode

LEMMA SetUpGroups ==
  /\ ModeCommands = {"prop_act", "map", "routing", "sel_rsp", "llcp"}
  /\ Settings = {"extn", "clk", "tvdd", "rf", "write_ts"}
  /\ Late = {"prop_act", "map", "routing", "sel_rsp", "llcp", "ready"}
  /\ Kept = {"standby", "core"}
  /\ Volatile = {"standby", "core", "prop_act", "map", "routing", "sel_rsp", "llcp"}
  /\ Opcode("prop_act") = "prop_act" /\ Opcode("map") = "map" /\ Opcode("routing") = "routing"
  /\ Opcode("sel_rsp") = "set" /\ Opcode("llcp") = "set" /\ Opcode("reset2") = "reset"
  /\ Opcode("init2") = "init"
PROOF
<1>1. ModeCommands = {ModeSteps[1], ModeSteps[2], ModeSteps[3], ModeSteps[4], ModeSteps[5]}
  BY DEF ModeCommands, ModeSteps
<1>2. ModeCommands = {"prop_act", "map", "routing", "sel_rsp", "llcp"}
  BY <1>1, Groups
<1>3. Volatile = Kept \cup ModeCommands
  BY DEF Volatile, ModeCommands
<1>4. /\ Opcode("prop_act") = "prop_act" /\ Opcode("map") = "map" /\ Opcode("routing") = "routing"
      /\ Opcode("sel_rsp") = "set" /\ Opcode("llcp") = "set" /\ Opcode("reset2") = "reset"
      /\ Opcode("init2") = "init"
  BY DEF Opcode, SetConfig, Persistent
<1> QED
  BY <1>2, <1>3, <1>4 DEF Settings, Chain, Late, Kept

LEMMA WithoutOf ==
  ASSUME NEW s \in Seq(Packets), NEW op
  PROVE  /\ Without(s, op) /\ s # <<>> => Head(s).op # op /\ Without(Tail(s), op)
         /\ \A x \in Packets : Without(s, op) /\ x.op # op => Without(Append(s, x), op)
         /\ Without(<<>>, op)
PROOF
<1>1. ASSUME Without(s, op), s # <<>>
      PROVE  Head(s).op # op /\ Without(Tail(s), op)
  BY <1>1, TailOf DEF Without
<1>2. ASSUME NEW x \in Packets, Without(s, op), x.op # op
      PROVE  Without(Append(s, x), op)
  <2> DEFINE t == Append(s, x)
  <2>1. /\ Len(s) \in Nat /\ Len(t) = Len(s) + 1
        /\ \A i \in 1 .. Len(s) : t[i] = s[i]
        /\ t[Len(s) + 1] = x
    BY AppendOf
  <2> HIDE DEF t
  <2>2. \A i \in 1 .. Len(t) : i \in 1 .. Len(s) \/ i = Len(s) + 1
    BY <2>1
  <2>3. Without(t, op)
    BY <2>1, <2>2, <1>2 DEF Without
  <2> QED
    BY <2>3 DEF t
<1>3. Without(<<>>, op)
  BY DEF Without
<1> QED
  BY <1>1, <1>2, <1>3

LEMMA RepliesWithout ==
  ASSUME NEW s \in Seq(Packets), Replies(s)
  PROVE  Without(s, "standby")
PROOF
<1>1. \A x \in {ResetDone} \cup Notices : x.op # "standby"
  BY DEF ResetDone, Notices, ResetNtf, Recovered, Packet
<1> QED
  BY <1>1 DEF Replies, Without

(* What a command that was accepted has done, and what it leaves behind.     *)
LEMMA ExchangedSetUp ==
  ASSUME TypeOK, NEW p \in Commands, p # "reset2", NEW heard \in BOOLEAN, NEW old \in Packets,
         HostTransceive(p, heard, old)
  PROVE  /\ ram \subseteq ram' /\ (unsent => unsent') /\ (awake => awake')
         /\ heard /\ out = <<>> =>
              /\ out' = <<>> /\ answer'.op = Opcode(p)
              /\ answer'.ok /\ p \in Volatile => p \in ram'
              /\ answer'.ok /\ Opcode(p) = "init" => awake'
         /\ heard /\ out # <<>> => answer' = Head(out)
         /\ ~heard => answer' = old
         /\ ~heard => (out' = out /\ unsent') \/ out' # <<>>
         /\ ~heard /\ out = <<>> => (out' = <<>> /\ unsent') \/ (out' # <<>> /\ Head(out').op = Opcode(p))
         /\ \A op : Without(out, op) /\ Opcode(p) # op => Without(out', op)
PROOF
<1>1. /\ out \in Seq(Packets) /\ awake \in BOOLEAN /\ stamp \in BOOLEAN /\ unsent \in BOOLEAN
      /\ ram \subseteq Volatile
  BY DEF TypeOK
<1>2. CASE Refused /\ ~heard /\ answer' = old /\ UNCHANGED out
  BY <1>1, <1>2 DEF Refused
<1>3. CASE /\ \E ok \in BOOLEAN :
                /\ OnCommand(p, ok)
                /\ Receive(Append(out, Response(p, ok)), heard, old)
           /\ UNCHANGED unsent
  <2>1. PICK ok \in BOOLEAN : /\ OnCommand(p, ok)
                              /\ Receive(Append(out, Response(p, ok)), heard, old)
    BY <1>3
  <2> DEFINE r == Response(p, ok)
             q == Append(out, r)
  <2>2. r \in Packets
    BY <1>1 DEF Response, Packet, Packets
  <2>3. r.op = Opcode(p) /\ r.ok = ok
    BY DEF Response, Packet
  <2>4. Receive(q, heard, old)
    BY <2>1
  <2> HIDE DEF r
  <2>5. /\ q \in Seq(Packets) /\ q # <<>>
        /\ out = <<>> => Head(q) = r /\ Tail(q) = <<>>
        /\ out # <<>> => Head(q) = Head(out)
    <3>1. /\ q \in Seq(Packets) /\ q # <<>> /\ Len(q) = Len(out) + 1 /\ Len(out) \in Nat
          /\ \A i \in 1 .. Len(out) : q[i] = out[i]
          /\ q[Len(out) + 1] = r
      BY <1>1, <2>2, AppendOf
    <3> HIDE DEF q
    <3>2. out = <<>> <=> Len(out) = 0
      BY <1>1
    <3>3. Head(q) = q[1] /\ Tail(q) \in Seq(Packets) /\ Len(Tail(q)) = Len(q) - 1
      BY <3>1, TailOf
    <3>4. out # <<>> => Head(out) = out[1]
      BY <1>1, TailOf
    <3>5. out = <<>> => Tail(q) = <<>>
      BY <3>1, <3>2, <3>3
    <3> QED
      BY <3>1, <3>2, <3>3, <3>4, <3>5
  <2>6. \A op : Without(out, op) /\ Opcode(p) # op => Without(q, op)
    BY <1>1, <2>2, <2>3, WithoutOf
  <2> HIDE DEF q
  <2>7. /\ heard => q # <<>> /\ answer' = Head(q) /\ out' = Tail(q)
        /\ ~heard => answer' = old /\ out' = q
    BY <2>4, <2>5, Received
  <2>8. /\ ram \subseteq ram' /\ (unsent => unsent') /\ (awake => awake')
        /\ ok /\ p \in Volatile => p \in ram'
        /\ ok /\ Opcode(p) = "init" => awake'
    BY <1>1, <1>3, <2>1 DEF OnCommand
  <2>9. heard /\ out = <<>> =>
           /\ out' = <<>> /\ answer'.op = Opcode(p)
           /\ answer'.ok /\ p \in Volatile => p \in ram'
           /\ answer'.ok /\ Opcode(p) = "init" => awake'
    BY <2>3, <2>5, <2>7, <2>8
  <2>10. \A op : Without(out, op) /\ Opcode(p) # op => Without(out', op)
    <3> SUFFICES ASSUME NEW op, Without(out, op), Opcode(p) # op
                 PROVE  Without(out', op)
      OBVIOUS
    <3>1. Without(q, op) /\ (q # <<>> => Without(Tail(q), op))
      BY <2>5, <2>6, WithoutOf
    <3> QED
      BY <2>7, <3>1
  <2>11. /\ heard /\ out # <<>> => answer' = Head(out)
         /\ ~heard => answer' = old /\ out' # <<>>
         /\ ~heard /\ out = <<>> => Head(out').op = Opcode(p)
    BY <2>3, <2>5, <2>7
  <2> QED
    BY <2>8, <2>9, <2>10, <2>11
<1> QED
  BY <1>2, <1>3 DEF HostTransceive

(* The second reset passes its test only if no answer is left over.          *)
LEMMA ResetExchangedSetUp ==
  ASSUME TypeOK, ~notice, Without(out, "reset"), answer.op # "reset", NEW heard \in BOOLEAN,
         HostTransceive("reset2", heard, answer), answer'.op = "reset"
  PROVE  /\ out' # <<>> /\ Tail(out') = <<>> /\ Head(out') \in Notices
         /\ Kept \subseteq ram \/ unsent => Kept \subseteq ram' \/ unsent'
PROOF
<1>1. out \in Seq(Packets) /\ unsent \in BOOLEAN
  BY DEF TypeOK
<1>2. OnReset(Kept) /\ Receive(out \o ResetReply, heard, answer) /\ UNCHANGED unsent
  BY DEF HostTransceive
<1>3. ResetReply = <<ResetDone, ResetNtf>>
  BY DEF ResetReply, ResetDone
<1> DEFINE q == out \o <<ResetDone, ResetNtf>>
<1>4. /\ q \in Seq(Packets) /\ q # <<>> /\ Len(out) \in Nat /\ Len(q) = Len(out) + 2
      /\ \A i \in 1 .. Len(out) : q[i] = out[i]
      /\ q[Len(out) + 1] = ResetDone /\ q[Len(out) + 2] = ResetNtf
  BY <1>1, PacketTypes, PairOf
<1>5. Receive(q, heard, answer)
  BY <1>2, <1>3
<1> HIDE DEF q
<1>6. heard /\ answer' = Head(q) /\ out' = Tail(q)
  <2>1. answer \in Packets
    BY DEF TypeOK
  <2> QED
    BY <1>4, <1>5, <2>1, Received
<1>7. Len(out) = 0
  <2> SUFFICES ASSUME Len(out) # 0 PROVE FALSE
    OBVIOUS
  <2>1. 1 \in 1 .. Len(out)
    BY <1>4
  <2>2. Head(q) = out[1]
    BY <1>4, <2>1, TailOf
  <2> QED
    BY <1>6, <2>1, <2>2 DEF Without
<1>8. out' \in Seq(Packets) /\ Len(out') = 1 /\ out'[1] = ResetNtf
  <2>1. Tail(q) \in Seq(Packets) /\ Len(Tail(q)) = Len(q) - 1 /\ \A i \in 1 .. Len(Tail(q)) : Tail(q)[i] = q[i + 1]
    BY <1>4, TailOf
  <2>2. Len(q) = 2 /\ q[1 + 1] = ResetNtf
    BY <1>4, <1>7
  <2>3. Len(Tail(q)) = 1 /\ 1 \in 1 .. Len(Tail(q))
    BY <2>1, <2>2
  <2>4. Tail(q)[1] = q[1 + 1]
    BY <2>1, <2>3, Zenon
  <2> QED
    BY <1>6, <2>1, <2>2, <2>3, <2>4, Zenon
<1>9. out' # <<>> /\ Head(out') = ResetNtf /\ Tail(out') = <<>>
  BY <1>8, SingleOf
<1>10. Kept \subseteq ram => Kept \subseteq ram'
  BY <1>2 DEF OnReset
<1> QED
  BY <1>1, <1>2, <1>9, <1>10 DEF Notices

-----------------------------------------------------------------------------
(* The commands a mode calls for *)

LEMMA AppliesTo ==
  /\ Applies("prop_act") <=> mode = {"rw"}
  /\ Applies("map") <=> mode # {}
  /\ Applies("routing") <=> mode \cap {"cardemu", "p2p"} # {}
  /\ Applies("sel_rsp") <=> mode \cap {"cardemu", "p2p"} # {}
  /\ Applies("llcp") <=> "p2p" \in mode
BY DEF Applies

LEMMA ModeStepIs ==
  ASSUME NEW n \in 0 .. 5, NEW m \in n + 1 .. 5, Applies(ModeSteps[m]),
         \A j \in n + 1 .. 5 : Applies(ModeSteps[j]) => m <= j
  PROVE  ModeStep(n) = ModeSteps[m]
PROOF
<1> DEFINE rest == {i \in n + 1 .. Len(ModeSteps) : Applies(ModeSteps[i])}
<1>1. Len(ModeSteps) = 5
  BY DEF ModeSteps
<1>2. ModeStep(n) = IF rest = {} THEN "ready"
                    ELSE ModeSteps[CHOOSE i \in rest : \A j \in rest : i <= j]
  BY DEF ModeStep
<1>3. m \in rest /\ \A j \in rest : m <= j
  BY <1>1
<1>4. rest \subseteq Nat
  BY <1>1
<1> HIDE DEF rest
<1>5. ASSUME NEW i \in rest, \A j \in rest : i <= j
      PROVE  i = m
  <2>1. i <= m /\ m <= i /\ i \in Nat /\ m \in Nat
    BY <1>3, <1>4, <1>5
  <2> QED
    BY <2>1
<1>6. (CHOOSE i \in rest : \A j \in rest : i <= j) = m
  BY <1>3, <1>5
<1> QED
  BY <1>2, <1>3, <1>6

LEMMA ModeStepEnds ==
  ASSUME NEW n \in 0 .. 5, \A j \in n + 1 .. 5 : ~Applies(ModeSteps[j])
  PROVE  ModeStep(n) = "ready"
PROOF
<1>1. Len(ModeSteps) = 5
  BY DEF ModeSteps
<1>2. {i \in n + 1 .. Len(ModeSteps) : Applies(ModeSteps[i])} = {}
  BY <1>1
<1> QED
  BY <1>2 DEF ModeStep

(* The flags that a mode may combine.                                        *)
LEMMA OtherModes ==
  ASSUME TypeOK, mode # {}, mode # {"rw"}
  PROVE  mode \cap {"cardemu", "p2p"} # {}
PROOF
<1>1. mode \subseteq {"cardemu", "p2p", "rw"}
  BY SetupAssumption DEF TypeOK
<1> QED
  BY <1>1

(* The way through the commands of a mode.                                   *)
LEMMA ModeOrder ==
  ASSUME TypeOK
  PROVE  /\ mode = {} => ModeStep(0) = "ready"
         /\ mode = {"rw"} => ModeStep(0) = "prop_act" /\ ModeStep(1) = "map" /\ ModeStep(2) = "ready"
         /\ mode # {} /\ mode # {"rw"} => ModeStep(0) = "map" /\ ModeStep(2) = "routing"
         /\ mode \cap {"cardemu", "p2p"} # {} =>
              /\ ModeStep(3) = "sel_rsp"
              /\ ModeStep(4) = IF "p2p" \in mode THEN "llcp" ELSE "ready"
         /\ ModeStep(5) = "ready"
PROOF
<1>1. 0 \in 0 .. 5 /\ 1 \in 0 .. 5 /\ 2 \in 0 .. 5 /\ 3 \in 0 .. 5 /\ 4 \in 0 .. 5 /\ 5 \in 0 .. 5
  OBVIOUS
<1>2. \A j \in 0 + 1 .. 5 : j = 1 \/ j = 2 \/ j = 3 \/ j = 4 \/ j = 5
  OBVIOUS
<1>3. mode = {} => ModeStep(0) = "ready"
  BY <1>1, <1>2, AppliesTo, Groups, ModeStepEnds
<1>4. ASSUME mode = {"rw"}
      PROVE  ModeStep(0) = "prop_act" /\ ModeStep(1) = "map" /\ ModeStep(2) = "ready"
  <2>1. ModeStep(0) = ModeSteps[1]
    <3>1. Applies(ModeSteps[1]) /\ 1 \in 0 + 1 .. 5 /\ \A j \in 0 + 1 .. 5 : 1 <= j
      BY <1>4, AppliesTo, Groups
    <3> QED
      BY <1>1, <3>1, ModeStepIs
  <2>2. ModeStep(1) = ModeSteps[2]
    <3>1. Applies(ModeSteps[2]) /\ 2 \in 1 + 1 .. 5 /\ \A j \in 1 + 1 .. 5 : 2 <= j
      BY <1>4, AppliesTo, Groups
    <3> QED
      BY <1>1, <3>1, ModeStepIs
  <2>3. ModeStep(2) = "ready"
    <3>1. \A j \in 2 + 1 .. 5 : j = 3 \/ j = 4 \/ j = 5
      OBVIOUS
    <3>2. ~Applies("routing") /\ ~Applies("sel_rsp") /\ ~Applies("llcp")
      BY <1>4, AppliesTo
    <3> QED
      BY <1>1, <3>1, <3>2, Groups, ModeStepEnds
  <2> QED
    BY <2>1, <2>2, <2>3, Groups
<1>5. ASSUME mode # {}, mode # {"rw"}
      PROVE  ModeStep(0) = "map" /\ ModeStep(2) = "routing"
  <2>1. mode \cap {"cardemu", "p2p"} # {}
    BY <1>5, OtherModes
  <2>2. ModeStep(0) = ModeSteps[2]
    <3>1. Applies(ModeSteps[2]) /\ ~Applies(ModeSteps[1])
      BY <1>5, AppliesTo, Groups
    <3>2. 2 \in 0 + 1 .. 5 /\ \A j \in 0 + 1 .. 5 : j = 1 \/ 2 <= j
      OBVIOUS
    <3> QED
      BY <1>1, <3>1, <3>2, ModeStepIs
  <2>3. ModeStep(2) = ModeSteps[3]
    <3>1. Applies(ModeSteps[3]) /\ 3 \in 2 + 1 .. 5 /\ \A j \in 2 + 1 .. 5 : 3 <= j
      BY <2>1, AppliesTo, Groups
    <3> QED
      BY <1>1, <3>1, ModeStepIs
  <2> QED
    BY <2>2, <2>3, Groups
<1>6. ASSUME mode \cap {"cardemu", "p2p"} # {}
      PROVE  /\ ModeStep(3) = "sel_rsp"
             /\ ModeStep(4) = IF "p2p" \in mode THEN "llcp" ELSE "ready"
  <2>1. ModeStep(3) = ModeSteps[4]
    <3>1. Applies(ModeSteps[4]) /\ 4 \in 3 + 1 .. 5 /\ \A j \in 3 + 1 .. 5 : 4 <= j
      BY <1>6, AppliesTo, Groups
    <3> QED
      BY <1>1, <3>1, ModeStepIs
  <2>2. ASSUME "p2p" \in mode PROVE ModeStep(4) = ModeSteps[5]
    <3>1. Applies(ModeSteps[5]) /\ 5 \in 4 + 1 .. 5 /\ \A j \in 4 + 1 .. 5 : 5 <= j
      BY <2>2, AppliesTo, Groups
    <3> QED
      BY <1>1, <3>1, ModeStepIs
  <2>3. ASSUME "p2p" \notin mode PROVE ModeStep(4) = "ready"
    <3>1. ~Applies(ModeSteps[5]) /\ \A j \in 4 + 1 .. 5 : j = 5
      BY <2>3, AppliesTo, Groups
    <3> QED
      BY <1>1, <3>1, ModeStepEnds
  <2> QED
    BY <2>1, <2>2, <2>3, Groups
<1>7. ModeStep(5) = "ready"
  <2>1. \A j \in 5 + 1 .. 5 : ~Applies(ModeSteps[j])
    OBVIOUS
  <2> QED
    BY <1>1, <2>1, ModeStepEnds
<1> QED
  BY <1>3, <1>4, <1>5, <1>6, <1>7

LEMMA ModeSuccessors ==
  /\ After("prop_act") = ModeStep(1) /\ After("map") = ModeStep(2) /\ After("routing") = ModeStep(3)
  /\ After("sel_rsp") = ModeStep(4) /\ After("llcp") = ModeStep(5)
  /\ After("reset2") = "ntf2" /\ After("init2") = ModeStep(0)
PROOF
<1>1. ASSUME NEW k \in 1 .. 5
      PROVE  After(ModeSteps[k]) = ModeStep(k)
  <2> DEFINE n == CHOOSE j \in DOMAIN ModeSteps : ModeSteps[j] = ModeSteps[k]
  <2>1. ModeSteps[k] \in {"prop_act", "map", "routing", "sel_rsp", "llcp"}
    BY Groups
  <2>2. After(ModeSteps[k]) = ModeStep(n)
    BY <2>1 DEF After
  <2>3. n \in 1 .. 5 /\ ModeSteps[n] = ModeSteps[k]
    BY Groups
  <2> HIDE DEF n
  <2>4. n = k
    BY <2>3, Groups
  <2> QED
    BY <2>2, <2>4
<1>2. After("reset2") = "ntf2" /\ After("init2") = ModeStep(0)
  BY DEF After
<1> QED
  BY <1>1, <1>2, Groups

(* What a finished set-up needs, by the mode.                                *)
LEMMA NeededIs ==
  /\ mode = {} => Needed \subseteq Kept
  /\ mode = {"rw"} => Needed \subseteq Kept \cup {"prop_act", "map"}
  /\ mode # {"rw"} => Needed \subseteq Kept \cup {"map", "routing", "sel_rsp", "llcp"}
  /\ "p2p" \notin mode /\ mode # {"rw"} => Needed \subseteq Kept \cup {"map", "routing", "sel_rsp"}
PROOF
<1>1. Needed = Kept \cup {ModeSteps[i] : i \in {j \in 1 .. 5 : Applies(ModeSteps[j])}}
  BY Groups DEF Needed
<1>2. \A i \in 1 .. 5 : i = 1 \/ i = 2 \/ i = 3 \/ i = 4 \/ i = 5
  OBVIOUS
<1>3. \A x \in Needed : \/ x \in Kept
                        \/ x = "prop_act" /\ Applies("prop_act")
                        \/ x = "map" /\ Applies("map")
                        \/ x = "routing" /\ Applies("routing")
                        \/ x = "sel_rsp" /\ Applies("sel_rsp")
                        \/ x = "llcp" /\ Applies("llcp")
  BY <1>1, <1>2, Groups
<1> QED
  BY <1>3, AppliesTo

-----------------------------------------------------------------------------
(* The steps of a set-up that reports success *)

(* Before CORE_INIT and after a failure there is nothing to know.            *)
LEMMA ElsewhereSetUp ==
  ASSUME pc' \in {"off", "reset", "ntf", "failed"}
  PROVE  SetUpInv'
BY SetUpGroups DEF SetUpInv, Started, InMode

LEMMA CatchNtfSetUp ==
  ASSUME IInv, CatchNtf
  PROVE  SetUpInv'
PROOF
<1>1. PICK heard \in BOOLEAN : Receive(out, heard, Nothing)
  BY DEF CatchNtf
<1>2. out \in Seq(Packets) /\ Replies(out) /\ out # <<>>
  BY DEF IInv, TypeOK, Queue, CatchNtf
<1>3. out' = Tail(out) \/ out' = out
  BY <1>1, <1>2, PacketTypes, Received
<1>4. Without(out', "standby")
  BY <1>2, <1>3, RepliesWithout, WithoutOf
<1>5. pc' \in {"init", "reset", "failed"}
  BY DEF CatchNtf, Retry, Fails
<1>6. CASE pc' = "init"
  BY <1>4, <1>6, SetUpGroups DEF SetUpInv, Started, InMode
<1> QED
  BY <1>5, <1>6, ElsewhereSetUp

LEMMA CatchSecondNtfSetUp ==
  ASSUME IInv, SetUpInv, CatchSecondNtf
  PROVE  SetUpInv'
PROOF
<1>1. PICK heard \in BOOLEAN : Receive(out, heard, answer)
  BY DEF CatchSecondNtf
<1>2. /\ out \in Seq(Packets) /\ answer \in Packets /\ pc' = "init2" /\ UNCHANGED <<ram, unsent>>
      /\ out # <<>> /\ Tail(out) = <<>> /\ Head(out) \in Notices /\ answer.op = "reset"
      /\ Kept \subseteq ram \/ unsent
  BY DEF IInv, TypeOK, SetUpInv, Started, CatchSecondNtf, histVars
<1>3. /\ heard => answer' = Head(out) /\ out' = Tail(out)
      /\ ~heard => answer' = answer /\ out' = out
  BY <1>1, <1>2, Received
<1>4. \A x \in Notices : x.op # "init"
  BY DEF Notices, ResetNtf, Recovered, Packet
<1>5. answer'.op # "init" /\ (out' # <<>> => Head(out') \in Notices)
  BY <1>2, <1>3, <1>4
<1> QED
  BY <1>2, <1>5, SetUpGroups DEF SetUpInv, Started, InMode

(* From CORE_INIT to the settings.                                           *)
LEMMA StartSetUp ==
  ASSUME IInv, SetUpInv, NEW p \in Early \cup {"read_ts"}, pc = p, NEW heard \in BOOLEAN,
         NEW old \in Before(p), HostTransceive(p, heard, old), Accepted(p), pc' = After(p)
  PROVE  SetUpInv'
PROOF
<1>1. TypeOK /\ Queue /\ Started /\ p \in Commands /\ p # "reset2"
  BY Groups DEF IInv, SetUpInv, Early
<1>2. old \in Packets /\ (p \in {"core", "read_ts"} => old = answer) /\ out \in Seq(Packets)
  BY <1>1, BufferBefore DEF TypeOK
<1>3. /\ ram \subseteq ram' /\ (unsent => unsent')
      /\ heard /\ out = <<>> =>
           /\ out' = <<>> /\ answer'.op = Opcode(p)
           /\ answer'.ok /\ p \in Volatile => p \in ram'
      /\ heard /\ out # <<>> => answer' = Head(out)
      /\ ~heard => answer' = old
      /\ ~heard => (out' = out /\ unsent') \/ out' # <<>>
      /\ \A op : Without(out, op) /\ Opcode(p) # op => Without(out', op)
  BY <1>1, <1>2, ExchangedSetUp
<1>4. answer'.op = Opcode(p) /\ answer'.ok
  BY DEF Accepted
<1>5. CASE p = "init"
  <2>1. pc' = "standby" /\ Without(out', "standby")
    BY <1>1, <1>3, <1>5, Successors, Opcodes DEF Started
  <2> QED
    BY <2>1, SetUpGroups DEF SetUpInv, Started, InMode
<1>6. CASE p = "standby"
  <2>1. pc' = "core" /\ Opcode(p) = "standby" /\ p \in Volatile
    BY <1>6, Successors, Opcodes, SetUpGroups
  <2>2. heard => out = <<>>
    <3>1. Without(out, "standby")
      BY <1>1, <1>6 DEF Started
    <3>2. out # <<>> => Head(out).op # "standby"
      BY <1>2, <3>1, WithoutOf
    <3> QED
      BY <1>3, <1>4, <2>1, <3>2
  <2>3. "standby" \in ram' \/ unsent' \/ out' # <<>>
    BY <1>3, <1>4, <1>6, <2>1, <2>2
  <2> QED
    BY <2>1, <2>3, SetUpGroups DEF SetUpInv, Started, InMode
<1>7. CASE p = "core"
  <2>1. pc' = "read_ts" /\ Opcode(p) = "set" /\ p \in Volatile
    BY <1>7, Successors, Opcodes, SetUpGroups
  <2>2. NoSet(out) /\ answer.op # "set" /\ ("standby" \in ram \/ unsent \/ out # <<>>)
    BY <1>1, <1>7 DEF Queue, Started, Early
  <2>3. heard /\ out = <<>>
    <3>1. heard
      BY <1>2, <1>3, <1>4, <1>7, <2>1, <2>2
    <3>2. out # <<>> => Head(out).op # "set"
      BY <1>2, <2>2, NoSetOf
    <3> QED
      BY <1>3, <1>4, <2>1, <3>1, <3>2
  <2>4. "core" \in ram' /\ ("standby" \in ram' \/ unsent')
    BY <1>3, <1>4, <1>7, <2>1, <2>2, <2>3
  <2> QED
    BY <2>1, <2>4, SetUpGroups DEF SetUpInv, Started, InMode
<1>8. CASE p = "read_ts"
  <2>1. out = <<>> /\ answer.op = "set" /\ (Kept \subseteq ram \/ unsent)
    BY <1>1, <1>8 DEF Queue, Started
  <2>2. heard
    BY <1>2, <1>3, <1>4, <1>8, <2>1, Opcodes
  <2>3. out' = <<>> /\ answer'.op = "read_ts" /\ (Kept \subseteq ram' \/ unsent')
    BY <1>3, <1>4, <1>8, <2>1, <2>2, Opcodes
  <2>4. Without(out', "reset")
    BY <1>2, <2>3, WithoutOf
  <2>5. pc' \in {"extn", "reset2"}
    BY <1>8, Successors
  <2> QED
    BY <2>3, <2>4, <2>5, SetUpGroups DEF SetUpInv, Started, InMode
<1> QED
  BY <1>5, <1>6, <1>7, <1>8 DEF Early

(* The settings, the second reset and its CORE_INIT.                         *)
LEMMA SettingsSetUp ==
  ASSUME IInv, SetUpInv, NEW p \in Settings, pc = p, NEW heard \in BOOLEAN,
         NEW old \in Before(p), HostTransceive(p, heard, old), Accepted(p), pc' = After(p)
  PROVE  SetUpInv'
PROOF
<1>1. TypeOK /\ Started /\ p \in Commands /\ p # "reset2" /\ Opcode(p) = "set"
  <2>1. TypeOK /\ Started
    BY DEF IInv, SetUpInv
  <2>2. p \in {"extn", "clk", "tvdd", "rf", "write_ts"}
    BY SetUpGroups
  <2>3. p \in Commands /\ p # "reset2"
    BY <2>2 DEF Commands, SetConfig, Persistent
  <2>4. Opcode(p) = "set"
    BY <2>2 DEF Opcode, SetConfig, Persistent
  <2> QED
    BY <2>1, <2>3, <2>4
<1>2. old \in Packets
  BY <1>1, BufferBefore
<1>3. /\ ram \subseteq ram' /\ (unsent => unsent')
      /\ \A op : Without(out, op) /\ Opcode(p) # op => Without(out', op)
  BY <1>1, <1>2, ExchangedSetUp
<1>4. Without(out, "reset") /\ (Kept \subseteq ram \/ unsent)
  BY <1>1 DEF Started
<1>5. Without(out', "reset") /\ answer'.op = "set" /\ (Kept \subseteq ram' \/ unsent')
  BY <1>1, <1>3, <1>4 DEF Accepted
<1>6. pc' \in Settings \cup {"reset2"}
  BY Successors, SetUpGroups
<1> QED
  BY <1>5, <1>6, SetUpGroups DEF SetUpInv, Started, InMode

LEMMA SecondResetSetUp ==
  ASSUME IInv, SetUpInv, pc = "reset2", NEW heard \in BOOLEAN,
         NEW old \in Before("reset2"), HostTransceive("reset2", heard, old), Accepted("reset2"),
         pc' = After("reset2")
  PROVE  SetUpInv'
PROOF
<1>1. TypeOK /\ Started /\ ~notice
  BY Groups DEF IInv, Told, SetUpInv
<1>2. ModeStep(0) # "reset2"
  BY <1>1, ModeOrder
<1>3. old = answer
  BY <1>2 DEF Before
<1>4. Without(out, "reset") /\ answer.op # "reset" /\ (Kept \subseteq ram \/ unsent)
  BY <1>1 DEF Started
<1>5. answer'.op = "reset"
  BY SetUpGroups DEF Accepted
<1>6. /\ out' # <<>> /\ Tail(out') = <<>> /\ Head(out') \in Notices
      /\ Kept \subseteq ram' \/ unsent'
  BY <1>1, <1>3, <1>4, <1>5, ResetExchangedSetUp
<1>7. pc' = "ntf2"
  BY ModeSuccessors
<1> QED
  BY <1>5, <1>6, <1>7, SetUpGroups DEF SetUpInv, Started, InMode

LEMMA SecondInitSetUp ==
  ASSUME IInv, SetUpInv, pc = "init2", NEW heard \in BOOLEAN,
         NEW old \in Before("init2"), HostTransceive("init2", heard, old), Accepted("init2"),
         pc' = After("init2"), mode' = mode
  PROVE  SetUpInv'
PROOF
<1>1. TypeOK /\ Started /\ "init2" \in Commands
  BY Groups DEF IInv, SetUpInv
<1>2. ModeStep(0) \in {"prop_act", "map", "ready"} /\ (mode = {"rw"} => ModeStep(0) = "prop_act")
      /\ (mode = {} => ModeStep(0) = "ready") /\ (mode # {} /\ mode # {"rw"} => ModeStep(0) = "map")
  BY <1>1, ModeOrder
<1>3. old = answer /\ old \in Packets /\ out \in Seq(Packets)
  BY <1>1, <1>2 DEF Before, TypeOK
<1>4. /\ ram \subseteq ram' /\ (unsent => unsent')
      /\ heard /\ out = <<>> => out' = <<>> /\ (answer'.ok /\ Opcode("init2") = "init" => awake')
      /\ heard /\ out # <<>> => answer' = Head(out)
      /\ ~heard => answer' = old
  BY <1>1, <1>3, ExchangedSetUp
<1>5. ~answer'.ntf /\ answer'.op = "init" /\ answer'.ok
  BY SetUpGroups DEF Accepted
<1>6. answer.op # "init" /\ (out # <<>> => Head(out) \in Notices) /\ (Kept \subseteq ram \/ unsent)
  BY <1>1 DEF Started
<1>7. \A x \in Notices : x.ntf
  BY DEF Notices, ResetNtf, Recovered, Packet
<1>8. heard /\ out = <<>>
  BY <1>3, <1>4, <1>5, <1>6, <1>7
<1>9. out' = <<>> /\ awake' /\ (Kept \subseteq ram' \/ unsent')
  BY <1>4, <1>5, <1>6, <1>8, SetUpGroups
<1>10. pc' = ModeStep(0)
  BY ModeSuccessors
<1>11. Needed' = Needed
  BY DEF Needed, Applies
<1>12. Started'
  BY <1>2, <1>9, <1>10, SetUpGroups DEF Started
<1>13. CASE mode = {}
  <2>1. pc' = "ready"
    BY <1>2, <1>10, <1>13
  <2>2. Needed' \subseteq Kept
    BY <1>11, <1>13, NeededIs
  <2> QED
    BY <1>12, <2>1, <2>2, <1>9 DEF InMode, SetUpInv
<1>14. CASE mode = {"rw"}
  <2>1. pc' = "prop_act"
    BY <1>2, <1>10, <1>14
  <2> QED
    BY <1>12, <2>1, <1>9, <1>14 DEF InMode, SetUpInv
<1>15. CASE mode # {} /\ mode # {"rw"}
  <2>1. pc' = "map"
    BY <1>2, <1>10, <1>15
  <2> QED
    BY <1>12, <2>1, <1>9, <1>15 DEF InMode, SetUpInv
<1> QED
  BY <1>13, <1>14, <1>15

(* The commands of the mode.                                                 *)
LEMMA ModeSetUp ==
  ASSUME IInv, SetUpInv, NEW p \in ModeCommands, pc = p, NEW heard \in BOOLEAN,
         NEW old \in Before(p), HostTransceive(p, heard, old), Accepted(p), pc' = After(p),
         mode' = mode
  PROVE  SetUpInv'
PROOF
<1>1. TypeOK /\ Started /\ InMode /\ p \in Commands /\ p # "reset2" /\ p \in Volatile
  BY Groups, SetUpGroups DEF IInv, SetUpInv
<1>2. old \in Packets /\ (p # ModeStep(0) => old = answer)
  BY <1>1, BufferBefore, SetUpGroups DEF Before
<1>3. /\ ram \subseteq ram' /\ (unsent => unsent') /\ (awake => awake')
      /\ heard /\ out = <<>> => out' = <<>> /\ (answer'.ok => p \in ram')
      /\ heard /\ out # <<>> => answer' = Head(out)
      /\ ~heard => answer' = old
      /\ ~heard /\ out = <<>> => (out' = <<>> /\ unsent') \/ (out' # <<>> /\ Head(out').op = Opcode(p))
  BY <1>1, <1>2, ExchangedSetUp
<1>4. answer'.op = Opcode(p) /\ answer'.ok
  BY DEF Accepted
<1>5. awake' /\ (Kept \subseteq ram' \/ unsent')
  BY <1>1, <1>3, SetUpGroups DEF Started
<1>6. pc' \in Late
  BY <1>1, ModeSuccessors, ModeOrder, SetUpGroups DEF InMode
<1>7. Started'
  BY <1>5, <1>6, SetUpGroups DEF Started
<1>8. Needed' = Needed
  BY DEF Needed, Applies
<1>9. ASSUME out = <<>>, Opcode(p) = p
      PROVE  Follows(p)'
  BY <1>3, <1>4, <1>9 DEF Follows
<1>10. ASSUME p # ModeStep(0), answer.op # Opcode(p), out # <<>> => Head(out).op # Opcode(p)
       PROVE  heard /\ out = <<>> /\ out' = <<>> /\ p \in ram'
  BY <1>2, <1>3, <1>4, <1>10
<1>11. CASE p = "prop_act"
  <2>1. mode = {"rw"} /\ out = <<>>
    BY <1>1, <1>11 DEF InMode
  <2>2. Follows("prop_act")' /\ answer'.op = "prop_act"
    BY <1>4, <1>9, <1>11, <2>1, SetUpGroups
  <2>3. pc' = "map"
    BY <1>1, <1>11, <2>1, ModeSuccessors, ModeOrder
  <2>4. InMode'
    BY <2>1, <2>2, <2>3 DEF InMode
  <2> QED
    BY <1>7, <2>4 DEF SetUpInv
<1>12. CASE p = "map" /\ mode = {"rw"}
  <2>1. Follows("prop_act") /\ answer.op = "prop_act" /\ ModeStep(0) = "prop_act"
    BY <1>1, <1>12, ModeOrder DEF InMode
  <2>2. out = <<>> /\ out' = <<>> /\ "map" \in ram'
    BY <1>10, <1>12, <2>1, SetUpGroups DEF Follows
  <2>3. "prop_act" \in ram' \/ unsent'
    BY <1>3, <2>1, <2>2 DEF Follows
  <2>4. pc' = "ready"
    BY <1>1, <1>12, ModeSuccessors, ModeOrder
  <2>5. Needed \subseteq Kept \cup {"prop_act", "map"}
    BY <1>12, NeededIs
  <2>6. InMode'
    BY <1>5, <1>8, <2>2, <2>3, <2>4, <2>5 DEF InMode
  <2> QED
    BY <1>7, <2>6 DEF SetUpInv
<1>13. CASE p = "map" /\ mode # {"rw"}
  <2>1. mode # {} /\ out = <<>>
    BY <1>1, <1>13 DEF InMode
  <2>2. mode \cap {"cardemu", "p2p"} # {}
    BY <1>1, <1>13, <2>1, OtherModes
  <2>3. Follows("map")' /\ answer'.op = "map"
    BY <1>4, <1>9, <1>13, <2>1, SetUpGroups
  <2>4. pc' = "routing"
    BY <1>1, <1>13, <2>1, ModeSuccessors, ModeOrder
  <2>5. InMode'
    BY <2>2, <2>3, <2>4 DEF InMode
  <2> QED
    BY <1>7, <2>5 DEF SetUpInv
<1>14. CASE p = "routing"
  <2>1. mode \cap {"cardemu", "p2p"} # {} /\ Follows("map") /\ answer.op = "map"
    BY <1>1, <1>14 DEF InMode
  <2>2. ModeStep(0) # "routing"
    BY <1>1, ModeOrder
  <2>3. out = <<>> /\ out' = <<>> /\ "routing" \in ram'
    BY <1>10, <1>14, <2>1, <2>2, SetUpGroups DEF Follows
  <2>4. {"map", "routing"} \subseteq ram' \/ unsent'
    BY <1>3, <2>1, <2>3 DEF Follows
  <2>5. pc' = "sel_rsp" /\ answer'.op = "routing"
    BY <1>1, <1>4, <1>14, <2>1, ModeSuccessors, ModeOrder, SetUpGroups
  <2>6. InMode'
    BY <2>1, <2>3, <2>4, <2>5 DEF InMode
  <2> QED
    BY <1>7, <2>6 DEF SetUpInv
<1>15. CASE p = "sel_rsp"
  <2>1. /\ mode \cap {"cardemu", "p2p"} # {} /\ out = <<>> /\ answer.op = "routing"
        /\ {"map", "routing"} \subseteq ram \/ unsent
    BY <1>1, <1>15 DEF InMode
  <2>2. ModeStep(0) # "sel_rsp"
    BY <1>1, ModeOrder
  <2>3. out' = <<>> /\ "sel_rsp" \in ram'
    BY <1>10, <1>15, <2>1, <2>2, SetUpGroups
  <2>4. {"map", "routing", "sel_rsp"} \subseteq ram' \/ unsent'
    BY <1>3, <2>1, <2>3
  <2>5. pc' = IF "p2p" \in mode THEN "llcp" ELSE "ready"
    BY <1>1, <1>15, <2>1, ModeSuccessors, ModeOrder
  <2>6. "p2p" \notin mode => Needed \subseteq Kept \cup {"map", "routing", "sel_rsp"}
    <3>1. mode # {"rw"}
      BY <2>1
    <3> QED
      BY <3>1, NeededIs
  <2>7. InMode'
    BY <1>5, <1>8, <2>3, <2>4, <2>5, <2>6 DEF InMode
  <2> QED
    BY <1>7, <2>7 DEF SetUpInv
<1>16. CASE p = "llcp"
  <2>1. "p2p" \in mode /\ ({"map", "routing", "sel_rsp"} \subseteq ram \/ unsent)
    BY <1>1, <1>16 DEF InMode
  <2>2. pc' = "ready"
    BY <1>1, <1>16, ModeSuccessors, ModeOrder
  <2>3. Needed \subseteq Kept \cup {"map", "routing", "sel_rsp", "llcp"}
    <3>1. mode # {"rw"}
      BY <2>1
    <3> QED
      BY <3>1, NeededIs
  <2>4. {"map", "routing", "sel_rsp"} \subseteq ram' \/ unsent'
    BY <1>3, <2>1
  <2>5. InMode'
    BY <1>5, <1>8, <2>1, <2>2, <2>3, <2>4 DEF InMode
  <2> QED
    BY <1>7, <2>5 DEF SetUpInv
<1> QED
  BY <1>11, <1>12, <1>13, <1>14, <1>15, <1>16, SetUpGroups

LEMMA TransceiveSetUp ==
  ASSUME IInv, SetUpInv, NEW p \in Commands, Transceive(p)
  PROVE  SetUpInv'
PROOF
<1>1. PICK heard \in BOOLEAN, old \in Before(p) :
        /\ pc = p
        /\ HostTransceive(p, heard, old)
        /\ IF Accepted(p)
           THEN pc' = After(p) /\ forgotten' = (forgotten /\ "rf" \notin nvm')
           ELSE Fails
        /\ UNCHANGED <<mode, tries, rf_restored, calm>>
  BY DEF Transceive
<1>2. CASE ~Accepted(p)
  BY <1>1, <1>2, ElsewhereSetUp DEF Fails
<1>3. CASE Accepted(p)
  <2>1. pc = p /\ HostTransceive(p, heard, old) /\ pc' = After(p) /\ mode' = mode
    BY <1>1, <1>3
  <2>2. CASE p \in Early \cup {"read_ts"}
    BY <1>3, <2>1, <2>2, StartSetUp
  <2>3. CASE p \in Settings
    BY <1>3, <2>1, <2>3, SettingsSetUp
  <2>4. CASE p = "reset2"
    BY <1>3, <2>1, <2>4, SecondResetSetUp
  <2>5. CASE p = "init2"
    BY <1>3, <2>1, <2>5, SecondInitSetUp
  <2>6. CASE p \in ModeCommands
    BY <1>3, <2>1, <2>6, ModeSetUp
  <2>7. p \in Early \cup {"read_ts"} \cup Settings \cup {"reset2", "init2"} \cup ModeCommands
    BY Groups, SetUpGroups DEF Early, Chain
  <2> QED
    BY <2>2, <2>3, <2>4, <2>5, <2>6, <2>7
<1> QED
  BY <1>2, <1>3

LEMMA NextSetUp == IInv /\ SetUpInv /\ [Next]_vars => SetUpInv'
PROOF
<1> SUFFICES ASSUME IInv, SetUpInv, [Next]_vars PROVE SetUpInv'
  OBVIOUS
<1>1. CASE Begin \/ PowerLoss \/ NewBuild
  BY <1>1, ElsewhereSetUp DEF Begin, PowerLoss, NewBuild, hostVars
<1>2. CASE CheckDevPres
  BY <1>2, ElsewhereSetUp DEF CheckDevPres, Retry, Fails
<1>3. CASE \E p \in Commands : Transceive(p)
  BY <1>3, TransceiveSetUp
<1>4. CASE CalmsDown \/ UNCHANGED vars
  <2>1. UNCHANGED <<hostVars, ctlVars, unsent>>
    BY <1>4 DEF CalmsDown, vars, histVars
  <2>2. Needed' = Needed /\ Follows("map")' = Follows("map") /\ Follows("prop_act")' = Follows("prop_act")
    BY <2>1 DEF Needed, Applies, Follows, hostVars, ctlVars
  <2> QED
    BY <2>1, <2>2 DEF SetUpInv, Started, InMode, hostVars, ctlVars
<1> QED
  BY <1>1, <1>2, <1>3, <1>4, CatchNtfSetUp, CatchSecondNtfSetUp DEF Next, Setup, Connect

-----------------------------------------------------------------------------
(* Results *)

LEMMA Invariant == Spec => []IInv
BY InitInv, NextInv, PTL DEF Spec

(* Every reachable state of a set-up is well typed.                          *)
THEOREM TypeCorrect == Spec => []TypeOK
PROOF
<1>1. IInv => TypeOK
  BY DEF IInv
<1> QED
  BY <1>1, Invariant, PTL

(* NxpNci_ConfigureSettings: the time stamp that the controller stores is    *)
(* the one of this build only if the settings of this build are in its        *)
(* memory or their loss is or has been reported, whenever power is lost and  *)
(* whichever commands fail.                                                  *)
THEOREM TimestampCorrect == Spec => []TimestampTells
PROOF
<1>1. IInv => TimestampTells
  BY DEF IInv
<1> QED
  BY <1>1, Invariant, PTL

(* NxpNci_Connect and NxpNci_ConfigureSettings: a recovery that was reported  *)
(* in one of the three attempts is answered with the settings being sent     *)
(* again, and so a set-up that reports success leaves all of them in the     *)
(* controller, except after one that was told of a recovery and failed.      *)
THEOREM RestoredCorrect == Spec => []RestoredIsReapplied
PROOF
<1>1. IInv => RestoredIsReapplied
  <2> SUFFICES ASSUME IInv, pc = "ready", ~blind, ~forgotten
               PROVE  nvm = Persistent
    BY DEF RestoredIsReapplied
  <2>1. nvm \subseteq Persistent
    BY DEF IInv, TypeOK
  <2>2. Persistent \ {"rf"} \subseteq nvm /\ "rf" \in nvm
    BY Groups DEF IInv, Sent
  <2> QED
    BY <2>1, <2>2
<1> QED
  BY <1>1, Invariant, PTL

(* A set-up that reports success is ready and in step, for every mode:       *)
(* NxpNci_HostTransceive's result is ignored, and yet a command whose answer *)
(* is late, or was taken for granted, is found out by the next one.          *)
THEOREM SuccessCorrect == Spec => []SuccessIsSound
PROOF
<1>1. Init => SetUpInv
  BY ElsewhereSetUp, SetUpGroups DEF Init, SetUpInv, Started, InMode
<1>2. IInv /\ SetUpInv => SuccessIsSound
  BY SetUpGroups DEF IInv, SetUpInv, Started, InMode, SuccessIsSound, ReadyIsReady, InStep
<1> QED
  BY <1>1, <1>2, NextSetUp, Invariant, PTL DEF Spec

-----------------------------------------------------------------------------
(* Progress and recovery *)

(* The way of a set-up.                                                      *)
Way ==
  <<"reset", "ntf", "init", "standby", "core", "read_ts", "extn", "clk", "tvdd", "rf", "write_ts",
    "reset2", "ntf2", "init2", "prop_act", "map", "routing", "sel_rsp", "llcp", "ready">>

Ahead == \E i, j \in DOMAIN Way : i < j /\ pc = Way[i] /\ pc' = Way[j]

(* A step that is on the way, or the next of three attempts, or the last.    *)
Advances ==
  \/ Ahead /\ tries' = tries
  \/ pc' = "reset" /\ tries' \in Nat /\ tries' < tries
  \/ pc' = "failed"

(* A set-up that finds no packet of an earlier one, when nothing fails.      *)
OnCourse ==
  /\ calm
  /\ pc \notin {"off", "failed"}
  /\ pc \in Commands \cup {"reset", "ready"} => out = <<>>
  /\ pc \in {"ntf", "ntf2"} => \E x \in Notices : out = <<x>>
  /\ pc \in Commands \ {"init", "init2"} => awake

(* What a step does for the end of the set-up, and for its success.          *)
Recovering ==
  /\ Setup /\ pc \notin {"off", "ready", "failed"} => Advances
  /\ calm /\ Begin => OnCourse'
  /\ OnCourse => OnCourse' /\ (pc # "ready" => Ahead)

LEMMA WayIs ==
  /\ DOMAIN Way = 1 .. 20
  /\ Way[1] = "reset" /\ Way[2] = "ntf" /\ Way[3] = "init" /\ Way[4] = "standby" /\ Way[5] = "core"
  /\ Way[6] = "read_ts" /\ Way[7] = "extn" /\ Way[8] = "clk" /\ Way[9] = "tvdd" /\ Way[10] = "rf"
  /\ Way[11] = "write_ts" /\ Way[12] = "reset2" /\ Way[13] = "ntf2" /\ Way[14] = "init2"
  /\ \A k \in 1 .. 5 : Way[14 + k] = ModeSteps[k]
  /\ Way[20] = "ready"
PROOF
<1>1. /\ DOMAIN Way = 1 .. 20
      /\ Way[1] = "reset" /\ Way[2] = "ntf" /\ Way[3] = "init" /\ Way[4] = "standby" /\ Way[5] = "core"
      /\ Way[6] = "read_ts" /\ Way[7] = "extn" /\ Way[8] = "clk" /\ Way[9] = "tvdd" /\ Way[10] = "rf"
      /\ Way[11] = "write_ts" /\ Way[12] = "reset2" /\ Way[13] = "ntf2" /\ Way[14] = "init2"
      /\ Way[15] = "prop_act" /\ Way[16] = "map" /\ Way[17] = "routing" /\ Way[18] = "sel_rsp"
      /\ Way[19] = "llcp" /\ Way[20] = "ready"
  BY DEF Way
<1>2. ASSUME NEW k \in 1 .. 5
      PROVE  Way[14 + k] = ModeSteps[k]
  <2>1. k = 1 \/ k = 2 \/ k = 3 \/ k = 4 \/ k = 5
    OBVIOUS
  <2> QED
    BY <1>1, <2>1, Groups
<1> QED
  BY <1>1, <1>2

(* The next command of the mode lies ahead.                                  *)
LEMMA ModeStepAhead ==
  ASSUME NEW n \in 0 .. 5
  PROVE  \E j \in n + 15 .. 20 : ModeStep(n) = Way[j]
PROOF
<1> DEFINE rest == {i \in n + 1 .. 5 : Applies(ModeSteps[i])}
<1>1. CASE rest = {}
  <2>1. ModeStep(n) = "ready"
    BY <1>1, ModeStepEnds
  <2> QED
    BY <2>1, WayIs
<1>2. CASE rest # {}
  <2>1. rest \subseteq n + 1 .. 5
    OBVIOUS
  <2>2. PICK m \in rest : \A j \in rest : m <= j
    <3> HIDE DEF rest
    <3>1. CASE 1 \in rest
      BY <2>1, <3>1
    <3>2. CASE 1 \notin rest /\ 2 \in rest
      BY <2>1, <3>2
    <3>3. CASE 1 \notin rest /\ 2 \notin rest /\ 3 \in rest
      BY <2>1, <3>3
    <3>4. CASE 1 \notin rest /\ 2 \notin rest /\ 3 \notin rest /\ 4 \in rest
      BY <2>1, <3>4
    <3>5. CASE 1 \notin rest /\ 2 \notin rest /\ 3 \notin rest /\ 4 \notin rest
      <4>1. PICK i \in rest : TRUE
        BY <1>2
      <4>2. \A j \in rest : j = 5
        BY <2>1, <3>5
      <4> QED
        BY <4>1, <4>2
    <3> QED
      BY <3>1, <3>2, <3>3, <3>4, <3>5
  <2>3. ModeStep(n) = ModeSteps[m]
    BY <2>2, ModeStepIs
  <2>4. m \in 1 .. 5 /\ 14 + m \in n + 15 .. 20
    BY <2>1, <2>2
  <2> QED
    BY <2>3, <2>4, WayIs
<1> QED
  BY <1>1, <1>2

(* Each command is followed by one that lies ahead.                          *)
LEMMA AfterAhead ==
  ASSUME NEW p \in Commands
  PROVE  \E i, j \in DOMAIN Way : i < j /\ p = Way[i] /\ After(p) = Way[j]
PROOF
<1>1. CASE p \in {"init", "standby", "core", "read_ts", "extn", "clk", "tvdd", "rf", "write_ts", "reset2"}
  <2>1. p \in {"init", "standby", "core"}
          => \E i \in 3 .. 5 : p = Way[i] /\ After(p) = Way[i + 1]
    BY Successors, WayIs
  <2>2. p = "read_ts" => p = Way[6] /\ (After(p) = Way[7] \/ After(p) = Way[12])
    BY Successors, WayIs
  <2>3. p \in {"extn", "clk", "tvdd", "rf", "write_ts", "reset2"}
          => \E i \in 7 .. 12 : p = Way[i] /\ After(p) = Way[i + 1]
    BY Successors, ModeSuccessors, WayIs
  <2> QED
    BY <1>1, <2>1, <2>2, <2>3, WayIs
<1>2. CASE p = "init2"
  <2>1. PICK j \in 0 + 15 .. 20 : ModeStep(0) = Way[j]
    BY ModeStepAhead
  <2> QED
    BY <1>2, <2>1, ModeSuccessors, WayIs
<1>3. CASE p \in {"prop_act", "map", "routing", "sel_rsp", "llcp"}
  <2>1. PICK k \in 1 .. 5 : p = ModeSteps[k] /\ After(p) = ModeStep(k)
    BY <1>3, Groups, ModeSuccessors
  <2>2. PICK j \in k + 15 .. 20 : ModeStep(k) = Way[j]
    BY ModeStepAhead
  <2>3. 14 + k \in 1 .. 20 /\ j \in 1 .. 20 /\ 14 + k < j /\ p = Way[14 + k]
    BY <2>1, WayIs
  <2> QED
    BY <2>1, <2>2, <2>3, WayIs
<1> QED
  BY <1>1, <1>2, <1>3, Groups DEF Early, Chain

(* if (i-- == 0): the next attempt is one fewer, or the set-up has failed.   *)
LEMMA RetryAdvances ==
  ASSUME TypeOK, Retry
  PROVE  Advances
BY DEF Retry, Fails, Advances, TypeOK

(* Every step of a set-up, whatever fails, advances it.                      *)
LEMMA SetupAdvances ==
  ASSUME TypeOK, Setup, pc \notin {"off", "ready", "failed"}
  PROVE  Advances
PROOF
<1>1. CASE Begin
  BY <1>1 DEF Begin
<1>2. CASE CheckDevPres
  <2>1. Retry \/ (pc = "reset" /\ pc' = "ntf" /\ tries' = tries)
    BY <1>2 DEF CheckDevPres
  <2>2. ASSUME pc = "reset", pc' = "ntf", tries' = tries
        PROVE  Advances
    BY <2>2, WayIs DEF Advances, Ahead
  <2> QED
    BY <2>1, <2>2, RetryAdvances
<1>3. CASE CatchNtf
  <2>1. Retry \/ (pc = "ntf" /\ pc' = "init" /\ tries' = tries)
    BY <1>3 DEF CatchNtf
  <2>2. ASSUME pc = "ntf", pc' = "init", tries' = tries
        PROVE  Advances
    BY <2>2, WayIs DEF Advances, Ahead
  <2> QED
    BY <2>1, <2>2, RetryAdvances
<1>4. ASSUME NEW p \in Commands, Transceive(p)
      PROVE  Advances
  <2>1. pc = p /\ tries' = tries /\ (pc' = After(p) \/ pc' = "failed")
    BY <1>4 DEF Transceive, Fails
  <2> QED
    BY <2>1, AfterAhead DEF Advances, Ahead
<1>5. CASE CatchSecondNtf
  <2>1. pc = "ntf2" /\ pc' = "init2" /\ tries' = tries
    BY <1>5 DEF CatchSecondNtf
  <2> QED
    BY <2>1, WayIs DEF Advances, Ahead
<1> QED
  BY <1>1, <1>2, <1>3, <1>4, <1>5 DEF Setup, Connect

LEMMA ShortQueues ==
  ASSUME NEW S, NEW x \in S, NEW y \in S
  PROVE  /\ <<>> \o <<x, y>> # <<>> /\ Head(<<>> \o <<x, y>>) = x /\ Tail(<<>> \o <<x, y>>) = <<y>>
         /\ Append(<<>>, x) # <<>> /\ Head(Append(<<>>, x)) = x /\ Tail(Append(<<>>, x)) = <<>>
         /\ <<x>> # <<>> /\ Head(<<x>>) = x /\ Tail(<<x>>) = <<>>
OBVIOUS

(* A reset on course: its response is heard, its notification is queued.     *)
LEMMA ResetHeard ==
  ASSUME calm, out = <<>>, NEW heard \in BOOLEAN, NEW old, Receive(out \o ResetReply, heard, old)
  PROVE  heard /\ answer' = ResetDone /\ \E x \in Notices : out' = <<x>>
PROOF
<1>1. PICK x \in Notices : ResetReply = <<ResetDone, x>>
  BY DEF ResetReply, ResetDone, Notices
<1>2. out \o ResetReply = <<>> \o <<ResetDone, x>> /\ ResetDone \in Packets /\ x \in Packets
  BY <1>1, PacketTypes DEF Notices
<1> DEFINE q == out \o ResetReply
<1>3. q # <<>> /\ Head(q) = ResetDone /\ Tail(q) = <<x>>
  <2> DEFINE r == <<>> \o <<ResetDone, x>>
  <2>1. r # <<>> /\ Head(r) = ResetDone /\ Tail(r) = <<x>>
    BY <1>2, ShortQueues
  <2>2. q = r
    BY <1>2
  <2> HIDE DEF q, r
  <2> QED
    BY <2>1, <2>2
<1>4. Receive(q, heard, old)
  OBVIOUS
<1> HIDE DEF q
<1> QED
  BY <1>3, <1>4 DEF Receive

(* A notification on course is heard.                                        *)
LEMMA NoticeHeard ==
  ASSUME calm, NEW x \in Notices, out = <<x>>, NEW heard \in BOOLEAN, NEW old, Receive(out, heard, old)
  PROVE  answer' = x /\ out' = <<>>
PROOF
<1>1. out # <<>> /\ Head(out) = x /\ Tail(out) = <<>>
  BY ShortQueues
<1> QED
  BY <1>1 DEF Receive

(* A command on course is carried out, its answer heard and accepted.        *)
LEMMA CommandHeard ==
  ASSUME TypeOK, OnCourse, NEW p \in Commands, Transceive(p)
  PROVE  OnCourse' /\ pc' # "reset"
PROOF
<1>1. pc = p /\ calm /\ out = <<>> /\ (p \notin {"init", "init2"} => awake) /\ calm' = calm
  BY DEF OnCourse, Transceive
<1>2. PICK heard \in BOOLEAN, old \in Before(p) :
        /\ HostTransceive(p, heard, old)
        /\ IF Accepted(p) THEN pc' = After(p) ELSE Fails
  BY DEF Transceive
<1>3. pc' = After(p) => pc' \notin {"off", "failed", "reset", "ntf"}
  <2>1. \A i \in 2 .. 20 : Way[i] \notin {"off", "failed", "reset"}
    BY DEF Way
  <2> QED
    BY AfterAhead, Successors, ModeSuccessors, Groups DEF Early, Chain
<1>4. CASE p = "reset2"
  <2>1. /\ OnReset(Kept)
        /\ Receive(out \o ResetReply, heard, old)
    BY <1>1, <1>2, <1>4 DEF HostTransceive, Refused
  <2>2. answer' = ResetDone /\ \E x \in Notices : out' = <<x>>
    BY <1>1, <2>1, ResetHeard
  <2>3. Accepted(p)
    BY <1>4, <2>2, SetUpGroups DEF Accepted, ResetDone, Packet
  <2>4. pc' = "ntf2"
    BY <1>2, <1>4, <2>3, ModeSuccessors
  <2> QED
    BY <1>1, <2>2, <2>4, SetUpGroups, Groups DEF OnCourse, Early, Chain
<1>5. CASE p # "reset2"
  <2>1. PICK ok \in BOOLEAN : /\ OnCommand(p, ok)
                              /\ Receive(Append(out, Response(p, ok)), heard, old)
    BY <1>1, <1>2, <1>5 DEF HostTransceive, Refused
  <2>2. ok = TRUE /\ awake'
    <3>1. awake \/ Opcode(p) = "init"
      BY <1>1, Opcodes, SetUpGroups
    <3> QED
      BY <1>1, <2>1, <3>1, Opcodes, SetUpGroups DEF OnCommand, TypeOK
  <2>3. answer' = Response(p, TRUE) /\ out' = <<>>
    <3> DEFINE q == Append(out, Response(p, ok))
    <3>1. Response(p, TRUE) \in {Response(p, TRUE)}
      OBVIOUS
    <3>2. q # <<>> /\ Head(q) = Response(p, TRUE) /\ Tail(q) = <<>>
      BY <1>1, <2>2, <3>1, ShortQueues
    <3>3. Receive(q, heard, old)
      BY <2>1
    <3> HIDE DEF q
    <3> QED
      BY <1>1, <3>2, <3>3 DEF Receive
  <2>4. Accepted(p)
    BY <2>3 DEF Accepted, Response, Packet
  <2>5. pc' = After(p) /\ pc' # "ntf2"
    <3>1. \A k \in 0 .. 5 : ModeStep(k) # "ntf2"
      <4>1. \A j \in 15 .. 20 : Way[j] # "ntf2"
        BY DEF Way
      <4> QED
        BY <4>1, ModeStepAhead
    <3>2. After(p) # "ntf2"
      <4>1. p \in {"init2", "prop_act", "map", "routing", "sel_rsp", "llcp"}
              => \E k \in 0 .. 5 : After(p) = ModeStep(k)
        BY ModeSuccessors
      <4> QED
        BY <1>5, <3>1, <4>1, Successors, Groups DEF Early, Chain
    <3> QED
      BY <1>2, <2>4, <3>2
  <2> QED
    BY <1>1, <1>3, <2>2, <2>3, <2>5 DEF OnCourse
<1> QED
  BY <1>4, <1>5

(* A set-up that is on course stays on it, at the first attempt.             *)
LEMMA CourseKept ==
  ASSUME TypeOK, OnCourse, Next
  PROVE  OnCourse' /\ (pc # "ready" => pc' # "reset")
PROOF
<1>1. calm
  BY DEF OnCourse
<1>2. CASE Begin
  BY <1>1, <1>2, Groups DEF Begin, OnCourse, Early, Chain
<1>3. CASE CheckDevPres
  <2>1. /\ pc = "reset" /\ out = <<>> /\ calm' = calm
        /\ \E heard \in BOOLEAN : Receive(out \o ResetReply, heard, Nothing)
        /\ IF answer'.op = "reset" /\ ~answer'.ntf THEN pc' = "ntf" ELSE Retry
    BY <1>1, <1>3 DEF CheckDevPres, OnCourse
  <2>2. answer' = ResetDone /\ \E x \in Notices : out' = <<x>>
    BY <1>1, <2>1, ResetHeard
  <2>3. pc' = "ntf"
    BY <2>1, <2>2 DEF ResetDone, Packet
  <2> QED
    BY <1>1, <2>1, <2>2, <2>3, Groups DEF OnCourse, Early, Chain
<1>4. CASE CatchNtf
  <2>1. /\ pc = "ntf" /\ calm' = calm
        /\ \E heard \in BOOLEAN : Receive(out, heard, Nothing)
        /\ IF answer' \in {Nothing, Recovered, ResetNtf} THEN pc' = "init" ELSE Retry
    BY <1>4 DEF CatchNtf
  <2>2. PICK x \in Notices : out = <<x>>
    BY <2>1 DEF OnCourse
  <2>3. answer' = x /\ out' = <<>>
    BY <1>1, <2>1, <2>2, NoticeHeard
  <2>4. pc' = "init"
    BY <2>1, <2>3 DEF Notices
  <2> QED
    BY <1>1, <2>1, <2>3, <2>4 DEF OnCourse
<1>5. CASE CatchSecondNtf
  <2>1. /\ pc = "ntf2" /\ pc' = "init2" /\ calm' = calm
        /\ \E heard \in BOOLEAN : Receive(out, heard, answer)
    BY <1>5 DEF CatchSecondNtf
  <2>2. PICK x \in Notices : out = <<x>>
    BY <2>1 DEF OnCourse
  <2>3. out' = <<>>
    BY <1>1, <2>1, <2>2, NoticeHeard
  <2> QED
    BY <1>1, <2>1, <2>3 DEF OnCourse
<1>6. CASE PowerLoss \/ NewBuild \/ CalmsDown
  BY <1>1, <1>6 DEF PowerLoss, NewBuild, CalmsDown
<1> QED
  BY <1>2, <1>3, <1>4, <1>5, <1>6, CommandHeard DEF Next, Setup, Connect

(* One that is on course never takes another attempt, and never fails.       *)
LEMMA CourseAhead ==
  ASSUME TypeOK, OnCourse, Next, pc # "ready"
  PROVE  Ahead
PROOF
<1>1. calm /\ pc \notin {"off", "ready", "failed"} /\ OnCourse'
  BY CourseKept DEF OnCourse
<1>2. Setup
  BY <1>1 DEF Next, PowerLoss, NewBuild, CalmsDown
<1>3. Advances /\ pc' # "failed" /\ pc' # "reset"
  BY <1>1, <1>2, SetupAdvances, CourseKept DEF OnCourse
<1> QED
  BY <1>3 DEF Advances

(* NxpNci_Connect, ConfigureSettings and ConfigureMode: every step of a      *)
(* set-up, whatever fails, comes nearer to its end, which is a success, the   *)
(* next of three attempts or a failure; and once nothing fails any more, the *)
(* next set-up meets no packet of an earlier one, whatever was left behind,   *)
(* and goes on its way to the success without another attempt.               *)
THEOREM RecoveryCorrect == Spec => [][Recovering]_vars
PROOF
<1>1. TypeOK /\ [Next]_vars => [Recovering]_vars
  <2> SUFFICES ASSUME TypeOK, Next
               PROVE  Recovering
    OBVIOUS
  <2>1. calm /\ Begin => OnCourse'
    BY Groups DEF Begin, OnCourse, Early, Chain
  <2> QED
    BY <2>1, SetupAdvances, CourseKept, CourseAhead DEF Recovering
<1> QED
  BY <1>1, TypeCorrect, PTL DEF Spec
=============================================================================
