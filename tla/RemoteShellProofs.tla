-------------------------- MODULE RemoteShellProofs --------------------------
(***************************************************************************)
(* Proofs about RemoteShell, for every size of the ring buffer and every    *)
(* bound on the bytes typed: type correctness, the console is never         *)
(* diverted to a dead worker, no two workers run, and the network core is   *)
(* sent the bytes typed for it.                                             *)
(***************************************************************************)
EXTENDS RemoteShell, SequenceTheorems, FiniteSetTheorems, TLAPS

USE DEF vars, ringVars, ipcVars, histVars

WorkerLocations == Enter \cup Loop \cup Leave \cup Dead

(* The conjuncts of TypeOK, grouped by what the actions disturb together.    *)
FlagsOK ==
  /\ remote_shell_running \in BOOLEAN /\ stop_requested \in BOOLEAN
  /\ bypass \in BOOLEAN /\ bridge_active \in BOOLEAN
  /\ ept \in BOOLEAN /\ connected \in BOOLEAN
  /\ peripheral \in BOOLEAN /\ failed \in BOOLEAN /\ stopping \in BOOLEAN

LocationsOK ==
  /\ wpc \in WorkerLocations
  /\ spc \in {"ready", "re_register", "re_bond"}
  /\ cb \in {"drop", "bridge"}

CountersOK ==
  /\ bridge_esc_state \in {0, 1} /\ write_sem \in {0, 1} /\ bond_sem \in {0, 1}
  /\ claimed \in Nat /\ written \in Nat

BytesOK ==
  /\ ring \in Seq(Bytes) /\ Len(ring) <= RingSize
  /\ sent \in Seq(Bytes)
  /\ typed \in Seq(Bytes \cup {"reset"})
  /\ dropped \subseteq Nat

LEMMA TypeParts == TypeOK <=> FlagsOK /\ LocationsOK /\ CountersOK /\ BytesOK
BY DEF TypeOK, FlagsOK, LocationsOK, CountersOK, BytesOK, WorkerLocations

-----------------------------------------------------------------------------
(* The ring buffer                                                           *)

Rings   == {r \in Seq(Bytes) : Len(r) <= RingSize}
Buffers == [ring : Rings, wake : BOOLEAN, dropped : SUBSET Nat]

(* Putting a byte never exceeds the capacity.                                *)
LEMMA PutType ==
  ASSUME NEW buf \in Buffers, NEW b \in Bytes, NEW i \in Nat
  PROVE  Put(buf, b, i) \in Buffers
<1>0. buf.ring \in Seq(Bytes) /\ Len(buf.ring) <= RingSize /\ buf.dropped \in SUBSET Nat
  BY DEF Buffers, Rings
<1>1. CASE Len(buf.ring) < RingSize
  <2>1. Append(buf.ring, b) \in Seq(Bytes)
    BY <1>0
  <2>2. Len(Append(buf.ring, b)) = Len(buf.ring) + 1
    BY <1>0
  <2>3. Len(Append(buf.ring, b)) <= RingSize
    BY <1>0, <1>1, <2>2, LenProperties, BridgeAssumption
  <2>4. Append(buf.ring, b) \in Rings
    BY <2>1, <2>3 DEF Rings
  <2>5. [buf EXCEPT !.ring = Append(@, b), !.wake = TRUE] \in Buffers
    BY <2>4 DEF Buffers
  <2>6. QED
    BY <1>1, <2>5 DEF Put
<1>2. CASE ~(Len(buf.ring) < RingSize)
  <2>1. [buf EXCEPT !.dropped = @ \cup {i}] \in Buffers
    BY <1>0 DEF Buffers
  <2>2. QED
    BY <1>2, <2>1 DEF Put
<1>3. QED
  BY <1>1, <1>2

LEMMA HeldBackType ==
  ASSUME NEW buf \in Buffers, NEW b \in Bytes, BytesOK
  PROVE  HeldBack(buf, b) \in Buffers
<1>1. Len(typed) \in Nat
  BY DEF BytesOK
<1>2. Put(buf, CtrlA, Len(typed)) \in Buffers
  BY <1>1, PutType DEF Bytes
<1>3. QED
  BY <1>2 DEF HeldBack

(* A byte typed leaves the types of the buffers and of the histories alone.  *)
LEMMA TypeByteBytes ==
  ASSUME NEW b \in Bytes, TypeByte(b), BytesOK
  PROVE  BytesOK'
<1> DEFINE i   == Len(typed) + 1
           buf == [ring |-> ring, wake |-> FALSE, dropped |-> dropped]
           pre == HeldBack(buf, b)
           new == IF b = CtrlA \/ (bridge_esc_state = 1 /\ b = CtrlX) THEN pre ELSE Put(pre, b, i)
<1>1. buf \in Buffers
  BY DEF BytesOK, Buffers, Rings
<1>2. pre \in Buffers
  BY <1>1, HeldBackType
<1>3. i \in Nat
  BY DEF BytesOK
<1>4. Put(pre, b, i) \in Buffers
  BY <1>2, <1>3, PutType
<1>5. new \in Buffers
  BY <1>2, <1>4
<1>6. ring' = new.ring /\ dropped' = new.dropped /\ typed' = Append(typed, b) /\ sent' = sent
  BY DEF TypeByte
<1> HIDE DEF new
<1>7. ring' \in Seq(Bytes) /\ Len(ring') <= RingSize /\ dropped' \subseteq Nat
  BY <1>5, <1>6 DEF Buffers, Rings
<1>8. typed' \in Seq(Bytes \cup {"reset"})
  BY <1>6 DEF BytesOK
<1>9. QED
  BY <1>6, <1>7, <1>8 DEF BytesOK

(* ring_buf_get_finish only removes bytes.                                   *)
LEMMA FinishBytes ==
  ASSUME Finish, BytesOK, CountersOK
  PROVE  BytesOK'
<1>1. ring' = SubSeq(ring, written + 1, Len(ring)) /\ UNCHANGED <<sent, typed, dropped>>
  BY DEF Finish
<1>2. ring \in Seq(Bytes) /\ Len(ring) \in Nat /\ written \in Nat
  BY DEF BytesOK, CountersOK
<1>3. \A k \in written + 1 .. Len(ring) : ring[k] \in Bytes
  BY <1>2
<1>4. ring' \in Seq(Bytes)
  BY <1>1, <1>2, <1>3, SubSeqProperties
<1>5. Len(ring') = IF written + 1 <= Len(ring) THEN Len(ring) - written ELSE 0
  BY <1>1, <1>2, SubSeqProperties
<1>6. Len(ring') <= RingSize
  BY <1>2, <1>5, BridgeAssumption DEF BytesOK
<1>7. QED
  BY <1>1, <1>4, <1>6 DEF BytesOK

(* A claim stays within the ring buffer, and the bytes being written are the *)
(* last ones claimed.                                                        *)
ClaimOK ==
  /\ claimed <= Len(ring)
  /\ wpc \in {"write", "finish"} => written <= claimed

(* shell_ipc_host_write hands over bytes of the ring buffer.                 *)
LEMMA WriteBytes ==
  ASSUME Write, BytesOK, CountersOK, ClaimOK
  PROVE  BytesOK'
<1>0. UNCHANGED <<ring, typed, dropped>>
  BY DEF Write
<1>1. wpc = "write" /\ written <= claimed /\ claimed <= Len(ring)
  BY DEF Write, Goto, ClaimOK
<1>2. ring \in Seq(Bytes) /\ Len(ring) \in Nat /\ written \in Nat /\ claimed \in Nat
  BY DEF BytesOK, CountersOK
<1>3. \A k \in claimed - written + 1 .. claimed : ring[k] \in Bytes
  BY <1>1, <1>2
<1>4. SubSeq(ring, claimed - written + 1, claimed) \in Seq(Bytes)
  BY <1>2, <1>3, SubSeqProperties
<1>5. sent' = sent \o SubSeq(ring, claimed - written + 1, claimed) \/ sent' = sent
  BY DEF Write
<1>6. sent' \in Seq(Bytes)
  BY <1>4, <1>5, ConcatProperties DEF BytesOK
<1>7. QED
  BY <1>0, <1>6 DEF BytesOK

(* A byte typed only lengthens the ring buffer.                              *)
LEMMA PutLonger ==
  ASSUME NEW buf \in Buffers, NEW b \in Bytes, NEW i \in Nat
  PROVE  Len(Put(buf, b, i).ring) >= Len(buf.ring)
<1>1. buf.ring \in Seq(Bytes) /\ Len(Append(buf.ring, b)) = Len(buf.ring) + 1
  BY DEF Buffers, Rings
<1>2. CASE Len(buf.ring) < RingSize
  <2>1. Put(buf, b, i).ring = Append(buf.ring, b)
    BY <1>2 DEF Put, Buffers
  <2>2. QED
    BY <1>1, <2>1
<1>3. CASE ~(Len(buf.ring) < RingSize)
  <2>1. Put(buf, b, i).ring = buf.ring
    BY <1>3 DEF Put, Buffers
  <2>2. QED
    BY <1>1, <2>1
<1>4. QED
  BY <1>2, <1>3

LEMMA TypeByteClaim ==
  ASSUME NEW b \in Bytes, TypeByte(b), BytesOK, CountersOK, ClaimOK
  PROVE  ClaimOK'
<1> DEFINE i   == Len(typed) + 1
           buf == [ring |-> ring, wake |-> FALSE, dropped |-> dropped]
           pre == HeldBack(buf, b)
           new == IF b = CtrlA \/ (bridge_esc_state = 1 /\ b = CtrlX) THEN pre ELSE Put(pre, b, i)
<1>1. buf \in Buffers /\ Len(typed) \in Nat /\ CtrlA \in Bytes /\ buf.ring = ring
  BY DEF BytesOK, Buffers, Rings, Bytes
<1>2. pre \in Buffers
  BY <1>1, HeldBackType
<1>3. Len(pre.ring) >= Len(ring)
  <2>1. Len(Put(buf, CtrlA, Len(typed)).ring) >= Len(buf.ring)
    BY <1>1, PutLonger
  <2>2. QED
    BY <1>1, <2>1 DEF HeldBack, BytesOK
<1>4. Len(Put(pre, b, i).ring) >= Len(pre.ring)
  BY <1>1, <1>2, PutLonger
<1>5. Put(pre, b, i) \in Buffers
  BY <1>1, <1>2, PutType
<1>6. Len(ring') >= Len(ring)
  <2>1. ring' = new.ring
    BY DEF TypeByte
  <2>2. Len(pre.ring) \in Nat /\ Len(Put(pre, b, i).ring) \in Nat /\ Len(ring) \in Nat
    BY <1>2, <1>5 DEF Buffers, Rings, BytesOK
  <2> HIDE DEF pre
  <2>3. CASE b = CtrlA \/ (bridge_esc_state = 1 /\ b = CtrlX)
    BY <2>1, <2>3, <1>3
  <2>4. CASE ~(b = CtrlA \/ (bridge_esc_state = 1 /\ b = CtrlX))
    BY <2>1, <2>2, <2>4, <1>3, <1>4
  <2>5. QED
    BY <2>3, <2>4
<1>7. BytesOK' /\ UNCHANGED <<claimed, written, wpc>>
  BY TypeByteBytes DEF TypeByte
<1>8. QED
  BY <1>6, <1>7 DEF ClaimOK, BytesOK, CountersOK

-----------------------------------------------------------------------------
(* Type correctness *)

LEMMA InitType == Init => TypeOK /\ ClaimOK
<1> SUFFICES ASSUME Init PROVE TypeOK /\ ClaimOK
  OBVIOUS
<1>1. FlagsOK
  BY DEF Init, FlagsOK
<1>2. LocationsOK
  BY DEF Init, LocationsOK, WorkerLocations, Dead
<1>3. CountersOK
  BY DEF Init, CountersOK
<1>4. BytesOK
  BY BridgeAssumption DEF Init, BytesOK
<1>5. ClaimOK
  BY DEF Init, ClaimOK
<1>6. QED
  BY <1>1, <1>2, <1>3, <1>4, <1>5, TypeParts

LEMMA FlagsStep ==
  ASSUME TypeOK, Next
  PROVE  FlagsOK'
<1>0. FlagsOK
  BY TypeParts
<1>1. CASE Shell
  <2>1. ASSUME NEW b \in Bytes, TypeByte(b) PROVE FlagsOK'
    BY <2>1, <1>0 DEF TypeByte, FlagsOK
  <2>2. CASE StartCmd
    BY <2>2, <1>0 DEF StartCmd, FlagsOK
  <2>3. CASE StopCmd
    BY <2>3, <1>0 DEF StopCmd, AskStop, FlagsOK
  <2>4. CASE PeripheralCmd
    BY <2>4, <1>0 DEF PeripheralCmd, FlagsOK
  <2>5. QED
    BY <1>1, <2>1, <2>2, <2>3, <2>4 DEF Shell
<1>2. CASE ShellIpcInit \/ WorkerIpcInit
  <2>1. UNCHANGED <<remote_shell_running, stop_requested, bypass, bridge_active,
                    peripheral, failed, stopping>>
    BY <1>2 DEF ShellIpcInit, WorkerIpcInit
  <2>2. ASSUME NEW ok \in BOOLEAN, Registers(ok)
        PROVE  ept' \in BOOLEAN /\ connected' \in BOOLEAN
    BY <2>2, <1>0 DEF Registers, FlagsOK
  <2>3. ASSUME BondOk \/ BondTimeout PROVE ept' \in BOOLEAN /\ connected' \in BOOLEAN
    BY <2>3, <1>0 DEF BondOk, BondTimeout, FlagsOK
  <2>4. ept' \in BOOLEAN /\ connected' \in BOOLEAN
    BY <1>2, <2>2, <2>3 DEF ShellIpcInit, WorkerIpcInit
  <2>5. QED
    BY <1>0, <2>1, <2>4 DEF FlagsOK
<1>3. CASE SetActive \/ ClearStop \/ SetCallback \/ TestEndpoint \/ InitFailed
  BY ZenonT(60), <1>3, <1>0 DEF SetActive, ClearStop, SetCallback, TestEndpoint, InitFailed, FlagsOK
<1>4. CASE SetBypass \/ LoopTest \/ SemTake \/ IsConnected \/ Claim
  BY ZenonT(60), <1>4, <1>0 DEF SetBypass, LoopTest, SemTake, IsConnected, Claim, FlagsOK
<1>5. CASE Write \/ Finish \/ ClearBypass \/ Prebind
  BY ZenonT(60), <1>5, <1>0 DEF Write, Finish, ClearBypass, Prebind, FlagsOK
<1>6. CASE SetInactive \/ ClearRunning \/ ThreadEnds
  BY <1>6, <1>0 DEF SetInactive, ClearRunning, ThreadEnds, FlagsOK
<1>7. CASE Ipc
  BY <1>7, <1>0 DEF Ipc, Bound, Unbound, FlagsOK
<1>8. QED
  BY <1>1, <1>2, <1>3, <1>4, <1>5, <1>6, <1>7 DEF Next, Worker

LEMMA LocationsStep ==
  ASSUME TypeOK, Next
  PROVE  LocationsOK'
<1>0. LocationsOK
  BY TypeParts
<1> USE DEF LocationsOK, WorkerLocations, Enter, Loop, Leave, Dead, Goto
<1>1. CASE Shell
  <2>1. ASSUME NEW b \in Bytes, TypeByte(b) PROVE LocationsOK'
    BY <2>1, <1>0 DEF TypeByte
  <2>2. CASE StartCmd
    BY <2>2, <1>0 DEF StartCmd
  <2>3. CASE StopCmd
    BY <2>3, <1>0 DEF StopCmd
  <2>4. CASE PeripheralCmd
    BY <2>4, <1>0 DEF PeripheralCmd
  <2>5. QED
    BY <1>1, <2>1, <2>2, <2>3, <2>4 DEF Shell
<1>2. CASE ShellIpcInit
  BY <1>2, <1>0 DEF ShellIpcInit
<1>3. CASE WorkerIpcInit
  BY <1>3, <1>0 DEF WorkerIpcInit
<1>4. CASE SetActive \/ ClearStop \/ SetCallback \/ TestEndpoint \/ InitFailed
  BY <1>4, <1>0 DEF SetActive, ClearStop, SetCallback, TestEndpoint, InitFailed
<1>5. CASE SetBypass \/ LoopTest \/ SemTake \/ IsConnected \/ Claim
  BY <1>5, <1>0 DEF SetBypass, LoopTest, SemTake, IsConnected, Claim
<1>6. CASE Write \/ Finish \/ ClearBypass \/ Prebind
  BY <1>6, <1>0 DEF Write, Finish, ClearBypass, Prebind
<1>7. CASE SetInactive \/ ClearRunning \/ ThreadEnds
  BY <1>7, <1>0 DEF SetInactive, ClearRunning, ThreadEnds
<1>8. CASE Ipc
  BY <1>8, <1>0 DEF Ipc, Bound, Unbound
<1>9. QED
  BY <1>1, <1>2, <1>3, <1>4, <1>5, <1>6, <1>7, <1>8 DEF Next, Worker

LEMMA CountersStep ==
  ASSUME TypeOK, Next
  PROVE  CountersOK'
<1>0. CountersOK /\ Len(ring) \in Nat
  BY TypeParts DEF BytesOK
<1> USE DEF CountersOK
<1>1. CASE Shell
  <2>1. ASSUME NEW b \in Bytes, TypeByte(b) PROVE CountersOK'
    <3>1. bridge_esc_state' \in {0, 1} /\ write_sem' \in {0, 1}
      BY <2>1, <1>0 DEF TypeByte
    <3>2. UNCHANGED <<claimed, written, bond_sem>>
      BY <2>1 DEF TypeByte
    <3>3. QED
      BY <1>0, <3>1, <3>2
  <2>2. CASE StartCmd
    BY <2>2, <1>0 DEF StartCmd
  <2>3. CASE StopCmd
    BY <2>3, <1>0 DEF StopCmd, DiscardEscape
  <2>4. CASE PeripheralCmd
    BY <2>4, <1>0 DEF PeripheralCmd
  <2>5. QED
    BY <1>1, <2>1, <2>2, <2>3, <2>4 DEF Shell
<1>2. CASE ShellIpcInit \/ WorkerIpcInit
  <2>1. UNCHANGED <<bridge_esc_state, claimed, write_sem, written>>
    BY <1>2 DEF ShellIpcInit, WorkerIpcInit
  <2>2. bond_sem' \in {0, 1}
    BY <1>2, <1>0 DEF ShellIpcInit, WorkerIpcInit, Registers, BondOk, BondTimeout
  <2>3. QED
    BY <1>0, <2>1, <2>2
<1>3. CASE SetActive \/ ClearStop \/ SetCallback \/ TestEndpoint \/ InitFailed
  BY <1>3, <1>0 DEF SetActive, ClearStop, DiscardEscape, SetCallback, TestEndpoint, InitFailed
<1>4. CASE SetBypass \/ LoopTest \/ SemTake \/ IsConnected
  BY <1>4, <1>0 DEF SetBypass, LoopTest, SemTake, IsConnected
<1>5. CASE Claim
  <2>1. UNCHANGED <<bridge_esc_state, write_sem, bond_sem>>
    BY <1>5 DEF Claim
  <2>2. claimed' \in Nat /\ written' \in Nat
    BY <1>5, <1>0 DEF Claim
  <2>3. QED
    BY <1>0, <2>1, <2>2
<1>6. CASE Write \/ Finish \/ ClearBypass \/ Prebind
  BY <1>6, <1>0 DEF Write, Finish, ClearBypass, Prebind
<1>7. CASE SetInactive \/ ClearRunning \/ ThreadEnds
  BY <1>7, <1>0 DEF SetInactive, ClearRunning, ThreadEnds
<1>8. CASE Ipc
  BY <1>8, <1>0 DEF Ipc, Bound, Unbound
<1>9. QED
  BY <1>1, <1>2, <1>3, <1>4, <1>5, <1>6, <1>7, <1>8 DEF Next, Worker

(* The actions that touch neither the buffers nor a claim.                   *)
Quiet == UNCHANGED <<ring, claimed, written, sent, dropped>>

LEMMA QuietBytes ==
  ASSUME BytesOK, ClaimOK, Quiet, typed' = typed \/ typed' = Append(typed, "reset"),
         wpc' \in {"write", "finish"} => wpc \in {"write", "finish"}
  PROVE  BytesOK' /\ ClaimOK'
<1>1. typed' \in Seq(Bytes \cup {"reset"})
  BY SMTT(30) DEF BytesOK
<1>2. QED
  BY <1>1 DEF BytesOK, ClaimOK, Quiet

LEMMA BytesStep ==
  ASSUME TypeOK, ClaimOK, Next
  PROVE  BytesOK' /\ ClaimOK'
<1>0. BytesOK /\ CountersOK /\ Len(ring) \in Nat
  BY TypeParts DEF BytesOK
<1>1. ASSUME NEW b \in Bytes, TypeByte(b) PROVE BytesOK' /\ ClaimOK'
  BY <1>0, <1>1, TypeByteBytes, TypeByteClaim
<1>2. CASE StartCmd \/ StopCmd \/ PeripheralCmd \/ ShellIpcInit
  <2>1. Quiet /\ (typed' = typed \/ typed' = Append(typed, "reset"))
    BY <1>2 DEF StartCmd, StopCmd, DiscardEscape, PeripheralCmd, ShellIpcInit, Quiet
  <2>2. wpc' \in {"write", "finish"} => wpc \in {"write", "finish"}
    BY <1>2 DEF StartCmd, StopCmd, PeripheralCmd, ShellIpcInit
  <2>3. QED
    BY <1>0, <2>1, <2>2, QuietBytes
<1>3. CASE WorkerIpcInit
  <2>1. Quiet /\ typed' = typed
    BY <1>3 DEF WorkerIpcInit, Quiet
  <2>2. wpc' \notin {"write", "finish"}
    BY <1>3 DEF WorkerIpcInit
  <2>3. QED
    BY <1>0, <2>1, <2>2, QuietBytes
<1>4. CASE SetActive \/ ClearStop \/ SetCallback \/ TestEndpoint \/ InitFailed
  <2>1. Quiet /\ (typed' = typed \/ typed' = Append(typed, "reset"))
    BY <1>4 DEF SetActive, ClearStop, DiscardEscape, SetCallback, TestEndpoint, InitFailed, Quiet
  <2>2. wpc' \notin {"write", "finish"}
    BY <1>4 DEF SetActive, ClearStop, SetCallback, TestEndpoint, InitFailed, Goto
  <2>3. QED
    BY <1>0, <2>1, <2>2, QuietBytes
<1>5. CASE SetBypass \/ LoopTest \/ SemTake \/ IsConnected
  <2>1. Quiet /\ typed' = typed
    BY <1>5 DEF SetBypass, LoopTest, SemTake, IsConnected, Quiet
  <2>2. wpc' \notin {"write", "finish"}
    BY <1>5 DEF SetBypass, LoopTest, SemTake, IsConnected, Goto
  <2>3. QED
    BY <1>0, <2>1, <2>2, QuietBytes
<1>6. CASE Claim
  <2>1. UNCHANGED <<ring, sent, typed, dropped>>
    BY <1>6 DEF Claim
  <2>2. claimed' <= Len(ring') /\ (wpc' \in {"write", "finish"} => written' <= claimed')
    BY <1>6, <1>0 DEF Claim, Goto, ClaimOK, CountersOK
  <2>3. QED
    BY <1>0, <2>1, <2>2 DEF BytesOK, ClaimOK
<1>7. CASE Write
  <2>1. UNCHANGED <<ring, claimed>> /\ wpc = "write" /\ written' \in {written, 0}
    BY <1>7 DEF Write, Goto
  <2>2. ClaimOK'
    BY <2>1, <1>0 DEF ClaimOK, CountersOK
  <2>3. QED
    BY <1>0, <1>7, <2>2, WriteBytes
<1>8. CASE Finish
  <2>1. BytesOK'
    BY <1>0, <1>8, FinishBytes
  <2>2. claimed' = 0 /\ wpc' = "loop"
    BY <1>8 DEF Finish, Goto
  <2>3. Len(ring') \in Nat
    BY <2>1 DEF BytesOK
  <2>4. QED
    BY <2>1, <2>2, <2>3 DEF ClaimOK
<1>9. CASE ClearBypass \/ Prebind \/ SetInactive \/ ClearRunning \/ ThreadEnds
  <2>1. Quiet /\ typed' = typed
    BY <1>9 DEF ClearBypass, Prebind, SetInactive, ClearRunning, ThreadEnds, Quiet
  <2>2. wpc' \notin {"write", "finish"}
    BY <1>9 DEF ClearBypass, Prebind, SetInactive, ClearRunning, ThreadEnds, Goto
  <2>3. QED
    BY <1>0, <2>1, <2>2, QuietBytes
<1>10. CASE Ipc
  <2>1. Quiet /\ typed' = typed /\ wpc' = wpc
    BY <1>10 DEF Ipc, Bound, Unbound, Quiet
  <2>2. QED
    BY <1>0, <2>1, QuietBytes
<1>11. QED
  BY <1>1, <1>2, <1>3, <1>4, <1>5, <1>6, <1>7, <1>8, <1>9, <1>10
     DEF Next, Shell, Worker

(* The inductive invariant: types, and claims within the ring buffer.  The   *)
(* second part is needed for the first: what Write sends are bytes only      *)
(* because the claim lies within the buffer.                                 *)
THEOREM TypeInductive == Spec => [](TypeOK /\ ClaimOK)
<1>1. Init => TypeOK /\ ClaimOK
  BY InitType
<1>2. TypeOK /\ ClaimOK /\ [Next]_vars => (TypeOK /\ ClaimOK)'
  <2> SUFFICES ASSUME TypeOK, ClaimOK, [Next]_vars PROVE TypeOK' /\ ClaimOK'
    OBVIOUS
  <2>1. CASE Next
    <3>1. FlagsOK' /\ LocationsOK' /\ CountersOK' /\ BytesOK' /\ ClaimOK'
      BY <2>1, FlagsStep, LocationsStep, CountersStep, BytesStep
    <3>2. TypeOK'
      BY <3>1 DEF TypeOK, FlagsOK, LocationsOK, CountersOK, BytesOK, WorkerLocations
    <3>3. QED
      BY <3>1, <3>2
  <2>2. CASE UNCHANGED vars
    <3>1. TypeOK'
      BY <2>2 DEF TypeOK
    <3>2. ClaimOK'
      BY <2>2 DEF ClaimOK
    <3>3. QED
      BY <3>1, <3>2
  <2>3. QED
    BY <2>1, <2>2
<1>3. QED
  BY <1>1, <1>2, PTL DEF Spec

(* Every reachable state is well typed; in particular the ring buffer never  *)
(* holds more than its capacity.                                             *)
THEOREM TypeCorrect == Spec => []TypeOK
BY TypeInductive, PTL

-----------------------------------------------------------------------------
(* The console *)

(* While the console is diverted the worker is in its loop: every exit of    *)
(* the loop removes the bypass, and no start can come in between.            *)
THEOREM ConsoleCorrect == Spec => []ConsoleOwned
<1>1. Init => ConsoleOwned
  BY DEF Init, ConsoleOwned
<1>2. ConsoleOwned /\ [Next]_vars => ConsoleOwned'
  <2> SUFFICES ASSUME ConsoleOwned, [Next]_vars PROVE ConsoleOwned'
    OBVIOUS
  <2> USE DEF ConsoleOwned, Loop, Goto
  <2>1. CASE Shell
    BY <2>1 DEF Shell, TypeByte, StartCmd, StopCmd, PeripheralCmd, Prompt
  <2>2. CASE ShellIpcInit
    BY <2>2 DEF ShellIpcInit
  <2>3. CASE WorkerIpcInit
    BY <2>3 DEF WorkerIpcInit
  <2>4. CASE SetActive \/ ClearStop \/ SetCallback \/ TestEndpoint \/ InitFailed
    BY <2>4 DEF SetActive, ClearStop, SetCallback, TestEndpoint, InitFailed
  <2>5. CASE SetBypass \/ LoopTest \/ SemTake \/ IsConnected \/ Claim
    BY <2>5 DEF SetBypass, LoopTest, SemTake, IsConnected, Claim
  <2>6. CASE Write \/ Finish \/ ClearBypass \/ Prebind
    BY <2>6 DEF Write, Finish, ClearBypass, Prebind
  <2>7. CASE SetInactive \/ ClearRunning \/ ThreadEnds
    BY <2>7 DEF SetInactive, ClearRunning, ThreadEnds
  <2>8. CASE Ipc
    BY <2>8 DEF Ipc, Bound, Unbound
  <2>9. CASE UNCHANGED vars
    BY <2>9
  <2>10. QED
    BY <2>1, <2>2, <2>3, <2>4, <2>5, <2>6, <2>7, <2>8, <2>9 DEF Next, Worker
<1>3. QED
  BY <1>1, <1>2, PTL DEF Spec

-----------------------------------------------------------------------------
(* One worker at a time *)

(* The flag that guards the start covers the worker up to its last statement. *)
RunningCovers == wpc \notin Dead => remote_shell_running

LEMMA RunningCorrect == Spec => []RunningCovers
<1>1. Init => RunningCovers
  BY DEF Init, RunningCovers, Dead
<1>2. RunningCovers /\ [Next]_vars => RunningCovers'
  <2> SUFFICES ASSUME RunningCovers, [Next]_vars PROVE RunningCovers'
    OBVIOUS
  <2> USE DEF RunningCovers, Dead, Goto
  <2>1. CASE Shell
    BY <2>1 DEF Shell, TypeByte, StartCmd, StopCmd, PeripheralCmd
  <2>2. CASE ShellIpcInit
    BY <2>2 DEF ShellIpcInit
  <2>3. CASE WorkerIpcInit
    BY <2>3 DEF WorkerIpcInit
  <2>4. CASE SetActive \/ ClearStop \/ SetCallback \/ TestEndpoint \/ InitFailed
    BY <2>4 DEF SetActive, ClearStop, SetCallback, TestEndpoint, InitFailed
  <2>5. CASE SetBypass \/ LoopTest \/ SemTake \/ IsConnected \/ Claim
    BY <2>5 DEF SetBypass, LoopTest, SemTake, IsConnected, Claim
  <2>6. CASE Write \/ Finish \/ ClearBypass \/ Prebind
    BY <2>6 DEF Write, Finish, ClearBypass, Prebind
  <2>7. CASE SetInactive \/ ClearRunning \/ ThreadEnds
    BY <2>7 DEF SetInactive, ClearRunning, ThreadEnds
  <2>8. CASE Ipc
    BY <2>8 DEF Ipc, Bound, Unbound
  <2>9. CASE UNCHANGED vars
    BY <2>9
  <2>10. QED
    BY <2>1, <2>2, <2>3, <2>4, <2>5, <2>6, <2>7, <2>8, <2>9 DEF Next, Worker
<1>3. QED
  BY <1>1, <1>2, PTL DEF Spec

(* A start creates a thread only when no worker has a statement of the       *)
(* bridge left to execute.                                                   *)
THEOREM OneWorkerCorrect == Spec => OneWorker
<1>1. RunningCovers /\ [Next]_vars => [StartCmd => wpc \in Dead]_vars
  BY DEF RunningCovers, StartCmd, MayStart
<1>2. QED
  BY <1>1, RunningCorrect, PTL DEF Spec, OneWorker

-----------------------------------------------------------------------------
(* Listing a finite set of positions in order, by counting *)

Rank(K, i)   == Cardinality({j \in K : j <= i})
Ranked(K)    == \A k \in 1 .. Cardinality(K) : \E i \in K : Rank(K, i) = k
Listed(K, f) == [k \in 1 .. Cardinality(K) |-> f[CHOOSE i \in K : Rank(K, i) = k]]

Below(K, m)    == \A i \in K : i < m
Agree(K, f, g) == \A i \in K : g[i] = f[i]

LEMMA RankIncreases ==
  ASSUME NEW K \in SUBSET Nat, IsFiniteSet(K), NEW i \in K, NEW j \in K, i < j
  PROVE  Rank(K, i) < Rank(K, j)
<1> DEFINE A == {x \in K : x <= i}
           B == {x \in K : x <= j}
<1>1. IsFiniteSet(B) /\ A \in SUBSET B /\ j \in B /\ j \notin A
  <2>1. IsFiniteSet(B)
    BY FS_Subset
  <2>2. K \subseteq Nat /\ i \in Nat /\ j \in Nat
    OBVIOUS
  <2>4. \A x \in Nat : x <= i => x <= j
    BY <2>2
  <2>5. j <= j /\ ~(j <= i)
    BY <2>2
  <2>6. A \in SUBSET B /\ j \in B /\ j \notin A
    BY <2>2, <2>4, <2>5, Zenon
  <2>7. QED
    BY <2>1, <2>6
<1>2. Cardinality(A) <= Cardinality(B) /\ Cardinality(A) # Cardinality(B)
  BY <1>1, FS_Subset
<1>3. Cardinality(A) \in Nat /\ Cardinality(B) \in Nat
  BY <1>1, FS_Subset, FS_CardinalityType
<1>4. Cardinality(A) < Cardinality(B)
  <2> HIDE DEF A, B
  <2>1. QED
    BY <1>2, <1>3
<1>5. QED
  BY <1>4 DEF Rank

LEMMA RankIdentifies ==
  ASSUME NEW K \in SUBSET Nat, IsFiniteSet(K), NEW i \in K, NEW j \in K, Rank(K, i) = Rank(K, j)
  PROVE  i = j
<1>1. Rank(K, i) \in Nat /\ Rank(K, j) \in Nat
  BY FS_Subset, FS_CardinalityType DEF Rank
<1>2. CASE i < j
  BY <1>1, <1>2, RankIncreases
<1>3. CASE j < i
  BY <1>1, <1>3, RankIncreases
<1>4. QED
  BY <1>2, <1>3

(* The position with a given rank.                                           *)
LEMMA RankChosen ==
  ASSUME NEW K \in SUBSET Nat, IsFiniteSet(K), NEW i \in K, NEW k, Rank(K, i) = k
  PROVE  (CHOOSE j \in K : Rank(K, j) = k) = i
<1> DEFINE c == CHOOSE j \in K : Rank(K, j) = k
<1>1. c \in K /\ Rank(K, c) = k
  OBVIOUS
<1>2. QED
  BY <1>1, RankIdentifies

(* Equal at the positions listed, equal as lists.                            *)
LEMMA ListSame ==
  ASSUME NEW K \in SUBSET Nat, IsFiniteSet(K), Ranked(K), NEW f, NEW g, Agree(K, f, g)
  PROVE  Listed(K, g) = Listed(K, f)
<1>1. ASSUME NEW k \in 1 .. Cardinality(K)
      PROVE  g[CHOOSE i \in K : Rank(K, i) = k] = f[CHOOSE i \in K : Rank(K, i) = k]
  <2>1. PICK i \in K : Rank(K, i) = k
    BY DEF Ranked
  <2>2. (CHOOSE j \in K : Rank(K, j) = k) = i
    BY <2>1, RankChosen
  <2>3. QED
    BY <2>2 DEF Agree
<1>2. QED
  BY <1>1 DEF Listed

(* A position behind all others is listed last.                              *)
LEMMA ListAppend ==
  ASSUME NEW K \in SUBSET Nat, IsFiniteSet(K), Ranked(K), NEW m \in Nat,
         Below(K, m), NEW f, NEW g, Agree(K, f, g), NEW x, g[m] = x,
         NEW M, M = K \cup {m}
  PROVE  /\ IsFiniteSet(M) /\ Ranked(M)
         /\ Listed(M, g) = Append(Listed(K, f), x)
<1> DEFINE n == Cardinality(K)
<1> USE DEF Below, Agree
<1>1. IsFiniteSet(M) /\ Cardinality(M) = n + 1 /\ n \in Nat
  BY FS_AddElement, FS_CardinalityType
<1>2. ASSUME NEW i \in K PROVE Rank(M, i) = Rank(K, i)
  <2>1. {j \in M : j <= i} = {j \in K : j <= i}
    OBVIOUS
  <2>2. QED
    BY <2>1 DEF Rank
<1>3. Rank(M, m) = n + 1
  <2>1. {j \in M : j <= m} = M
    OBVIOUS
  <2>2. QED
    BY <2>1, <1>1 DEF Rank
<1>4. ASSUME NEW k \in 1 .. n
      PROVE  \E i \in K : Rank(K, i) = k /\ Rank(M, i) = k
  BY <1>2 DEF Ranked
<1>5. Ranked(M)
  <2> SUFFICES ASSUME NEW k \in 1 .. n + 1 PROVE \E i \in M : Rank(M, i) = k
    BY <1>1 DEF Ranked
  <2>1. CASE k \in 1 .. n
    BY <2>1, <1>4
  <2>2. CASE k = n + 1
    BY <2>2, <1>3
  <2>3. k \in 1 .. n \/ k = n + 1
    <3> HIDE DEF n
    <3>1. QED
      BY <1>1
  <2>4. QED
    BY <2>1, <2>2, <2>3
<1>6. ASSUME NEW k \in 1 .. n
      PROVE  g[CHOOSE i \in M : Rank(M, i) = k] = f[CHOOSE i \in K : Rank(K, i) = k]
  <2>1. PICK i \in K : Rank(K, i) = k /\ Rank(M, i) = k
    BY <1>4
  <2>2. (CHOOSE j \in K : Rank(K, j) = k) = i
    BY <2>1, RankChosen
  <2>3. (CHOOSE j \in M : Rank(M, j) = k) = i
    BY <2>1, <1>1, RankChosen
  <2>4. QED
    BY <2>2, <2>3
<1>7. (CHOOSE j \in M : Rank(M, j) = n + 1) = m
  BY <1>1, <1>3, RankChosen
<1>8. Listed(M, g) = [k \in 1 .. n + 1 |-> g[CHOOSE i \in M : Rank(M, i) = k]]
  BY <1>1 DEF Listed
<1>9. Append(Listed(K, f), g[m]) =
        [k \in 1 .. n + 1 |-> IF k \in 1 .. n THEN f[CHOOSE i \in K : Rank(K, i) = k] ELSE g[m]]
  <2> DEFINE F(k) == f[CHOOSE i \in K : Rank(K, i) = k]
  <2>1. Listed(K, f) = [k \in 1 .. n |-> F(k)]
    BY DEF Listed
  <2> HIDE DEF F, n
  <2>2. n \in Nat
    BY <1>1
  <2>3. Len([k \in 1 .. n |-> F(k)]) = n
    BY <2>2
  <2>4. Append([k \in 1 .. n |-> F(k)], g[m]) = [k \in 1 .. n + 1 |-> IF k \in 1 .. n THEN F(k) ELSE g[m]]
    BY <2>2, <2>3
  <2>5. QED
    BY <2>1, <2>4 DEF F
<1>10. Listed(M, g) = Append(Listed(K, f), g[m])
  <2> DEFINE F(k) == f[CHOOSE i \in K : Rank(K, i) = k]
             G(k) == g[CHOOSE i \in M : Rank(M, i) = k]
  <2>1. \A k \in 1 .. n : G(k) = F(k)
    BY <1>6
  <2>2. G(n + 1) = g[m]
    BY <1>7
  <2>3. \A k \in 1 .. n + 1 : k \in 1 .. n \/ k = n + 1
    <3> HIDE DEF n
    <3>1. QED
      BY <1>1
  <2>4. Listed(M, g) = [k \in 1 .. n + 1 |-> G(k)]
    BY <1>8
  <2>5. Append(Listed(K, f), g[m]) = [k \in 1 .. n + 1 |-> IF k \in 1 .. n THEN F(k) ELSE g[m]]
    BY <1>9
  <2>6. ~(n + 1 \in 1 .. n)
    <3> HIDE DEF n
    <3>1. QED
      BY <1>1
  <2> HIDE DEF F, G, n
  <2>7. \A k \in 1 .. n + 1 : G(k) = IF k \in 1 .. n THEN F(k) ELSE g[m]
    BY <2>1, <2>2, <2>3, <2>6
  <2>8. QED
    BY <2>4, <2>5, <2>7
<1>11. QED
  BY <1>1, <1>5, <1>10

-----------------------------------------------------------------------------
(* The bytes for the network core, against those delivered                   *)

Kept == {i \in DOMAIN typed : ForNetworkCore(i)}

(* What the ring buffer holds and has not been handed over.                  *)
Rest(r) == IF wpc = "finish" THEN SubSeq(r, written + 1, Len(r)) ELSE r

(* bridge_esc_state remembers a Ctrl+A that nothing has followed yet.        *)
EscapeKept == bridge_esc_state = 1 <=> typed # <<>> /\ typed[Len(typed)] = CtrlA

(* Only bytes that were typed are lost, and never one that is held back.     *)
LossKept ==
  /\ \A i \in dropped : i \in 1 .. Len(typed)
  /\ bridge_esc_state = 1 => Len(typed) \notin dropped

(* Until a write fails, at most one claim is open: the one being written.    *)
OneClaim == ~failed => claimed = IF wpc \in {"write", "finish"} THEN written ELSE 0

StreamInv == EscapeKept /\ LossKept /\ OneClaim /\ Ranked(Kept) /\ ByteStream

LEMMA BytesDiffer ==
  /\ CtrlA # CtrlX /\ Key # CtrlA /\ Key # CtrlX
  /\ CtrlA # "reset" /\ CtrlX # "reset" /\ Key # "reset"
<1>1. \A x, y : Cardinality({x, y}) \in {1, 2}
  <2> SUFFICES ASSUME NEW x, NEW y PROVE Cardinality({x, y}) \in {1, 2}
    OBVIOUS
  <2>1. IsFiniteSet({x}) /\ Cardinality({x}) = 1
    BY FS_Singleton
  <2>2. Cardinality({x} \cup {y}) = IF y \in {x} THEN 1 ELSE 1 + 1
    BY <2>1, FS_AddElement
  <2>3. {x} \cup {y} = {x, y}
    OBVIOUS
  <2>4. QED
    BY <2>2, <2>3
<1>2. CASE CtrlA = CtrlX
  <2>1. Bytes = {CtrlA, Key}
    BY <1>2 DEF Bytes
  <2>2. Cardinality(Bytes) \in {1, 2}
    BY <2>1, <1>1, Zenon
  <2> HIDE DEF Bytes
  <2>3. QED
    BY <2>2, BridgeAssumption
<1>3. CASE Key = CtrlA
  <2>1. Bytes = {CtrlA, CtrlX}
    BY <1>3 DEF Bytes
  <2>2. Cardinality(Bytes) \in {1, 2}
    BY <2>1, <1>1, Zenon
  <2> HIDE DEF Bytes
  <2>3. QED
    BY <2>2, BridgeAssumption
<1>4. CASE Key = CtrlX
  <2>1. Bytes = {CtrlA, CtrlX}
    BY <1>4 DEF Bytes
  <2>2. Cardinality(Bytes) \in {1, 2}
    BY <2>1, <1>1, Zenon
  <2> HIDE DEF Bytes
  <2>3. QED
    BY <2>2, BridgeAssumption
<1>5. QED
  BY <1>2, <1>3, <1>4, BridgeAssumption DEF Bytes

LEMMA KeptFinite ==
  ASSUME BytesOK
  PROVE  Kept \in SUBSET Nat /\ IsFiniteSet(Kept) /\ Kept \in SUBSET (1 .. Len(typed))
<1>1. Len(typed) \in Nat /\ DOMAIN typed = 1 .. Len(typed)
  BY DEF BytesOK
<1>2. IsFiniteSet(1 .. Len(typed))
  BY <1>1, FS_Interval
<1>3. Kept \in SUBSET (1 .. Len(typed)) /\ 1 .. Len(typed) \in SUBSET Nat
  BY <1>1 DEF Kept
<1>4. QED
  BY <1>2, <1>3, FS_Subset

(* A set, and a list, to which an element is added or not.                   *)
Extended(K, c, m)  == IF c THEN K \cup {m} ELSE K
Lengthened(s, c, x) == IF c THEN Append(s, x) ELSE s

LEMMA ListLengthened ==
  ASSUME NEW K \in SUBSET Nat, IsFiniteSet(K), Ranked(K), NEW m \in Nat, NEW c \in BOOLEAN,
         c => Below(K, m), NEW f, NEW g, Agree(K, f, g), NEW x, c => g[m] = x
  PROVE  /\ Extended(K, c, m) \in SUBSET Nat
         /\ IsFiniteSet(Extended(K, c, m)) /\ Ranked(Extended(K, c, m))
         /\ Listed(Extended(K, c, m), g) = Lengthened(Listed(K, f), c, x)
<1>1. CASE c
  <2>0. Below(K, m)
    BY <1>1
  <2>1. g[m] = x
    BY <1>1
  <2> DEFINE M == Extended(K, c, m)
  <2>2. M = K \cup {m}
    BY <1>1 DEF Extended
  <2> HIDE DEF M
  <2>3. IsFiniteSet(M) /\ Ranked(M) /\ Listed(M, g) = Append(Listed(K, f), x)
    BY <2>0, <2>1, <2>2, ListAppend
  <2>4. M \in SUBSET Nat
    BY <2>2
  <2>5. QED
    BY <1>1, <2>3, <2>4 DEF M, Lengthened
<1>2. CASE ~c
  <2>1. Listed(K, g) = Listed(K, f)
    BY ListSame
  <2>2. QED
    BY <1>2, <2>1 DEF Extended, Lengthened
<1>3. QED
  BY <1>1, <1>2

LEMMA RestLengthened ==
  ASSUME NEW r \in Seq(Bytes), NEW c \in BOOLEAN, NEW x \in Bytes, written \in Nat,
         wpc = "finish" => written <= Len(r)
  PROVE  /\ Lengthened(r, c, x) \in Seq(Bytes)
         /\ Len(r) <= Len(Lengthened(r, c, x))
         /\ Rest(r) \in Seq(Bytes)
         /\ Rest(Lengthened(r, c, x)) = Lengthened(Rest(r), c, x)
<1>1. Rest(r) \in Seq(Bytes)
  <2>1. \A k \in written + 1 .. Len(r) : r[k] \in Bytes
    OBVIOUS
  <2>2. SubSeq(r, written + 1, Len(r)) \in Seq(Bytes)
    BY <2>1, SubSeqProperties
  <2>3. QED
    BY <2>2 DEF Rest
<1>2. CASE ~c
  BY <1>1, <1>2 DEF Lengthened
<1>3. CASE c
  <2>1. Append(r, x) \in Seq(Bytes) /\ Len(Append(r, x)) = Len(r) + 1
    OBVIOUS
  <2>2. CASE wpc # "finish"
    BY <1>1, <1>3, <2>1, <2>2 DEF Lengthened, Rest
  <2>3. CASE wpc = "finish"
    <3>1. SubSeq(Append(r, x), written + 1, Len(r) + 1) = Append(SubSeq(r, written + 1, Len(r)), x)
      <4> DEFINE n == Len(r) - written
                 p == SubSeq(r, written + 1, Len(r))
                 q == SubSeq(Append(r, x), written + 1, Len(r) + 1)
      <4>1. n \in Nat
        BY <2>3
      <4>2. p \in Seq(Bytes) /\ Len(p) = n /\ \A k \in 1 .. n : p[k] = r[written + k]
        BY <2>3
      <4>3. q \in Seq(Bytes) /\ Len(q) = n + 1 /\ \A k \in 1 .. n + 1 : q[k] = Append(r, x)[written + k]
        BY <2>1, <2>3
      <4>4. \A k \in 1 .. n : Append(r, x)[written + k] = r[written + k]
        BY <2>3
      <4>5. Append(r, x)[written + (n + 1)] = x
        BY <2>3
      <4> HIDE DEF n, p, q
      <4>6. Append(p, x) \in Seq(Bytes) /\ Len(Append(p, x)) = n + 1
        BY <4>1, <4>2
      <4>7. \A k \in 1 .. n + 1 : Append(p, x)[k] = q[k]
        <5> SUFFICES ASSUME NEW k \in 1 .. n + 1 PROVE Append(p, x)[k] = q[k]
          OBVIOUS
        <5>1. CASE k \in 1 .. n
          <6>1. k \in 1 .. n + 1 /\ k # Len(p) + 1
            BY <5>1, <4>1, <4>2
          <6>2. Append(p, x)[k] = p[k]
            BY <5>1, <4>2
          <6>3. QED
            BY <5>1, <6>1, <6>2, <4>2, <4>3, <4>4, Zenon
        <5>2. CASE k = n + 1
          <6>1. Append(p, x)[n + 1] = x
            BY <4>1, <4>2
          <6>2. n + 1 \in 1 .. n + 1
            BY <4>1
          <6>3. QED
            BY <5>2, <6>1, <6>2, <4>3, <4>5, Zenon
        <5>3. k \in 1 .. n \/ k = n + 1
          BY <4>1
        <5>4. QED
          BY <5>1, <5>2, <5>3
      <4>8. q = Append(p, x)
        BY <4>3, <4>6, <4>7, SeqEqual
      <4>9. QED
        BY <4>8 DEF p, q
    <3>2. Lengthened(r, c, x) = Append(r, x) /\ Len(Lengthened(r, c, x)) = Len(r) + 1
      BY <1>3, <2>1 DEF Lengthened
    <3>3. Rest(Lengthened(r, c, x)) = SubSeq(Append(r, x), written + 1, Len(r) + 1)
      BY <2>3, <3>2, Zenon DEF Rest
    <3>4. Lengthened(Rest(r), c, x) = Append(SubSeq(r, written + 1, Len(r)), x)
      BY <1>3, <2>3, Zenon DEF Lengthened, Rest
    <3>5. Len(r) <= Len(r) + 1
      OBVIOUS
    <3>6. QED
      BY <1>1, <2>1, <3>1, <3>2, <3>3, <3>4, <3>5, Zenon
  <2>4. QED
    BY <2>2, <2>3
<1>4. QED
  BY <1>2, <1>3

LEMMA JoinLengthened ==
  ASSUME NEW s \in Seq(Bytes), NEW r \in Seq(Bytes), NEW c \in BOOLEAN, NEW x \in Bytes
  PROVE  s \o Lengthened(r, c, x) = Lengthened(s \o r, c, x)
<1>1. s \o Append(r, x) = Append(s \o r, x)
  OBVIOUS
<1>2. QED
  BY <1>1 DEF Lengthened

(* What one byte typed puts into the ring buffer: the Ctrl+A held back, if   *)
(* any, then the byte itself, each if there is room.                         *)
Frees(b)   == bridge_esc_state = 1 /\ b # CtrlX
PutsHeld(b) == Frees(b) /\ Len(ring) < RingSize
RingHeld(b) == Lengthened(ring, PutsHeld(b), CtrlA)
Passes(b)  == b # CtrlA /\ ~(bridge_esc_state = 1 /\ b = CtrlX)
PutsOwn(b)  == Passes(b) /\ Len(RingHeld(b)) < RingSize

LEMMA TypeBytePuts ==
  ASSUME NEW b \in Bytes, TypeByte(b)
  PROVE  /\ ring' = Lengthened(RingHeld(b), PutsOwn(b), b)
         /\ dropped' = dropped \cup (IF Frees(b) /\ ~PutsHeld(b) THEN {Len(typed)} ELSE {})
                               \cup (IF Passes(b) /\ ~PutsOwn(b) THEN {Len(typed) + 1} ELSE {})
<1> DEFINE i   == Len(typed) + 1
           buf == [ring |-> ring, wake |-> FALSE, dropped |-> dropped]
           pre == HeldBack(buf, b)
           new == IF b = CtrlA \/ (bridge_esc_state = 1 /\ b = CtrlX) THEN pre ELSE Put(pre, b, i)
<1>1. ring' = new.ring /\ dropped' = new.dropped
  BY DEF TypeByte
<1>2. /\ pre.ring = RingHeld(b)
      /\ pre.dropped = dropped \cup (IF Frees(b) /\ ~PutsHeld(b) THEN {Len(typed)} ELSE {})
  BY DEF HeldBack, Put, RingHeld, PutsHeld, Frees, Lengthened
<1>3. pre \in [ring : {pre.ring}, wake : {pre.wake}, dropped : {pre.dropped}]
  BY DEF HeldBack, Put
<1> HIDE DEF pre
<1>4. /\ new.ring = Lengthened(pre.ring, PutsOwn(b), b)
      /\ new.dropped = pre.dropped \cup (IF Passes(b) /\ ~PutsOwn(b) THEN {i} ELSE {})
  BY <1>2, <1>3 DEF Put, PutsOwn, Passes, Lengthened
<1>5. QED
  BY <1>1, <1>2, <1>4

(* The positions kept grow by those of the bytes put.                        *)
LEMMA TypeByteKept ==
  ASSUME NEW b \in Bytes, TypeByte(b), BytesOK, CountersOK, EscapeKept, LossKept
  PROVE  Kept' = Extended(Extended(Kept, PutsHeld(b), Len(typed)), PutsOwn(b), Len(typed) + 1)
<1> DEFINE n == Len(typed)
           K == Extended(Extended(Kept, PutsHeld(b), n), PutsOwn(b), n + 1)
<1>1. Len(typed) = n /\ n \in Nat /\ DOMAIN typed = 1 .. n
  BY DEF BytesOK
<1>2. /\ Len(typed') = n + 1 /\ DOMAIN typed' = 1 .. n + 1
      /\ \A i \in 1 .. n : typed'[i] = typed[i]
      /\ typed'[n + 1] = b
  <2>1. typed' = Append(typed, b)
    BY DEF TypeByte
  <2>2. QED
    BY <2>1, <1>1 DEF BytesOK
<1>3. dropped' = dropped \cup (IF Frees(b) /\ ~PutsHeld(b) THEN {n} ELSE {})
                         \cup (IF Passes(b) /\ ~PutsOwn(b) THEN {n + 1} ELSE {})
  BY TypeBytePuts
<1>4. b # "reset" /\ CtrlA # CtrlX
  BY BytesDiffer, BridgeAssumption
<1>5. bridge_esc_state = 1 <=> n # 0 /\ typed[n] = CtrlA
  <2>1. typed = <<>> <=> n = 0
    BY <1>1, EmptySeq DEF BytesOK
  <2>2. QED
    BY <2>1 DEF EscapeKept
<1>6. /\ \A i \in dropped : i \in 1 .. n
      /\ bridge_esc_state = 1 => n \notin dropped
  BY DEF LossKept
<1> HIDE DEF n
<1>7. ASSUME NEW i \in 1 .. n, i # n
      PROVE  i \in Kept' <=> i \in K
  <2>1. i \in 1 .. n /\ i + 1 \in 1 .. n /\ i # n + 1 /\ i < n /\ i < n + 1 /\ (i # 1 => i - 1 \in 1 .. n)
    BY <1>1, <1>7
  <2>2. i \in dropped' <=> i \in dropped
    BY <1>3, <1>7, <2>1
  <2>3. /\ typed'[i] = typed[i] /\ typed'[i + 1] = typed[i + 1]
        /\ i # 1 => typed'[i - 1] = typed[i - 1]
    BY <1>2, <2>1, Zenon
  <2>4. i < Len(typed) /\ i < Len(typed')
    BY <1>1, <1>2, <2>1, Zenon
  <2>5. ForNetworkCore(i)' <=> ForNetworkCore(i)
    BY <2>2, <2>3, <2>4, Zenon DEF ForNetworkCore
  <2>6. i \in DOMAIN typed /\ i \in DOMAIN typed'
    BY <1>1, <1>2, <2>1, <2>4, LenProperties
  <2>7. i \in Kept' <=> i \in Kept
    BY <2>5, <2>6, Zenon DEF Kept
  <2>8. QED
    BY <1>7, <2>1, <2>7, Zenon DEF Extended
<1>8. ASSUME NEW i \in 1 .. n, i = n
      PROVE  i \in Kept' <=> i \in K
  <2>1. /\ i \in 1 .. n + 1 /\ n + 1 \in 1 .. n + 1 /\ i < n + 1 /\ ~(i < n) /\ i # n + 1 /\ n # 0
        /\ i # 1 => i - 1 \in 1 .. n
    BY <1>1, <1>8
  <2>2. i \in dropped' <=> i \in dropped \/ (Frees(b) /\ ~PutsHeld(b))
    BY <1>3, <1>8, <2>1
  <2>3. i \in DOMAIN typed /\ i \in DOMAIN typed'
    BY <1>1, <1>2, <2>1
  <2>4. ForNetworkCore(i) <=>
          /\ typed[i] # "reset" /\ i \notin dropped /\ typed[i] # CtrlA
          /\ typed[i] = CtrlX => i = 1 \/ typed[i - 1] # CtrlA
    <3>1. ~(i < Len(typed))
      BY <1>1, <2>1, Zenon
    <3>2. QED
      BY <3>1, Zenon DEF ForNetworkCore
  <2>5. ForNetworkCore(i)' <=>
          /\ typed[i] # "reset" /\ i \notin dropped' /\ (typed[i] = CtrlA => b # CtrlX)
          /\ typed[i] = CtrlX => i = 1 \/ typed[i - 1] # CtrlA
    <3>1. /\ typed'[i] = typed[i] /\ typed'[i + 1] = b /\ i < Len(typed')
          /\ i # 1 => typed'[i - 1] = typed[i - 1]
      BY <1>2, <1>8, <2>1, Zenon
    <3>2. b \notin {CtrlX, "reset"} <=> b # CtrlX
      BY <1>4
    <3>3. QED
      BY <3>1, <3>2, Zenon DEF ForNetworkCore
  <2>6. CASE bridge_esc_state = 1
    <3>1. typed[i] = CtrlA /\ i \notin dropped
      BY <1>5, <1>6, <1>8, <2>6
    <3>2. ForNetworkCore(i)' <=> PutsHeld(b)
      BY <1>4, BytesDiffer, <2>2, <2>5, <2>6, <3>1 DEF Frees, PutsHeld
    <3>3. ~ForNetworkCore(i)
      BY <2>4, <3>1
    <3>4. (i \in Kept' <=> PutsHeld(b)) /\ i \notin Kept
      BY <2>3, <3>2, <3>3, Zenon DEF Kept
    <3>5. QED
      BY <1>8, <2>1, <3>4, Zenon DEF Extended
  <2>7. CASE bridge_esc_state # 1
    <3>1. typed[i] # CtrlA /\ ~Frees(b) /\ ~PutsHeld(b)
      BY <1>5, <1>8, <2>1, <2>7 DEF Frees, PutsHeld
    <3>2. ForNetworkCore(i)' <=> ForNetworkCore(i)
      BY <2>2, <2>4, <2>5, <3>1
    <3>3. i \in Kept' <=> i \in Kept
      BY <2>3, <3>2, Zenon DEF Kept
    <3>4. QED
      BY <1>8, <2>1, <3>1, <3>3, Zenon DEF Extended
  <2>8. QED
    BY <2>6, <2>7
<1>9. ASSUME NEW i, i = n + 1
      PROVE  i \in Kept' <=> i \in K
  <2>1. /\ i \in 1 .. n + 1 /\ i \notin 1 .. n /\ i # n /\ ~(i < n + 1) /\ i - 1 = n
        /\ i = 1 <=> n = 0
        /\ n # 0 => n \in 1 .. n
    BY <1>1, <1>9
  <2>2. i \in dropped' <=> Passes(b) /\ ~PutsOwn(b)
    BY <1>3, <1>6, <1>9, <2>1
  <2>3. ForNetworkCore(i)' <=>
          /\ i \notin dropped' /\ b # CtrlA
          /\ b = CtrlX => n = 0 \/ typed[n] # CtrlA
    <3>1. typed'[i] = b /\ ~(i < Len(typed')) /\ (n # 0 => typed'[i - 1] = typed[n])
      BY <1>2, <1>9, <2>1, Zenon
    <3>2. QED
      BY <1>4, <2>1, <3>1, Zenon DEF ForNetworkCore
  <2>4. (b = CtrlX => n = 0 \/ typed[n] # CtrlA) <=> ~(bridge_esc_state = 1 /\ b = CtrlX)
    BY <1>5
  <2>5. ForNetworkCore(i)' <=> PutsOwn(b)
    BY <2>2, <2>3, <2>4 DEF Passes, PutsOwn
  <2>6. i \notin Kept
    BY <1>1, <2>1 DEF Kept
  <2>7. i \in Kept' <=> PutsOwn(b)
    BY <1>2, <2>1, <2>5, Zenon DEF Kept
  <2>8. QED
    BY <1>9, <2>1, <2>6, <2>7, Zenon DEF Extended
<1>10. Kept' \subseteq 1 .. n + 1 /\ K \subseteq 1 .. n + 1
  <2>1. Kept \subseteq 1 .. n /\ (PutsHeld(b) => n \in 1 .. n)
    BY <1>1, <1>5 DEF Kept, PutsHeld, Frees
  <2>2. 1 .. n \subseteq 1 .. n + 1 /\ n + 1 \in 1 .. n + 1
    BY <1>1
  <2>3. Kept' \subseteq 1 .. n + 1
    BY <1>2 DEF Kept
  <2>4. QED
    BY <2>1, <2>2, <2>3 DEF Extended
<1> HIDE DEF K
<1>11. \A i \in 1 .. n + 1 : i \in Kept' <=> i \in K
  <2>1. \A i \in 1 .. n + 1 : i = n + 1 \/ i \in 1 .. n
    BY <1>1
  <2>2. QED
    BY <1>7, <1>8, <1>9, <2>1, Zenon
<1>12. \A i : i \in Kept' <=> i \in K
  BY <1>10, <1>11, Zenon
<1>13. Kept' = K
  BY <1>12
<1>14. QED
  BY <1>13 DEF K, n

LEMMA TypeByteStream ==
  ASSUME NEW b \in Bytes, TypeByte(b), TypeOK, ClaimOK, StreamInv
  PROVE  StreamInv'
<1> DEFINE n  == Len(typed)
           h  == PutsHeld(b)
           o  == PutsOwn(b)
           K1 == Extended(Kept, h, n)
<1>0. BytesOK /\ CountersOK /\ EscapeKept /\ LossKept /\ OneClaim /\ Ranked(Kept) /\ ByteStream
  BY TypeParts DEF StreamInv
<1>1. Len(typed) = n /\ n \in Nat /\ DOMAIN typed = 1 .. n /\ h \in BOOLEAN /\ o \in BOOLEAN /\ CtrlA \in Bytes
  BY <1>0 DEF BytesOK, Bytes, PutsHeld, PutsOwn, Frees, Passes
<1>2. /\ typed' = Append(typed, b)
      /\ bridge_esc_state' = IF b = CtrlA THEN 1 ELSE 0
      /\ UNCHANGED <<claimed, wpc, written, sent, failed>>
  BY DEF TypeByte
<1>3. /\ Len(typed') = n + 1 /\ typed' # <<>>
      /\ \A i \in 1 .. n : typed'[i] = typed[i]
      /\ typed'[n + 1] = b
  <2>1. typed' # <<>>
    BY <1>0, <1>2 DEF BytesOK
  <2>2. Len(typed') = Len(typed) + 1 /\ typed'[Len(typed) + 1] = b
    BY <1>0, <1>2 DEF BytesOK
  <2>3. \A i \in 1 .. Len(typed) : typed'[i] = typed[i]
    BY <1>0, <1>2 DEF BytesOK
  <2>4. QED
    BY <2>1, <2>2, <2>3
<1>4. EscapeKept'
  BY <1>2, <1>3 DEF EscapeKept
<1>5. LossKept'
  <2>1. dropped' = dropped \cup (IF Frees(b) /\ ~PutsHeld(b) THEN {n} ELSE {})
                           \cup (IF Passes(b) /\ ~PutsOwn(b) THEN {n + 1} ELSE {})
    BY TypeBytePuts
  <2>2. Frees(b) => n \in 1 .. n
    <3>1. typed # <<>> => n # 0
      BY <1>0, EmptySeq DEF BytesOK
    <3>2. QED
      BY <1>0, <1>1, <3>1 DEF Frees, EscapeKept
  <2> HIDE DEF n
  <2>3. \A i \in 1 .. n : i \in 1 .. n + 1 /\ i # n + 1
    BY <1>1
  <2>4. n + 1 \in 1 .. n + 1 /\ n # n + 1
    BY <1>1
  <2>5. \A i \in dropped' : i \in 1 .. Len(typed')
    <3>1. \A i \in dropped : i \in 1 .. n
      BY <1>0, <1>1 DEF LossKept
    <3>2. \A i \in dropped' : i \in dropped \/ (i = n /\ Frees(b)) \/ i = n + 1
      BY <2>1
    <3>3. QED
      BY <1>3, <2>2, <2>3, <2>4, <3>1, <3>2, Zenon
  <2>6. b = CtrlA => ~Passes(b)
    BY DEF Passes
  <2>7. b = CtrlA => n + 1 \notin dropped'
    <3>1. n + 1 \notin dropped
      <4>1. \A i \in dropped : i \in 1 .. n
        BY <1>0, <1>1 DEF LossKept
      <4>2. QED
        BY <2>3, <4>1
    <3>2. QED
      BY <2>1, <2>4, <2>6, <3>1
  <2>8. QED
    BY <1>2, <1>3, <2>5, <2>7 DEF LossKept
<1>6. OneClaim'
  BY <1>0, <1>2 DEF OneClaim
<1>7. Kept' = Extended(K1, o, n + 1)
  BY <1>0, TypeByteKept
<1>8. Kept \in SUBSET Nat /\ IsFiniteSet(Kept) /\ \A i \in Kept : i \in 1 .. n
  BY <1>0, KeptFinite
<1>9. h => typed'[n] = CtrlA
  <2>1. h => n \in 1 .. n /\ typed[n] = CtrlA
    <3>1. typed # <<>> => n # 0
      BY <1>0, EmptySeq DEF BytesOK
    <3>2. QED
      BY <1>0, <1>1, <3>1 DEF PutsHeld, Frees, EscapeKept
  <2>2. QED
    BY <1>3, <2>1
<1>10. /\ K1 \in SUBSET Nat /\ IsFiniteSet(K1) /\ Ranked(K1)
       /\ Listed(K1, typed') = Lengthened(Listed(Kept, typed), h, CtrlA)
  <2>1. Agree(Kept, typed, typed')
    BY <1>3, <1>8 DEF Agree
  <2>2. h => n \notin Kept
    BY <1>0, <1>1 DEF PutsHeld, Frees, EscapeKept, Kept, ForNetworkCore
  <2>3. h => Below(Kept, n)
    <3> HIDE DEF n, h
    <3>1. QED
      BY <1>1, <1>8, <2>2 DEF Below
  <2>4. n \in Nat /\ h \in BOOLEAN
    BY <1>1
  <2>5. Kept \in SUBSET Nat /\ IsFiniteSet(Kept) /\ Ranked(Kept)
    BY <1>0, <1>8
  <2> HIDE DEF h, n
  <2>6. QED
    BY <1>9, <2>1, <2>3, <2>4, <2>5, ListLengthened
<1>11. Below(K1, n + 1) /\ Agree(K1, typed', typed')
  <2>1. \A i \in K1 : i \in 1 .. n \/ i = n
    BY <1>8 DEF Extended
  <2> HIDE DEF n
  <2>2. \A i \in 1 .. n : i < n + 1
    BY <1>1
  <2>3. n < n + 1
    BY <1>1
  <2> HIDE DEF K1
  <2>4. QED
    BY <2>1, <2>2, <2>3, Zenon DEF Below, Agree
<1>12. /\ Ranked(Kept')
       /\ Listed(Kept', typed') = Lengthened(Listed(K1, typed'), o, b)
  <2>1. n + 1 \in Nat /\ o \in BOOLEAN
    BY <1>1
  <2>2. o => typed'[n + 1] = b
    BY <1>3
  <2>3. K1 \in SUBSET Nat /\ IsFiniteSet(K1) /\ Ranked(K1)
    BY <1>10
  <2> HIDE DEF o, n, K1
  <2>4. /\ Ranked(Extended(K1, o, n + 1))
        /\ Listed(Extended(K1, o, n + 1), typed') = Lengthened(Listed(K1, typed'), o, b)
    BY <1>11, <2>1, <2>2, <2>3, ListLengthened
  <2>5. QED
    BY <1>7, <2>4
<1>13. Forwarded' = Lengthened(Lengthened(Forwarded, h, CtrlA), o, b)
  <2>1. Forwarded' = Listed(Kept', typed') /\ Forwarded = Listed(Kept, typed)
    BY DEF Forwarded, Kept, Listed, Rank
  <2>2. QED
    BY <1>10, <1>12, <2>1, Zenon
<1>14. Delivered' = Lengthened(Lengthened(Delivered, h, CtrlA), o, b)
  <2>1. ring' = Lengthened(Lengthened(ring, h, CtrlA), o, b)
    BY TypeBytePuts DEF RingHeld
  <2>2. ring \in Seq(Bytes) /\ sent \in Seq(Bytes) /\ written \in Nat /\ Len(ring) \in Nat
    BY <1>0 DEF BytesOK, CountersOK
  <2>3. wpc = "finish" => written <= Len(ring)
    BY <2>2, <1>0 DEF ClaimOK, CountersOK
  <2>4. Delivered = sent \o Rest(ring) /\ Delivered' = sent \o Rest(ring')
    BY <1>2 DEF Delivered, Rest
  <2> HIDE DEF h, o, n
  <2> DEFINE r == Lengthened(ring, h, CtrlA)
  <2>5. /\ r \in Seq(Bytes) /\ Len(ring) <= Len(r) /\ Rest(ring) \in Seq(Bytes)
        /\ Rest(r) = Lengthened(Rest(ring), h, CtrlA)
    BY <1>1, <2>2, <2>3, RestLengthened, Zenon
  <2>6. wpc = "finish" => written <= Len(r)
    <3> HIDE DEF r
    <3>1. QED
      BY <2>2, <2>3, <2>5
  <2>7. Rest(r) \in Seq(Bytes) /\ Rest(Lengthened(r, o, b)) = Lengthened(Rest(r), o, b)
    <3> HIDE DEF r
    <3>1. QED
      BY <1>1, <2>2, <2>5, <2>6, RestLengthened, Zenon
  <2>8. sent \o Lengthened(Rest(r), o, b) = Lengthened(sent \o Rest(r), o, b)
    <3> HIDE DEF r
    <3>1. QED
      BY <1>1, <2>2, <2>7, JoinLengthened, Zenon
  <2>9. sent \o Lengthened(Rest(ring), h, CtrlA) = Lengthened(sent \o Rest(ring), h, CtrlA)
    BY <1>1, <2>2, <2>5, JoinLengthened, Zenon
  <2>10. QED
    BY <2>1, <2>4, <2>5, <2>7, <2>8, <2>9, Zenon
<1>15. ByteStream'
  BY <1>0, <1>2, <1>13, <1>14 DEF ByteStream
<1>16. QED
  BY <1>4, <1>5, <1>6, <1>12, <1>15 DEF StreamInv

(* Most steps touch none of it.                                              *)
Undisturbed ==
  /\ UNCHANGED <<ring, claimed, written, sent, dropped, failed>>
  /\ wpc \in {"write", "finish"} => wpc' = wpc
  /\ wpc' \in {"write", "finish"} => wpc' = wpc

LEMMA QuietStream ==
  ASSUME Undisturbed, UNCHANGED <<typed, bridge_esc_state>>, StreamInv
  PROVE  StreamInv'
<1>1. EscapeKept' /\ LossKept'
  BY DEF StreamInv, EscapeKept, LossKept, Undisturbed
<1>2. OneClaim'
  BY DEF StreamInv, OneClaim, Undisturbed
<1>3. Kept' = Kept
  BY DEF Kept, ForNetworkCore, Undisturbed
<1>4. Ranked(Kept')
  BY <1>3 DEF StreamInv
<1>5. Delivered' = Delivered /\ failed' = failed
  BY DEF Delivered, Undisturbed
<1>6. Forwarded' = Forwarded
  BY DEF Forwarded, ForNetworkCore, Undisturbed
<1>7. ByteStream'
  BY <1>5, <1>6 DEF StreamInv, ByteStream
<1>8. QED
  BY <1>1, <1>2, <1>4, <1>7 DEF StreamInv

(* A Ctrl+A that is discarded was never counted.                             *)
LEMMA DiscardStream ==
  ASSUME DiscardEscape, Undisturbed, TypeOK, StreamInv
  PROVE  StreamInv'
<1> DEFINE n == Len(typed)
<1>0. BytesOK /\ CountersOK /\ EscapeKept /\ LossKept /\ OneClaim /\ Ranked(Kept) /\ ByteStream
  BY TypeParts DEF StreamInv
<1>1. CASE bridge_esc_state # 1
  <2>1. UNCHANGED <<typed, bridge_esc_state>>
    BY <1>0, <1>1 DEF DiscardEscape, CountersOK
  <2>2. QED
    BY <2>1, QuietStream
<1>2. CASE bridge_esc_state = 1
  <2>1. typed' = Append(typed, "reset") /\ bridge_esc_state' = 0
    BY <1>2 DEF DiscardEscape
  <2>2. Len(typed) = n /\ n \in Nat /\ DOMAIN typed = 1 .. n
    BY <1>0 DEF BytesOK
  <2>3. /\ Len(typed') = n + 1 /\ DOMAIN typed' = 1 .. n + 1
        /\ \A i \in 1 .. n : typed'[i] = typed[i]
        /\ typed'[n + 1] = "reset"
    BY <1>0, <2>1 DEF BytesOK
  <2>4. n # 0 /\ typed[n] = CtrlA
    <3>1. typed # <<>> => n # 0
      BY <1>0, EmptySeq DEF BytesOK
    <3>2. QED
      BY <1>0, <1>2, <3>1 DEF EscapeKept
  <2>5. "reset" # CtrlA /\ CtrlX # CtrlA
    BY BytesDiffer
  <2>6. UNCHANGED <<ring, claimed, written, sent, dropped, failed>>
    BY DEF Undisturbed
  <2> HIDE DEF n
  <2>7. EscapeKept'
    BY <2>1, <2>3, <2>5 DEF EscapeKept
  <2>8. LossKept'
    <3>1. \A i \in 1 .. n : i \in 1 .. n + 1
      BY <2>2
    <3>2. \A i \in dropped : i \in 1 .. n
      BY <1>0, <2>2 DEF LossKept
    <3>3. QED
      BY <2>1, <2>3, <2>6, <3>1, <3>2 DEF LossKept
  <2>9. OneClaim'
    BY <1>0 DEF OneClaim, Undisturbed
  <2>10. ASSUME NEW i \in 1 .. n, i # n
         PROVE  i \in Kept' <=> i \in Kept
    <3>1. /\ i + 1 \in 1 .. n /\ i < n /\ i < n + 1 /\ i \in 1 .. n + 1
          /\ i # 1 => i - 1 \in 1 .. n
      BY <2>2, <2>10
    <3>2. /\ typed'[i] = typed[i] /\ typed'[i + 1] = typed[i + 1]
          /\ i # 1 => typed'[i - 1] = typed[i - 1]
      BY <2>3, <3>1, Zenon
    <3>3. ForNetworkCore(i)' <=> ForNetworkCore(i)
      BY <2>2, <2>3, <2>6, <3>1, <3>2, Zenon DEF ForNetworkCore
    <3>4. QED
      BY <2>2, <2>3, <3>1, <3>3, Zenon DEF Kept
  <2>11. ASSUME NEW i \in 1 .. n, i = n
         PROVE  i \notin Kept' /\ i \notin Kept
    <3>1. typed[i] = CtrlA /\ typed'[i] = CtrlA /\ typed'[i + 1] = "reset" /\ ~(i < Len(typed))
      BY <2>2, <2>3, <2>4, <2>11
    <3>2. ~ForNetworkCore(i) /\ ~ForNetworkCore(i)'
      BY <3>1 DEF ForNetworkCore
    <3>3. QED
      BY <3>2 DEF Kept
  <2>12. ASSUME NEW i, i = n + 1
         PROVE  i \notin Kept' /\ i \notin Kept
    <3>1. i \notin 1 .. n /\ typed'[i] = "reset"
      BY <2>2, <2>3, <2>12
    <3>2. QED
      BY <2>2, <3>1 DEF Kept, ForNetworkCore
  <2>13. Kept' = Kept
    <3>1. Kept \subseteq 1 .. n /\ Kept' \subseteq 1 .. n + 1
      BY <2>2, <2>3 DEF Kept
    <3>2. \A i \in 1 .. n + 1 : i \in 1 .. n \/ i = n + 1
      BY <2>2
    <3>3. \A i : i \in Kept' <=> i \in Kept
      BY <2>10, <2>11, <2>12, <3>1, <3>2, Zenon
    <3>4. QED
      BY <3>3
  <2>14. Forwarded' = Forwarded
    <3>1. Forwarded' = Listed(Kept', typed') /\ Forwarded = Listed(Kept, typed)
      BY DEF Forwarded, Kept, Listed, Rank
    <3>2. Kept \in SUBSET Nat /\ IsFiniteSet(Kept) /\ \A i \in Kept : i \in 1 .. n
      BY <1>0, <2>2, KeptFinite
    <3>3. Agree(Kept, typed, typed')
      BY <2>3, <3>2, Zenon DEF Agree
    <3>4. Listed(Kept, typed') = Listed(Kept, typed)
      BY <1>0, <3>2, <3>3, ListSame
    <3>5. QED
      BY <2>13, <3>1, <3>4
  <2>15. Delivered' = Delivered
    BY DEF Delivered, Undisturbed
  <2>16. QED
    BY <1>0, <2>6, <2>7, <2>8, <2>9, <2>13, <2>14, <2>15 DEF StreamInv, ByteStream
<1>3. QED
  BY <1>1, <1>2

(* What a step that types nothing has to show.                               *)
LEMMA SameBytesStream ==
  ASSUME UNCHANGED <<typed, bridge_esc_state, dropped>>, StreamInv,
         OneClaim', ~failed' => ~failed /\ Delivered' = Delivered
  PROVE  StreamInv'
<1>1. EscapeKept' /\ LossKept'
  BY DEF StreamInv, EscapeKept, LossKept
<1>2. Kept' = Kept
  BY DEF Kept, ForNetworkCore
<1>3. Forwarded' = Forwarded
  BY DEF Forwarded, ForNetworkCore
<1>4. QED
  BY <1>1, <1>2, <1>3 DEF StreamInv, ByteStream

LEMMA ClaimStream ==
  ASSUME Claim, TypeOK, StreamInv
  PROVE  StreamInv'
<1>1. UNCHANGED <<typed, bridge_esc_state, dropped, ring, sent, failed>> /\ wpc = "claim" /\ wpc' \in {"loop", "write"}
  BY DEF Claim, Goto
<1>2. OneClaim'
  <2>1. ~failed => claimed = 0
    BY <1>1 DEF StreamInv, OneClaim
  <2>2. \/ wpc' = "loop" /\ claimed' = claimed
        \/ \E n \in 1 .. (Len(ring) - claimed) : wpc' = "write" /\ claimed' = claimed + n /\ written' = n
    BY DEF Claim, Goto
  <2>3. QED
    BY <1>1, <2>1, <2>2 DEF OneClaim
<1>3. Delivered' = Delivered
  BY <1>1 DEF Delivered
<1>4. QED
  BY <1>1, <1>2, <1>3, SameBytesStream

(* The bytes handed over are the first ones of the ring buffer.              *)
LEMMA WriteStream ==
  ASSUME Write, TypeOK, ClaimOK, StreamInv
  PROVE  StreamInv'
<1>0. BytesOK /\ CountersOK /\ OneClaim
  BY TypeParts DEF StreamInv
<1>1. UNCHANGED <<typed, bridge_esc_state, dropped, ring, claimed>> /\ wpc = "write"
  BY DEF Write, Goto
<1>2. CASE failed' = TRUE
  BY <1>1, <1>2, SameBytesStream DEF OneClaim
<1>3. CASE /\ wpc' = "finish" /\ UNCHANGED <<failed, written>>
           /\ sent' = sent \o SubSeq(ring, claimed - written + 1, claimed)
  <2>1. OneClaim'
    BY <1>0, <1>1, <1>3 DEF OneClaim
  <2>2. ASSUME ~failed PROVE Delivered' = Delivered
    <3>1. claimed = written /\ written \in Nat /\ written <= Len(ring)
      BY <1>0, <1>1, <2>2 DEF OneClaim, ClaimOK, CountersOK
    <3>2. ring \in Seq(Bytes) /\ sent \in Seq(Bytes) /\ Len(ring) \in Nat
      BY <1>0 DEF BytesOK
    <3>3. claimed - written + 1 = 1
      BY <3>1
    <3> DEFINE p == SubSeq(ring, 1, written)
               q == SubSeq(ring, written + 1, Len(ring))
    <3>4. p \o q = ring /\ p \in Seq(Bytes) /\ q \in Seq(Bytes)
      <4>1. p \in Seq(Bytes)
        <5>1. \A k \in 1 .. written : ring[k] \in Bytes
          BY <3>1, <3>2
        <5>2. QED
          BY <3>1, <3>2, <5>1, SubSeqProperties
      <4>2. q \in Seq(Bytes)
        <5>1. \A k \in written + 1 .. Len(ring) : ring[k] \in Bytes
          BY <3>1, <3>2
        <5>2. QED
          BY <3>1, <3>2, <5>1, SubSeqProperties
      <4>3. p \o q = ring
        <5>1. 1 \in 1 .. Len(ring) + 1 /\ written \in 1 - 1 .. Len(ring) /\ Len(ring) \in written .. Len(ring)
          BY <3>1, <3>2
        <5>2. SubSeq(ring, 1, Len(ring)) = ring
          BY <3>2, SubSeqFull, Zenon
        <5>3. p \o q = SubSeq(ring, 1, Len(ring))
          BY <3>2, <5>1, ConcatAdjacentSubSeq, Zenon
        <5>4. QED
          BY <5>2, <5>3, Zenon
      <4>4. QED
        BY <4>1, <4>2, <4>3
    <3>5. Delivered' = (sent \o p) \o q
      BY <1>1, <1>3, <3>1, <3>3 DEF Delivered
    <3>6. Delivered = sent \o ring
      BY <1>1 DEF Delivered
    <3> HIDE DEF p, q
    <3>7. (sent \o p) \o q = sent \o (p \o q)
      <4>1. sent \in Seq(Bytes) /\ p \in Seq(Bytes) /\ q \in Seq(Bytes)
        BY <3>2, <3>4
      <4>2. QED
        BY <4>1, ConcatAssociative, SMT
    <3>8. QED
      BY <3>4, <3>5, <3>6, <3>7
  <2>3. QED
    BY <1>1, <1>3, <2>1, <2>2, SameBytesStream
<1>4. QED
  BY <1>2, <1>3 DEF Write, Goto

LEMMA FinishStream ==
  ASSUME Finish, StreamInv
  PROVE  StreamInv'
<1>1. UNCHANGED <<typed, bridge_esc_state, dropped, sent, failed>>
  BY DEF Finish
<1>2. wpc = "finish" /\ wpc' = "loop" /\ claimed' = 0 /\ ring' = SubSeq(ring, written + 1, Len(ring))
  BY DEF Finish, Goto
<1>3. OneClaim'
  BY <1>2 DEF OneClaim
<1>4. Delivered' = Delivered
  BY <1>1, <1>2 DEF Delivered
<1>5. QED
  BY <1>1, <1>3, <1>4, SameBytesStream

LEMMA StreamStep ==
  ASSUME Next, TypeOK, ClaimOK, RunningCovers, StreamInv
  PROVE  StreamInv'
<1> USE DEF Undisturbed, Goto
<1>1. CASE \E b \in Bytes : TypeByte(b)
  BY <1>1, TypeByteStream
<1>2. CASE StartCmd
  BY <1>2, QuietStream DEF StartCmd, MayStart, RunningCovers, Dead
<1>3. CASE StopCmd
  BY <1>3, DiscardStream DEF StopCmd
<1>4. CASE ClearStop
  BY <1>4, DiscardStream DEF ClearStop
<1>5. CASE PeripheralCmd \/ ShellIpcInit \/ Ipc
  BY <1>5, QuietStream DEF PeripheralCmd, ShellIpcInit, Ipc, Bound, Unbound
<1>6. CASE WorkerIpcInit
  BY <1>6, QuietStream DEF WorkerIpcInit
<1>7. CASE SetActive \/ SetCallback \/ TestEndpoint \/ InitFailed
  BY <1>7, QuietStream DEF SetActive, SetCallback, TestEndpoint, InitFailed
<1>8. CASE SetBypass \/ LoopTest \/ SemTake \/ IsConnected
  BY <1>8, QuietStream DEF SetBypass, LoopTest, SemTake, IsConnected
<1>9. CASE ClearBypass \/ Prebind \/ SetInactive \/ ClearRunning \/ ThreadEnds
  BY <1>9, QuietStream DEF ClearBypass, Prebind, SetInactive, ClearRunning, ThreadEnds
<1>10. CASE Claim
  BY <1>10, ClaimStream
<1>11. CASE Write
  BY <1>11, WriteStream
<1>12. CASE Finish
  BY <1>12, FinishStream
<1>13. QED
  BY <1>1, <1>2, <1>3, <1>4, <1>5, <1>6, <1>7, <1>8, <1>9, <1>10, <1>11, <1>12 DEF Next, Shell, Worker

LEMMA InitStream == Init => StreamInv
<1> SUFFICES ASSUME Init PROVE StreamInv
  OBVIOUS
<1>1. typed = <<>> /\ dropped = {} /\ ring = <<>> /\ sent = <<>> /\ claimed = 0 /\ wpc = "none" /\ bridge_esc_state = 0
  BY DEF Init
<1>2. Kept = {} /\ Cardinality(Kept) = 0
  BY <1>1, FS_EmptySet DEF Kept
<1>3. Ranked(Kept)
  BY <1>2 DEF Ranked
<1>4. Forwarded = Listed(Kept, typed)
  BY DEF Forwarded, Kept, Listed, Rank
<1>5. Listed(Kept, typed) = <<>>
  BY <1>2 DEF Listed
<1>6. Delivered = <<>>
  BY <1>1 DEF Delivered
<1>7. QED
  BY <1>1, <1>3, <1>4, <1>5, <1>6 DEF StreamInv, EscapeKept, LossKept, OneClaim, ByteStream

(* As long as no IPC write fails, the bytes handed over and those still in   *)
(* the ring buffer are the bytes typed, in order and once each, without the  *)
(* escape sequences and what the full ring buffer dropped, over any number   *)
(* of sessions.                                                              *)
THEOREM ByteStreamCorrect == Spec => []ByteStream
<1>1. Init => StreamInv
  BY InitStream
<1>2. TypeOK /\ ClaimOK /\ RunningCovers /\ StreamInv /\ [Next]_vars => StreamInv'
  <2> SUFFICES ASSUME TypeOK, ClaimOK, RunningCovers, StreamInv, [Next]_vars PROVE StreamInv'
    OBVIOUS
  <2>1. CASE Next
    BY <2>1, StreamStep
  <2>2. CASE UNCHANGED vars
    BY <2>2, QuietStream DEF Undisturbed
  <2>3. QED
    BY <2>1, <2>2
<1>3. StreamInv => ByteStream
  BY DEF StreamInv
<1>4. QED
  BY <1>1, <1>2, <1>3, TypeInductive, RunningCorrect, PTL DEF Spec
=============================================================================
