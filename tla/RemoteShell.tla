----------------------------- MODULE RemoteShell -----------------------------
(***************************************************************************)
(* The bridge between the UART shell and the shell of the network core:     *)
(* the command handler and the worker thread of cmd.c, the bridge of        *)
(* remote_shell/start.c and the IPC endpoint of shell_ipc_host.c.           *)
(*                                                                          *)
(* Three parties interleave.  The shell thread runs a command handler, or,  *)
(* while a bypass is installed, the bypass callback for every byte typed;   *)
(* it has the higher priority, so a handler is one step unless it blocks in *)
(* ipc_init.  The worker can be preempted between any two of its accesses   *)
(* to shared state.  The IPC service calls bound and unbound.               *)
(***************************************************************************)
EXTENDS Naturals, Sequences, FiniteSets

CONSTANTS
  CtrlA, CtrlX, Key,  \* the two bytes of the escape sequence, and any other
  RingSize,           \* CONFIG_REMOTE_SHELL_RX_RING_BUFFER_SIZE
  MaxTyped            \* bound on the bytes typed into the bridge

Bytes == {CtrlA, CtrlX, Key}

ASSUME BridgeAssumption ==
  /\ Cardinality(Bytes) = 3
  /\ "reset" \notin Bytes
  /\ RingSize \in Nat \ {0}
  /\ MaxTyped \in Nat

VARIABLES
  remote_shell_running, \* cmd.c: atomic_t
  stop_requested,       \* start.c: atomic_t
  bridge_esc_state,     \* start.c: 1 after a Ctrl+A that is not forwarded yet
  ring,                 \* start.c: contents of rx_ringbuf
  claimed,              \* rx_ringbuf: bytes claimed and not finished
  write_sem,            \* start.c: shell_ipc_write_sem
  bypass,               \* the shell's input goes to remote_shell_bypass_cb
  bridge_active,        \* shell_ipc_host.c: atomic_t
  cb,                   \* ipc_host.cb: "drop" or "bridge" (ipc_host_receive)
  ept,                  \* ipc_host.ept.instance # NULL
  connected,            \* ipc_host.connected
  bond_sem,             \* ipc_host.ipc_bond_sem
  wpc,                  \* where the worker thread is
  spc,                  \* where the shell thread is
  peripheral,           \* peripheral_uart_sem = 0: the BLE peripheral runs
  written,              \* the worker's data_size and w, 0 out of their block
  sent,                 \* history: bytes handed to the IPC service
  typed,                \* history: bytes typed into the bridge; "reset" where a
                        \* pending Ctrl+A was discarded
  dropped,              \* history: indices of typed lost to a full ring buffer
  failed,               \* history: an IPC write has failed
  stopping              \* history: a stop command was given to a worker that has
                        \* its reset of stop_requested behind it

vars == <<remote_shell_running, stop_requested, bridge_esc_state, ring, claimed,
          write_sem, bypass, bridge_active, cb, ept, connected, bond_sem, wpc,
          spc, peripheral, written, sent, typed, dropped, failed, stopping>>

ringVars == <<ring, claimed>>
ipcVars  == <<ept, connected, bond_sem>>
histVars == <<sent, typed, dropped, failed>>

(* Worker locations, by the statement about to be executed.                  *)
Loop    == {"loop", "sem_take", "is_connected", "claim", "write", "finish"}
Enter   == {"set_active", "clear_stop", "set_cb", "test_ept", "register", "bond", "set_bypass"}
Leave   == {"init_failed", "clear_bypass", "prebind", "re_register", "re_bond", "set_inactive",
            "clear_running"}
Dead    == {"none", "exiting"}

Init ==
  /\ remote_shell_running = FALSE
  /\ stop_requested = FALSE
  /\ bridge_esc_state = 0
  /\ ring = <<>> /\ claimed = 0
  /\ write_sem = 0
  /\ bypass = FALSE
  /\ bridge_active = FALSE
  /\ cb = "drop"                    \* remote_shell_ipc_prebind_init at boot ...
  /\ ept \in BOOLEAN /\ connected = ept  \* ... bound the endpoint or timed out
  /\ bond_sem = 0
  /\ wpc = "none"
  /\ spc = "ready"
  /\ peripheral = FALSE
  /\ written = 0
  /\ sent = <<>> /\ typed = <<>> /\ dropped = {}
  /\ failed = FALSE
  /\ stopping = FALSE

-----------------------------------------------------------------------------
(* The shell thread: bytes typed while the bypass is installed *)

(* ring_buf_put of the i-th byte typed: a full ring buffer drops it.         *)
Put(buf, b, i) ==
  IF Len(buf.ring) < RingSize
  THEN [buf EXCEPT !.ring = Append(@, b), !.wake = TRUE]
  ELSE [buf EXCEPT !.dropped = @ \cup {i}]

(* Mutant of HeldBack: the Ctrl+A that was held back is forgotten.           *)
HeldBack_Forgotten(buf, b) == buf

(* A Ctrl+A that was held back is forwarded before any byte but Ctrl+X.      *)
HeldBack(buf, b) ==
  IF bridge_esc_state = 1 /\ b # CtrlX THEN Put(buf, CtrlA, Len(typed)) ELSE buf

(* remote_shell_bypass_cb for one byte.                                      *)
TypeByte(b) ==
  LET i   == Len(typed) + 1
      buf == [ring |-> ring, wake |-> FALSE, dropped |-> dropped]
      pre == HeldBack(buf, b)
      esc == bridge_esc_state = 1 /\ b = CtrlX
      new == IF b = CtrlA \/ esc THEN pre ELSE Put(pre, b, i)
  IN
  /\ spc = "ready"
  /\ bypass
  /\ Len(typed) < MaxTyped
  /\ typed' = Append(typed, b)
  /\ bridge_esc_state' = IF b = CtrlA THEN 1 ELSE 0
  /\ ring' = new.ring
  /\ dropped' = new.dropped
  /\ stop_requested' = (stop_requested \/ esc)
  /\ write_sem' = IF new.wake \/ esc THEN 1 ELSE write_sem
  /\ UNCHANGED <<remote_shell_running, claimed, bypass, bridge_active, cb, ipcVars,
                 wpc, spc, peripheral, written, sent, failed, stopping>>

(* The history records where bridge_esc_state = 0 discards a Ctrl+A.         *)
DiscardEscape ==
  /\ bridge_esc_state' = 0
  /\ typed' = IF bridge_esc_state = 1 THEN Append(typed, "reset") ELSE typed

-----------------------------------------------------------------------------
(* The shell thread: commands, which are read only without a bypass *)

Prompt == spc = "ready" /\ ~bypass

(* Mutant of MayStart: the flag is not compared before it is set.            *)
MayStart_NoCas == ~peripheral

MayStart == ~peripheral /\ ~remote_shell_running

(* cmd_remote_shell start: compare-and-swap, then k_thread_create.           *)
StartCmd ==
  /\ Prompt
  /\ MayStart
  /\ remote_shell_running' = TRUE
  /\ wpc' = "set_active"
  /\ stopping' = FALSE
  /\ UNCHANGED <<stop_requested, bridge_esc_state, ringVars, write_sem, bypass,
                 bridge_active, cb, ipcVars, spc, peripheral, written, histVars>>

(* atomic_set(&stop_requested, 1)                                            *)
AskStop == stop_requested' = TRUE

(* remote_shell_stop, whose shell_ipc_host_prebind finds the bridge inactive *)
(* and may have to register the endpoint anew in the shell thread.           *)
StopCmd ==
  /\ Prompt
  /\ bypass' = FALSE
  /\ DiscardEscape
  /\ bridge_active' = FALSE
  /\ AskStop
  /\ write_sem' = 1
  /\ cb' = "drop"
  /\ spc' = IF ept THEN "ready" ELSE "re_register"
  /\ stopping' = (wpc \notin Dead \cup {"set_active", "clear_stop"})
  /\ UNCHANGED <<remote_shell_running, ringVars, ipcVars, wpc, peripheral,
                 written, sent, dropped, failed>>

(* cmd_peripheral_uart, reduced to the semaphore that remote_shell reads.    *)
PeripheralCmd ==
  /\ Prompt
  /\ peripheral' = ~peripheral
  /\ UNCHANGED <<remote_shell_running, stop_requested, bridge_esc_state, ringVars,
                 write_sem, bypass, bridge_active, cb, ipcVars, wpc, spc, written,
                 histVars, stopping>>

-----------------------------------------------------------------------------
(* ipc_init, run by the worker or by the shell thread *)

(* k_sem_init and ipc_service_register_endpoint; the service records the     *)
(* instance in the endpoint before the backend can refuse it.                *)
Registers(ok) ==
  /\ bond_sem' = 0
  /\ IF ok THEN ept' = TRUE ELSE ept' \in {ept, TRUE}
  /\ UNCHANGED connected

(* k_sem_take(&ipc_bond_sem, 2 s): the endpoint is bound, or given up.       *)
BondOk ==
  /\ bond_sem = 1
  /\ bond_sem' = 0
  /\ UNCHANGED <<ept, connected>>

BondTimeout ==
  /\ bond_sem = 0
  /\ ept' = FALSE
  /\ connected' = FALSE
  /\ UNCHANGED bond_sem

ShellIpcInit ==
  /\ \/ spc = "re_register" /\ Registers(TRUE) /\ spc' = "re_bond"
     \/ spc = "re_register" /\ Registers(FALSE) /\ spc' = "ready"
     \/ spc = "re_bond" /\ (BondOk \/ BondTimeout) /\ spc' = "ready"
  /\ UNCHANGED <<remote_shell_running, stop_requested, bridge_esc_state, ringVars,
                 write_sem, bypass, bridge_active, cb, wpc, peripheral, written,
                 histVars, stopping>>

WorkerIpcInit ==
  /\ \/ wpc = "register" /\ Registers(TRUE) /\ wpc' = "bond"
     \/ wpc = "register" /\ Registers(FALSE) /\ wpc' = "init_failed"
     \/ wpc = "bond" /\ BondOk /\ wpc' = "set_bypass"
     \/ wpc = "bond" /\ BondTimeout /\ wpc' = "init_failed"
     \/ wpc = "re_register" /\ Registers(TRUE) /\ wpc' = "re_bond"
     \/ wpc = "re_register" /\ Registers(FALSE) /\ wpc' = "set_inactive"
     \/ wpc = "re_bond" /\ (BondOk \/ BondTimeout) /\ wpc' = "set_inactive"
  /\ UNCHANGED <<remote_shell_running, stop_requested, bridge_esc_state, ringVars,
                 write_sem, bypass, bridge_active, cb, spc, peripheral, written,
                 histVars, stopping>>

-----------------------------------------------------------------------------
(* The worker thread: remote_shell_start *)

Goto(from, to) == wpc = from /\ wpc' = to

SetActive ==
  /\ Goto("set_active", "clear_stop")
  /\ bridge_active' = TRUE
  /\ UNCHANGED <<remote_shell_running, stop_requested, bridge_esc_state, ringVars,
                 write_sem, bypass, cb, ipcVars, spc, peripheral, written, histVars,
                 stopping>>

ClearStop ==
  /\ Goto("clear_stop", "set_cb")
  /\ stop_requested' = FALSE
  /\ DiscardEscape
  /\ UNCHANGED <<remote_shell_running, ringVars, write_sem, bypass, bridge_active,
                 cb, ipcVars, spc, peripheral, written, sent, dropped, failed,
                 stopping>>

SetCallback ==
  /\ Goto("set_cb", "test_ept")
  /\ cb' = "bridge"
  /\ UNCHANGED <<remote_shell_running, stop_requested, bridge_esc_state, ringVars,
                 write_sem, bypass, bridge_active, ipcVars, spc, peripheral,
                 written, histVars, stopping>>

TestEndpoint ==
  /\ Goto("test_ept", IF ept THEN "set_bypass" ELSE "register")
  /\ UNCHANGED <<remote_shell_running, stop_requested, bridge_esc_state, ringVars,
                 write_sem, bypass, bridge_active, cb, ipcVars, spc, peripheral,
                 written, histVars, stopping>>

InitFailed ==
  /\ Goto("init_failed", "clear_running")
  /\ bridge_active' = FALSE
  /\ UNCHANGED <<remote_shell_running, stop_requested, bridge_esc_state, ringVars,
                 write_sem, bypass, cb, ipcVars, spc, peripheral, written, histVars,
                 stopping>>

SetBypass ==
  /\ Goto("set_bypass", "loop")
  /\ bypass' = TRUE
  /\ UNCHANGED <<remote_shell_running, stop_requested, bridge_esc_state, ringVars,
                 write_sem, bridge_active, cb, ipcVars, spc, peripheral, written,
                 histVars, stopping>>

LoopTest ==
  /\ Goto("loop", IF stop_requested THEN "clear_bypass" ELSE "sem_take")
  /\ UNCHANGED <<remote_shell_running, stop_requested, bridge_esc_state, ringVars,
                 write_sem, bypass, bridge_active, cb, ipcVars, spc, peripheral,
                 written, histVars, stopping>>

(* Mutant of SemTake: K_FOREVER in place of 200 ms.                          *)
SemTake_Forever ==
  /\ Goto("sem_take", "is_connected")
  /\ write_sem = 1
  /\ write_sem' = 0
  /\ UNCHANGED <<remote_shell_running, stop_requested, bridge_esc_state, ringVars,
                 bypass, bridge_active, cb, ipcVars, spc, peripheral, written,
                 histVars, stopping>>

(* k_sem_take with a time-out of 200 ms, whose result is ignored.            *)
SemTake ==
  /\ Goto("sem_take", "is_connected")
  /\ write_sem' = 0
  /\ UNCHANGED <<remote_shell_running, stop_requested, bridge_esc_state, ringVars,
                 bypass, bridge_active, cb, ipcVars, spc, peripheral, written,
                 histVars, stopping>>

(* Mutant of IsConnected: the loop is left without removing the bypass.      *)
IsConnected_NoCleanUp ==
  /\ Goto("is_connected", IF connected THEN "claim" ELSE "prebind")
  /\ UNCHANGED <<remote_shell_running, stop_requested, bridge_esc_state, ringVars,
                 write_sem, bypass, bridge_active, cb, ipcVars, spc, peripheral,
                 written, histVars, stopping>>

IsConnected ==
  /\ Goto("is_connected", IF connected THEN "claim" ELSE "clear_bypass")
  /\ UNCHANGED <<remote_shell_running, stop_requested, bridge_esc_state, ringVars,
                 write_sem, bypass, bridge_active, cb, ipcVars, spc, peripheral,
                 written, histVars, stopping>>

(* Mutant of Claim: the last byte is left in the buffer.                     *)
Claim_KeepsOne ==
  /\ \/ /\ Len(ring) <= claimed + 1
        /\ Goto("claim", "loop")
        /\ UNCHANGED <<claimed, written>>
     \/ \E n \in 1 .. (Len(ring) - claimed - 1) :
          /\ Goto("claim", "write")
          /\ claimed' = claimed + n
          /\ written' = n
  /\ UNCHANGED <<remote_shell_running, stop_requested, bridge_esc_state, ring,
                 write_sem, bypass, bridge_active, cb, ipcVars, spc, peripheral,
                 histVars, stopping>>

(* ring_buf_get_claim hands out the contiguous bytes after those already     *)
(* claimed; where the buffer wraps is left open.                             *)
Claim ==
  /\ \/ /\ Len(ring) = claimed
        /\ Goto("claim", "loop")
        /\ UNCHANGED <<claimed, written>>
     \/ \E n \in 1 .. (Len(ring) - claimed) :
          /\ Goto("claim", "write")
          /\ claimed' = claimed + n
          /\ written' = n
  /\ UNCHANGED <<remote_shell_running, stop_requested, bridge_esc_state, ring,
                 write_sem, bypass, bridge_active, cb, ipcVars, spc, peripheral,
                 histVars, stopping>>

(* shell_ipc_host_write: all the bytes of the claim, or an error, which is   *)
(* certain when the endpoint has been unbound meanwhile.                     *)
Write ==
  /\ \/ /\ connected
        /\ Goto("write", "finish")
        /\ sent' = sent \o SubSeq(ring, claimed - written + 1, claimed)
        /\ UNCHANGED <<failed, written>>
     \/ /\ Goto("write", "clear_bypass")
        /\ failed' = TRUE /\ written' = 0
        /\ UNCHANGED sent
  /\ UNCHANGED <<remote_shell_running, stop_requested, bridge_esc_state, ringVars,
                 write_sem, bypass, bridge_active, cb, ipcVars, spc, peripheral,
                 typed, dropped, stopping>>

(* ring_buf_get_finish frees the first bytes and cancels all other claims.   *)
Finish ==
  /\ Goto("finish", "loop")
  /\ ring' = SubSeq(ring, written + 1, Len(ring))
  /\ claimed' = 0 /\ written' = 0
  /\ UNCHANGED <<remote_shell_running, stop_requested, bridge_esc_state, write_sem,
                 bypass, bridge_active, cb, ipcVars, spc, peripheral, histVars,
                 stopping>>

ClearBypass ==
  /\ Goto("clear_bypass", "prebind")
  /\ bypass' = FALSE
  /\ UNCHANGED <<remote_shell_running, stop_requested, bridge_esc_state, ringVars,
                 write_sem, bridge_active, cb, ipcVars, spc, peripheral, written,
                 histVars, stopping>>

(* shell_ipc_host_prebind does nothing while bridge_active is set.           *)
Prebind ==
  /\ \/ /\ bridge_active
        /\ Goto("prebind", "set_inactive")
        /\ UNCHANGED cb
     \/ /\ ~bridge_active
        /\ Goto("prebind", IF ept THEN "set_inactive" ELSE "re_register")
        /\ cb' = "drop"
  /\ UNCHANGED <<remote_shell_running, stop_requested, bridge_esc_state, ringVars,
                 write_sem, bypass, bridge_active, ipcVars, spc, peripheral,
                 written, histVars, stopping>>

SetInactive ==
  /\ Goto("set_inactive", "clear_running")
  /\ bridge_active' = FALSE
  /\ UNCHANGED <<remote_shell_running, stop_requested, bridge_esc_state, ringVars,
                 write_sem, bypass, cb, ipcVars, spc, peripheral, written, histVars,
                 stopping>>

(* The last statement of remote_shell_thread_fn, then the end of the thread. *)
ClearRunning ==
  /\ Goto("clear_running", "exiting")
  /\ remote_shell_running' = FALSE
  /\ UNCHANGED <<stop_requested, bridge_esc_state, ringVars, write_sem, bypass,
                 bridge_active, cb, ipcVars, spc, peripheral, written, histVars,
                 stopping>>

ThreadEnds ==
  /\ Goto("exiting", "none")
  /\ stopping' = FALSE
  /\ UNCHANGED <<remote_shell_running, stop_requested, bridge_esc_state, ringVars,
                 write_sem, bypass, bridge_active, cb, ipcVars, spc, peripheral,
                 written, histVars>>

-----------------------------------------------------------------------------
(* The IPC service *)

Bound ==
  /\ ept /\ ~connected
  /\ connected' = TRUE
  /\ bond_sem' = 1
  /\ UNCHANGED <<remote_shell_running, stop_requested, bridge_esc_state, ringVars,
                 write_sem, bypass, bridge_active, cb, ept, wpc, spc, peripheral,
                 written, histVars, stopping>>

(* The network core is reset, for instance by peripheral_stop.               *)
Unbound ==
  /\ connected
  /\ connected' = FALSE
  /\ UNCHANGED <<remote_shell_running, stop_requested, bridge_esc_state, ringVars,
                 write_sem, bypass, bridge_active, cb, ept, bond_sem, wpc, spc,
                 peripheral, written, histVars, stopping>>

-----------------------------------------------------------------------------
Shell == (\E b \in Bytes : TypeByte(b)) \/ StartCmd \/ StopCmd \/ PeripheralCmd

Worker ==
  \/ SetActive \/ ClearStop \/ SetCallback \/ TestEndpoint \/ WorkerIpcInit
  \/ InitFailed \/ SetBypass \/ LoopTest \/ SemTake \/ IsConnected \/ Claim
  \/ Write \/ Finish \/ ClearBypass \/ Prebind \/ SetInactive \/ ClearRunning
  \/ ThreadEnds

Ipc == Bound \/ Unbound

Next == Shell \/ ShellIpcInit \/ Worker \/ Ipc

Spec == Init /\ [][Next]_vars

(* The worker is runnable whenever the shell waits for input, and all its    *)
(* waits have time-outs; so has the shell's wait in ipc_init.  Nothing is    *)
(* assumed of the operator and of the network core.                          *)
Fairness == WF_vars(Worker) /\ WF_vars(ShellIpcInit)

FairSpec == Spec /\ Fairness

-----------------------------------------------------------------------------
(* Properties *)

TypeOK ==
  /\ remote_shell_running \in BOOLEAN
  /\ stop_requested \in BOOLEAN
  /\ bridge_esc_state \in {0, 1}
  /\ ring \in Seq(Bytes) /\ Len(ring) <= RingSize
  /\ claimed \in Nat
  /\ write_sem \in {0, 1}
  /\ bypass \in BOOLEAN
  /\ bridge_active \in BOOLEAN
  /\ cb \in {"drop", "bridge"}
  /\ ept \in BOOLEAN /\ connected \in BOOLEAN
  /\ bond_sem \in {0, 1}
  /\ wpc \in Enter \cup Loop \cup Leave \cup Dead
  /\ spc \in {"ready", "re_register", "re_bond"}
  /\ peripheral \in BOOLEAN
  /\ written \in Nat
  /\ sent \in Seq(Bytes)
  /\ typed \in Seq(Bytes \cup {"reset"})
  /\ dropped \subseteq Nat
  /\ failed \in BOOLEAN
  /\ stopping \in BOOLEAN

(* The console is never orphaned: while the shell's input is diverted to the *)
(* bridge, the worker is alive and has the end of its loop before it.        *)
ConsoleOwned == bypass => wpc \in Loop \cup {"clear_bypass"}

(* A start never hits a worker that still has statements of the bridge to    *)
(* execute: two workers would take turns on the ring buffer and the console. *)
OneWorker == [][StartCmd => wpc \in Dead]_vars

(* Which of the bytes typed belong to the network core: all but the pairs    *)
(* Ctrl+A Ctrl+X, a Ctrl+A discarded by a reset, one that is still held      *)
(* back, and those the full ring buffer dropped.                             *)
ForNetworkCore(i) ==
  /\ typed[i] # "reset"
  /\ i \notin dropped
  /\ typed[i] = CtrlA => i < Len(typed) /\ typed[i + 1] \notin {CtrlX, "reset"}
  /\ typed[i] = CtrlX => i = 1 \/ typed[i - 1] # CtrlA

(* The k-th byte for the network core, by counting.                          *)
Forwarded ==
  LET kept == {i \in DOMAIN typed : ForNetworkCore(i)}
  IN  [k \in 1 .. Cardinality(kept) |->
         typed[CHOOSE i \in kept : Cardinality({j \in kept : j <= i}) = k]]

(* What has been sent and what the ring buffer still holds.                  *)
Delivered ==
  IF wpc = "finish" THEN sent \o SubSeq(ring, written + 1, Len(ring)) ELSE sent \o ring

(* The bridge is transparent: the network core receives the bytes typed, in  *)
(* order, once each, without the escape sequence, across any number of       *)
(* sessions, as long as no IPC write fails.                                  *)
ByteStream == ~failed => Delivered = Forwarded

(* What the bridge has to end for: the escape sequence, a lost network core  *)
(* while the console is diverted, or a stop command, from the worker's reset *)
(* of stop_requested on; before it (the line "Connecting IPC shell" has not  *)
(* been printed) the command is lost.                                        *)
MustEnd == stopping \/ (bypass /\ (stop_requested \/ ~connected))

(* The bridge ends for each of its three reasons, unless the network core    *)
(* comes back in time: the console is given back, and the worker is gone     *)
(* after a stop command.                                                     *)
BridgeEnds == MustEnd ~> ~MustEnd

(* What the ring buffer holds is sent, all of it, unless the bridge ends or  *)
(* an earlier write has failed (whose claim hides the bytes left over).      *)
BytesGetSent == bypass /\ ring # <<>> ~> ~bypass \/ failed \/ ring = <<>>
=============================================================================
