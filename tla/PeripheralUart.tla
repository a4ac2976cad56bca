---------------------------- MODULE PeripheralUart ----------------------------
(***************************************************************************)
(* The Bluetooth LE UART peripheral: peripheral_uart_test start and stop,   *)
(* the advertising work and the connection callbacks of peripheral_uart.c.  *)
(*                                                                          *)
(* The shell thread can be preempted between any two statements, and sleeps *)
(* 200, 100, 600 and 300 ms in peripheral_stop.  The work queue and the     *)
(* threads of the Bluetooth stack are cooperative and of higher priority:   *)
(* their handlers are cut only where they sleep or wait for the controller. *)
(* The stack and the network core are external; what they may answer and    *)
(* when they report is left open.                                           *)
(***************************************************************************)
EXTENDS Naturals

VARIABLES
  peripheral_uart_sem,    \* its count: 0 enabled, 1 not enabled
  peripheral_initialized,
  bluetooth_enabled,
  peripheral_stopping,    \* read by recycled_cb
  current_conn,           \* current_conn # NULL
  refs,                   \* references to the connection the application holds
  ble_init_ok,            \* count of the semaphore the NUS write thread waits for
  writer,                 \* the NUS write thread has passed that semaphore
  spc,                    \* where the shell thread is
  after,                  \* where peripheral_stop returns to
  queued,                 \* adv_work is in the list of the system work queue
  handler,                \* where adv_work_handler is
  adv,                    \* external: the controller advertises
  link,                   \* external: the stack's only connection object
  core,                   \* external: the network core is running
  refused,                \* history: the last attempt to advertise failed though
                          \* nothing stood in its way
  overrun                 \* history: a stop went on, or ended, with a retry or a
                          \* disconnection still under way

peripheralVars == <<peripheral_uart_sem, peripheral_initialized, bluetooth_enabled,
          peripheral_stopping, current_conn, refs, ble_init_ok, writer, spc, after,
          queued, handler, adv, link, core, refused, overrun>>

flags    == <<peripheral_uart_sem, peripheral_initialized, bluetooth_enabled>>
connVars == <<current_conn, refs>>
nusVars  == <<ble_init_ok, writer>>
workVars == <<queued, handler, refused>>
radio    == <<adv, link, core>>

Starting == {"start", "clean_up", "enable", "nus_init", "init_work", "submit"}
Stopping == {"stop", "test_conn", "disconnect", "disconnecting", "adv_stop",
             "adv_stop_again", "core_off", "core_on", "core_boots", "settle"}

PeripheralInit ==
  /\ peripheral_uart_sem = 1
  /\ peripheral_initialized = FALSE /\ bluetooth_enabled = FALSE
  /\ peripheral_stopping = FALSE
  /\ current_conn = FALSE /\ refs = 0
  /\ ble_init_ok = 0 /\ writer = FALSE
  /\ spc = "ready" /\ after = "ready"
  /\ queued = FALSE /\ handler = "idle"
  /\ adv = FALSE /\ link = "none" /\ core = TRUE
  /\ refused = FALSE /\ overrun = FALSE

-----------------------------------------------------------------------------
(* The shell thread: cmd_peripheral_uart *)

(* The work queue has the higher priority: a work item that can run does so  *)
(* before the next statement of the shell thread.                            *)
ShellRuns == ~(queued /\ handler = "idle")

ShellStep(from, to) == ShellRuns /\ spc = from /\ spc' = to

(* start is refused while the semaphore is 0, stop while it is not.          *)
StartCmd ==
  /\ ShellStep("ready", "start")
  /\ peripheral_uart_sem # 0
  /\ UNCHANGED <<flags, peripheral_stopping, connVars, nusVars, after, workVars,
                 radio, overrun>>

StopCmd ==
  /\ ShellStep("ready", "stop")
  /\ peripheral_uart_sem = 0
  /\ after' = "ready"
  /\ UNCHANGED <<flags, peripheral_stopping, connVars, nusVars, workVars, radio,
                 overrun>>

-----------------------------------------------------------------------------
(* The shell thread: peripheral_start *)

PeripheralStart ==
  /\ ShellStep("start", IF peripheral_initialized THEN "stop" ELSE "enable")
  /\ peripheral_stopping' = FALSE
  /\ after' = "clean_up"
  /\ UNCHANGED <<flags, connVars, nusVars, workVars, radio, overrun>>

(* bt_enable, where -EALREADY counts as success.                             *)
Enable ==
  /\ ShellRuns
  /\ spc \in {"enable", "clean_up"}
  /\ \/ /\ spc' = "nus_init"
        /\ bluetooth_enabled' = TRUE
        /\ ble_init_ok' = 1
     \/ /\ ~bluetooth_enabled
        /\ spc' = "ready"
        /\ UNCHANGED <<bluetooth_enabled, ble_init_ok>>
  /\ UNCHANGED <<peripheral_uart_sem, peripheral_initialized, peripheral_stopping,
                 connVars, writer, after, workVars, radio, overrun>>

(* A failure leaves Bluetooth enabled and the semaphore at 1.                *)
NusInit ==
  /\ \/ ShellStep("nus_init", "init_work")
     \/ ShellStep("nus_init", "ready")
  /\ UNCHANGED <<flags, peripheral_stopping, connVars, nusVars, after, workVars,
                 radio, overrun>>

(* k_work_init, undefined for an item in use (see WorkIntact).               *)
InitWork ==
  /\ ShellStep("init_work", "submit")
  /\ UNCHANGED <<flags, peripheral_stopping, connVars, nusVars, after, workVars,
                 radio, overrun>>

Submit ==
  /\ ShellStep("submit", "ready")
  /\ queued' = TRUE
  /\ peripheral_uart_sem' = 0
  /\ peripheral_initialized' = TRUE
  /\ UNCHANGED <<bluetooth_enabled, peripheral_stopping, connVars, nusVars, after,
                 handler, refused, radio, overrun>>

-----------------------------------------------------------------------------
(* The shell thread: peripheral_stop *)

(* Mutant of PeripheralStop: the callbacks are not told.                     *)
PeripheralStop_NoFlag ==
  /\ IF peripheral_initialized \/ bluetooth_enabled
     THEN ShellStep("stop", "test_conn")
     ELSE ShellStep("stop", after)
  /\ UNCHANGED <<flags, peripheral_stopping, connVars, nusVars, after, workVars,
                 radio, overrun>>

PeripheralStop ==
  /\ IF peripheral_initialized \/ bluetooth_enabled
     THEN ShellStep("stop", "test_conn") /\ peripheral_stopping' = TRUE
     ELSE ShellStep("stop", after) /\ UNCHANGED peripheral_stopping
  /\ UNCHANGED <<flags, connVars, nusVars, after, workVars, radio, overrun>>

(* current_conn is loaded once, for the test and for the call.               *)
TestConn ==
  /\ ShellStep("test_conn", IF current_conn THEN "disconnect" ELSE "adv_stop")
  /\ UNCHANGED <<flags, peripheral_stopping, connVars, nusVars, after, workVars,
                 radio, overrun>>

(* bt_conn_disconnect, an error where the connection has gone meanwhile.     *)
Disconnect ==
  /\ ShellStep("disconnect", "disconnecting")
  /\ link' = IF link = "up" THEN "closing" ELSE link
  /\ UNCHANGED <<flags, peripheral_stopping, connVars, nusVars, after, workVars,
                 adv, core, overrun>>

(* After the 200 ms, or at once without a connection.  The result of         *)
(* bt_le_adv_stop is printed: where it fails, advertising may go on.         *)
AdvStop ==
  /\ \/ ShellStep("disconnecting", "adv_stop_again")
     \/ ShellStep("adv_stop", "adv_stop_again")
  /\ adv' \in {FALSE, adv}
  /\ UNCHANGED <<flags, peripheral_stopping, connVars, nusVars, after, workVars,
                 link, core, overrun>>

(* bt_le_adv_stop cannot cancel a retry of adv_work_handler, and may fail.   *)
AdvStopAgain ==
  /\ ShellStep("adv_stop_again", IF bluetooth_enabled THEN "core_off" ELSE "settle")
  /\ adv' \in {FALSE, adv}
  /\ overrun' = (overrun \/ queued \/ handler # "idle")
  /\ UNCHANGED <<flags, peripheral_stopping, connVars, nusVars, after, workVars,
                 link, core>>

(* peripheral_cpunet_restart: nrf53_cpunet_enable(false), 100 ms.  The stack *)
(* is not told that its connection is lost: it may report the disconnection  *)
(* some time, and it may hold its only connection object for ever.           *)
CoreOff ==
  /\ ShellStep("core_off", "core_on")
  /\ core' = FALSE
  /\ adv' = FALSE
  /\ link' = IF link \in {"up", "closing"} THEN "lost" ELSE link
  /\ UNCHANGED <<flags, peripheral_stopping, connVars, nusVars, after, workVars,
                 overrun>>

(* nrf53_cpunet_enable(true), 600 ms.                                        *)
CoreOn ==
  /\ ShellStep("core_on", "core_boots")
  /\ core' = TRUE
  /\ UNCHANGED <<flags, peripheral_stopping, connVars, nusVars, after, workVars,
                 adv, link, overrun>>

(* The radio reset that follows is compiled out on the application core.     *)
CoreBoots ==
  /\ ShellStep("core_boots", "settle")
  /\ bluetooth_enabled' = FALSE
  /\ UNCHANGED <<peripheral_uart_sem, peripheral_initialized, peripheral_stopping,
                 connVars, nusVars, after, workVars, radio, overrun>>

(* Mutant of Settle: the semaphore is not given back.                        *)
Settle_NoGive ==
  /\ ShellStep("settle", after)
  /\ peripheral_initialized' = FALSE
  /\ peripheral_stopping' = FALSE
  /\ overrun' = (overrun \/ link # "none" \/ queued \/ handler # "idle")
  /\ UNCHANGED <<peripheral_uart_sem, bluetooth_enabled, connVars, nusVars, after,
                 workVars, radio>>

(* After the 300 ms.                                                         *)
Settle ==
  /\ ShellStep("settle", after)
  /\ peripheral_initialized' = FALSE
  /\ peripheral_stopping' = FALSE
  /\ peripheral_uart_sem' = 1
  /\ overrun' = (overrun \/ link # "none" \/ queued \/ handler # "idle")
  /\ UNCHANGED <<bluetooth_enabled, connVars, nusVars, after, workVars, radio>>

-----------------------------------------------------------------------------
(* The system work queue: adv_work_handler *)

WorkRuns ==
  /\ queued /\ handler = "idle"
  /\ queued' = FALSE
  /\ handler' = "starting"
  /\ refused' = FALSE
  /\ UNCHANGED <<flags, peripheral_stopping, connVars, nusVars, spc, after, radio,
                 overrun>>

(* The controller runs, the stack has a connection object to advertise with  *)
(* (CONFIG_BT_MAX_CONN = 1) and does not advertise yet.                      *)
CanAdvertise == core /\ link = "none" /\ ~adv

AdvStarts ==
  /\ handler = "starting" /\ CanAdvertise
  /\ handler' = "idle"
  /\ adv' = TRUE
  /\ UNCHANGED <<flags, peripheral_stopping, connVars, nusVars, spc, after, queued,
                 refused, link, core, overrun>>

(* -EAGAIN: sleep 200 ms, then submit.                                       *)
AdvBusy ==
  /\ handler = "starting"
  /\ handler' = "sleeping"
  /\ UNCHANGED <<flags, peripheral_stopping, connVars, nusVars, spc, after, queued,
                 refused, radio, overrun>>

AdvFails ==
  /\ handler = "starting"
  /\ handler' = "idle"
  /\ refused' = CanAdvertise
  /\ UNCHANGED <<flags, peripheral_stopping, connVars, nusVars, spc, after, queued,
                 radio, overrun>>

Retry ==
  /\ handler = "sleeping"
  /\ handler' = "idle"
  /\ queued' = TRUE
  /\ UNCHANGED <<flags, peripheral_stopping, connVars, nusVars, spc, after, refused,
                 radio, overrun>>

-----------------------------------------------------------------------------
(* The Bluetooth stack: connected, disconnected, recycled_cb *)

Connected ==
  /\ adv
  /\ adv' = FALSE
  /\ link' = "up"
  /\ current_conn' = TRUE
  /\ refs' = refs + 1
  /\ UNCHANGED <<flags, peripheral_stopping, nusVars, spc, after, workVars, core,
                 overrun>>

(* connected with an error: the callback returns.                            *)
ConnectFails ==
  /\ adv
  /\ adv' = FALSE
  /\ link' = "down"
  /\ UNCHANGED <<flags, peripheral_stopping, connVars, nusVars, spc, after, workVars,
                 core, overrun>>

(* Mutant of Disconnected: the reference is not released.                    *)
Disconnected_NoUnref ==
  /\ link \in {"up", "closing", "lost"}
  /\ link' = "down"
  /\ current_conn' = FALSE
  /\ UNCHANGED <<flags, peripheral_stopping, refs, nusVars, spc, after, workVars,
                 adv, core, overrun>>

Disconnected ==
  /\ link \in {"up", "closing", "lost"}
  /\ link' = "down"
  /\ current_conn' = FALSE
  /\ refs' = IF current_conn THEN refs - 1 ELSE refs
  /\ UNCHANGED <<flags, peripheral_stopping, nusVars, spc, after, workVars, adv, core,
                 overrun>>

(* Mutant of Recycled: advertising is restarted also while stopping.         *)
Recycled_Always ==
  /\ link = "down" /\ refs = 0
  /\ link' = "none"
  /\ queued' = TRUE
  /\ UNCHANGED <<flags, peripheral_stopping, connVars, nusVars, spc, after, handler,
                 refused, adv, core, overrun>>

(* The object is free once nobody refers to it.                              *)
Recycled ==
  /\ link = "down" /\ refs = 0
  /\ link' = "none"
  /\ queued' = (queued \/ ~peripheral_stopping)
  /\ UNCHANGED <<flags, peripheral_stopping, connVars, nusVars, spc, after, handler,
                 refused, adv, core, overrun>>

(* ble_write_thread: nothing is ever put into the queue it waits for next.   *)
WriterStarts ==
  /\ ~writer /\ ble_init_ok = 1
  /\ writer' = TRUE
  /\ ble_init_ok' = 0
  /\ UNCHANGED <<flags, peripheral_stopping, connVars, spc, after, workVars, radio,
                 overrun>>

-----------------------------------------------------------------------------
ShellGoesOn ==
  \/ PeripheralStart \/ Enable \/ NusInit \/ InitWork \/ Submit
  \/ PeripheralStop \/ TestConn \/ Disconnect \/ AdvStop \/ AdvStopAgain
  \/ CoreOff \/ CoreOn \/ CoreBoots \/ Settle

WorkQueue == WorkRuns \/ AdvStarts \/ AdvBusy \/ AdvFails \/ Retry

Stack == Connected \/ ConnectFails \/ Disconnected \/ Recycled

PeripheralNext == StartCmd \/ StopCmd \/ ShellGoesOn \/ WorkQueue \/ Stack \/ WriterStarts

PeripheralSpec == PeripheralInit /\ [][PeripheralNext]_peripheralVars

(* Threads that can run do run and sleeps end; the stack answers, is not     *)
(* busy for ever, and hands back a connection object nobody refers to.       *)
(* Nothing is assumed of the operator and of peers, nor that the stack       *)
(* reports a connection that was cut off with the network core.              *)
Fairness ==
  /\ WF_peripheralVars(ShellGoesOn)
  /\ WF_peripheralVars(WorkQueue)
  /\ SF_peripheralVars(AdvStarts)
  /\ WF_peripheralVars(Recycled)

PeripheralFairSpec == PeripheralSpec /\ Fairness

-----------------------------------------------------------------------------
(* Properties *)

PeripheralTypeOK ==
  /\ peripheral_uart_sem \in {0, 1}
  /\ peripheral_initialized \in BOOLEAN /\ bluetooth_enabled \in BOOLEAN
  /\ peripheral_stopping \in BOOLEAN
  /\ current_conn \in BOOLEAN /\ refs \in {0, 1}
  /\ ble_init_ok \in {0, 1} /\ writer \in BOOLEAN
  /\ spc \in {"ready"} \cup Starting \cup Stopping
  /\ after \in {"ready", "clean_up"}
  /\ queued \in BOOLEAN /\ handler \in {"idle", "starting", "sleeping"}
  /\ adv \in BOOLEAN /\ core \in BOOLEAN
  /\ link \in {"none", "up", "closing", "lost", "down"}
  /\ refused \in BOOLEAN /\ overrun \in BOOLEAN

Enabled == spc = "ready" /\ peripheral_uart_sem = 0
Stopped == spc = "ready" /\ peripheral_uart_sem = 1

(* The semaphore tells the other commands whether the peripheral is enabled, *)
(* whatever has failed before: then, and only then, it is initialised, on a  *)
(* running network core, with Bluetooth enabled and callbacks that may       *)
(* advertise.  In particular peripheral_start never finds it initialised.    *)
SemaphoreTells ==
  /\ PeripheralTypeOK
  /\ spc = "ready" =>
    /\ peripheral_initialized <=> peripheral_uart_sem = 0
    /\ peripheral_initialized => bluetooth_enabled
    /\ ~peripheral_stopping
    /\ core

(* A stopped peripheral neither advertises nor is connected, and stays so,   *)
(* if no stop has left a retry or a disconnection behind.                    *)
StoppedIsSilent ==
  Stopped /\ ~overrun => ~adv /\ link = "none" /\ ~queued /\ handler = "idle"

(* k_work_init never hits a work item that is queued or running.             *)
WorkIntact == [][InitWork /\ ~overrun => ~queued /\ handler = "idle"]_peripheralVars

(* The stack still holds a connection that ended with the network core:      *)
(* peripheral_stop switches the core off without a word to the stack.        *)
HeldByStack == link = "lost"

(* An enabled peripheral advertises or is connected again after any failed   *)
(* or ended connection, and after a start that finds the connection of the   *)
(* session before reported but not yet released.  One the stack has not      *)
(* reported stands in the way for as long as it does not.                    *)
EnabledAdvertises ==
  Enabled ~> adv \/ link = "up" \/ HeldByStack \/ refused \/ ~Enabled
=============================================================================
