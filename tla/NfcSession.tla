------------------------------ MODULE NfcSession ------------------------------
(***************************************************************************)
(* The NFC reader session: the shell command handler "pn7160_test start |  *)
(* stop" (cmd.c), the worker thread that waits for it (nfc_thread.c) and   *)
(* the reader task that the worker runs (nfc_task.c, RW build).            *)
(*                                                                         *)
(* The two threads share nfc_run_flag, a plain bool, and nfc_start_sem, a  *)
(* binary semaphore.  The shell thread has the higher priority, so a       *)
(* command handler is one step unless it sleeps; the worker can be         *)
(* preempted between any two of its accesses to the flag, so each test of  *)
(* the flag and each blocking library call is a step of its own.  Calls    *)
(* into the NCI library are represented by their possible outcomes.        *)
(***************************************************************************)
EXTENDS Naturals

VARIABLES
  nfc_run_flag,     \* nfc_thread.c: bool nfc_run_flag
  nfc_start_sem,    \* nfc_thread.c: K_SEM_DEFINE(nfc_start_sem, 0, 1)
  nfc_initialized,  \* nfc_thread.c: static bool in nfc_thread_entry
  thread_started,   \* cmd.c: static bool in cmd_pn7160_test
  shell_pc,         \* "ready", or "started" while k_msleep(10) of the first start
  pc,               \* where the worker is
  rf,               \* RfInterface: what the last discovery reported
  nfcc,             \* radio of the controller: "idle", "discovering", "active"
  card,             \* a card is in the field
  wanted,           \* history: the operator's last command was "start" (and no
                    \* session has since ended with an error report)
  late,             \* history: library calls finished since the flag went false
  hasty,            \* history: a start was given to a worker that winds down
  failed            \* history: a call has failed after which the task does not
                    \* know what the controller does

vars == <<nfc_run_flag, nfc_start_sem, nfc_initialized, thread_started,
          shell_pc, pc, rf, nfcc, card, wanted, late, hasty, failed>>

shellVars  == <<thread_started, shell_pc>>
histVars   == <<hasty, failed>>
shared     == <<nfc_run_flag, nfc_start_sem, nfc_initialized>>

(* Worker locations, named after the statement about to be executed. *)
ConnectPhase == {"connect", "settings", "mode", "discover"}
LoopPhase    == {"loop", "wait_test", "wait", "recheck", "loop_end"}
ReaderPhase  == {"reader", "read", "activate", "reader_check", "presence_test",
                 "presence", "removed", "stop_discovery", "start_discovery"}
EndPhase     == {"final", "final_stop", "clear"}
SessionPhase == ConnectPhase \cup LoopPhase \cup ReaderPhase \cup EndPhase
IdlePhase    == {"unborn", "sem_take", "check", "stopped"}

RfInterface == [known : BOOLEAN, poll : BOOLEAN, more : BOOLEAN]

Init ==
  /\ nfc_run_flag = FALSE
  /\ nfc_start_sem = 0
  /\ nfc_initialized = FALSE
  /\ thread_started = FALSE
  /\ shell_pc = "ready"
  /\ pc = "unborn"
  /\ rf \in RfInterface   \* an uninitialised local of task_nfc
  /\ nfcc = "idle"
  /\ card = FALSE
  /\ wanted = FALSE
  /\ late = 0
  /\ hasty = FALSE
  /\ failed = FALSE

-----------------------------------------------------------------------------
(* Shell thread *)

(* Nothing of an earlier session is left: what an operator who waits for    *)
(* the line "Test Stopped." knows.                                          *)
Parked == pc \in {"unborn", "sem_take"} /\ nfc_start_sem = 0

(* The worker has not parked yet after a stop command or a failure.         *)
WindsDown == pc \in EndPhase \/ (~nfc_run_flag /\ ~Parked)

(* Mutant of GiveStart: the semaphore is not given.                          *)
GiveStart_NoGive ==
  /\ wanted' = TRUE
  /\ nfc_run_flag' = TRUE
  /\ late' = IF nfc_run_flag THEN late ELSE 0
  /\ UNCHANGED nfc_start_sem

(* if (!nfc_run_flag) { nfc_run_flag = true; k_sem_give(&nfc_start_sem); }   *)
GiveStart ==
  /\ wanted' = TRUE
  /\ \/ /\ ~nfc_run_flag
        /\ nfc_run_flag' = TRUE
        /\ nfc_start_sem' = 1
        /\ late' = 0
     \/ /\ nfc_run_flag
        /\ UNCHANGED <<nfc_run_flag, nfc_start_sem, late>>

FirstStart ==
  /\ shell_pc = "ready"
  /\ ~thread_started
  /\ thread_started' = TRUE
  /\ pc' = "sem_take"
  /\ shell_pc' = "started"
  /\ UNCHANGED <<shared, rf, nfcc, card, wanted, late, histVars>>

FirstStartResumes ==
  /\ shell_pc = "started"
  /\ shell_pc' = "ready"
  /\ GiveStart
  /\ UNCHANGED <<nfc_initialized, thread_started, pc, rf, nfcc, card, histVars>>

Start ==
  /\ shell_pc = "ready"
  /\ thread_started
  /\ GiveStart
  /\ hasty' = (hasty \/ WindsDown)
  /\ UNCHANGED <<nfc_initialized, shellVars, pc, rf, nfcc, card, failed>>

Stop ==
  /\ shell_pc = "ready"
  /\ nfc_run_flag' = FALSE
  /\ wanted' = FALSE
  /\ UNCHANGED <<nfc_start_sem, nfc_initialized, shellVars, pc, rf, nfcc, card, late, histVars>>

-----------------------------------------------------------------------------
(* Worker thread: nfc_thread_entry *)

SemTake ==
  /\ pc = "sem_take"
  /\ nfc_start_sem = 1
  /\ nfc_start_sem' = 0
  /\ pc' = "check"
  /\ UNCHANGED <<nfc_run_flag, nfc_initialized, shellVars, rf, nfcc, card, wanted, late, histVars>>

(* Mutant of CheckFlag: the semaphore alone starts a session.                *)
CheckFlag_NoTest ==
  /\ pc = "check"
  /\ nfc_initialized' = TRUE
  /\ pc' = "connect"
  /\ UNCHANGED <<nfc_run_flag, nfc_start_sem, shellVars, rf, nfcc, card, wanted, late, histVars>>

CheckFlag ==
  /\ pc = "check"
  /\ \/ /\ nfc_run_flag
        /\ nfc_initialized' = TRUE
        /\ pc' = "connect"
     \/ /\ ~nfc_run_flag
        /\ pc' = "stopped"
        /\ UNCHANGED nfc_initialized
  /\ UNCHANGED <<nfc_run_flag, nfc_start_sem, shellVars, rf, nfcc, card, wanted, late, histVars>>

(* Mutant of ClearFlag: the flag is left set after a failed session.         *)
ClearFlag_KeepsFlag ==
  /\ pc = "clear"
  /\ nfc_initialized' = FALSE
  /\ pc' = "stopped"
  /\ UNCHANGED <<nfc_run_flag, nfc_start_sem, shellVars, rf, nfcc, card, wanted, late, histVars>>

ClearFlag ==
  /\ pc = "clear"
  /\ nfc_run_flag' = FALSE
  /\ nfc_initialized' = FALSE
  /\ pc' = "stopped"
  /\ UNCHANGED <<nfc_start_sem, shellVars, rf, nfcc, card, wanted, late, histVars>>

PrintStopped ==
  /\ pc = "stopped"
  /\ pc' = "sem_take"
  /\ UNCHANGED <<shared, shellVars, rf, nfcc, card, wanted, late, histVars>>

-----------------------------------------------------------------------------
(* Worker thread: task_nfc *)

(* A library call finishes; calls made while the flag is false are counted, *)
(* up to LateBound, one more than StopIsPrompt allows.                       *)
LateBound == 6

CallReturns ==
  late' = IF nfc_run_flag \/ late = LateBound THEN late ELSE late + 1

(* Testing nfc_run_flag: one read, nothing else changes. *)
Test(from, ifTrue, ifFalse) ==
  /\ pc = from
  /\ pc' = IF nfc_run_flag THEN ifTrue ELSE ifFalse
  /\ UNCHANGED <<shared, shellVars, rf, nfcc, card, wanted, late, histVars>>

(* tml_Connect resets the controller; then up to three CORE_RESETs and INIT. *)
Connect ==
  /\ pc = "connect"
  /\ nfcc' = "idle"
  /\ CallReturns
  /\ \/ pc' = "settings" /\ UNCHANGED wanted
     \/ pc' = "clear" /\ wanted' = FALSE
  /\ UNCHANGED <<shared, shellVars, rf, card, histVars>>

ConfigureSettings ==
  /\ pc = "settings"
  /\ CallReturns
  /\ \/ pc' = "mode" /\ UNCHANGED wanted
     \/ pc' = "clear" /\ wanted' = FALSE
  /\ UNCHANGED <<shared, shellVars, rf, nfcc, card, histVars>>

ConfigureMode ==
  /\ pc = "mode"
  /\ CallReturns
  /\ \/ pc' = "discover" /\ UNCHANGED wanted
     \/ pc' = "clear" /\ wanted' = FALSE
  /\ UNCHANGED <<shared, shellVars, rf, nfcc, card, histVars>>

(* An error report leaves the controller in either state: the command or    *)
(* only its answer may have been lost.                                      *)
FirstDiscovery ==
  /\ pc = "discover"
  /\ CallReturns
  /\ \/ pc' = "loop" /\ nfcc' = "discovering" /\ UNCHANGED <<wanted, failed>>
     \/ /\ pc' = "clear"
        /\ wanted' = FALSE
        /\ nfcc' \in {"idle", "discovering"}
        /\ failed' = TRUE
  /\ UNCHANGED <<shared, shellVars, rf, card, hasty>>

(* Mutant of WaitTest: while (WaitForDiscoveryNotification() != SUCCESS).     *)
WaitTest_NoFlag == Test("wait_test", "wait", "wait")

LoopTest == Test("loop", "wait_test", "final")
WaitTest == Test("wait_test", "wait", "recheck")
EndTest  == Test("loop_end", "loop", "final")

(* NxpNci_WaitForDiscoveryNotification: three seconds without an answer is  *)
(* an error, which the inner loop retries after k_msleep(10).  The call can  *)
(* also fail after the first of several RF_DISCOVER_NTFs, when the           *)
(* controller has left discovery and waits for a selection.                  *)
WaitForDiscovery ==
  /\ pc = "wait"
  /\ CallReturns
  /\ \/ /\ nfcc = "discovering" /\ card
        /\ nfcc' = "active"
        /\ rf' \in RfInterface
        /\ pc' = "recheck"
        /\ UNCHANGED failed
     \/ /\ nfcc # "discovering" \/ ~card
        /\ pc' = "wait_test"
        /\ UNCHANGED <<rf, nfcc, failed>>
     \/ /\ nfcc = "discovering" /\ card
        /\ pc' = "wait_test"
        /\ nfcc' \in {"discovering", "active"}
        /\ failed' = TRUE
        /\ UNCHANGED rf
  /\ UNCHANGED <<shared, shellVars, card, wanted, hasty>>

(* if (!nfc_run_flag) break; then the poll test on RfInterface.ModeTech.     *)
Recheck ==
  /\ pc = "recheck"
  /\ pc' = CASE ~nfc_run_flag -> "final"
             [] nfc_run_flag /\ rf.poll -> "reader"
             [] OTHER -> "loop_end"
  /\ UNCHANGED <<shared, shellVars, rf, nfcc, card, wanted, late, histVars>>

(* NxpNci_StopDiscovery, whose result is ignored everywhere.                 *)
StopsOrNot ==
  \/ nfcc' = "idle" /\ UNCHANGED failed
  \/ UNCHANGED nfcc /\ failed' = TRUE

(* The end of task_nfc: the flag is read again to decide on the clean-up.    *)
FinalTest == Test("final", "clear", "final_stop")

(* NxpNci_StopDiscovery, then NxpNci_Disconnect, which does nothing.         *)
FinalStop ==
  /\ pc = "final_stop"
  /\ pc' = "clear"
  /\ CallReturns
  /\ StopsOrNot
  /\ UNCHANGED <<shared, shellVars, rf, card, wanted, hasty>>

-----------------------------------------------------------------------------
(* Worker thread: task_nfc_reader *)

ReaderLoopTest == Test("reader", "read", "presence_test")

(* READ_NDEF of the activated card; then, are there more cards?              *)
ReadCard ==
  /\ pc = "read"
  /\ CallReturns
  /\ pc' = IF rf.more THEN "activate" ELSE "presence_test"
  /\ UNCHANGED <<shared, shellVars, rf, nfcc, card, wanted, histVars>>

(* NxpNci_ReaderActivateNext clears MoreTags whatever its outcome.           *)
ActivateNext ==
  /\ pc = "activate"
  /\ CallReturns
  /\ \/ pc' = "reader_check" /\ rf' \in {r \in RfInterface : ~r.more}
     \/ /\ pc' = "presence_test"
        /\ rf' = [rf EXCEPT !.more = FALSE]
  /\ UNCHANGED <<shared, shellVars, nfcc, card, wanted, histVars>>

ReaderTest   == Test("reader_check", "reader", "presence_test")
PresenceTest == Test("presence_test", "presence", "removed")

(* PRESENCE_CHECK polls the card until it is gone; it returns at once for a *)
(* protocol it does not know.                                               *)
PresenceCheck ==
  /\ pc = "presence"
  /\ rf.known => ~card
  /\ CallReturns
  /\ pc' = "removed"
  /\ UNCHANGED <<shared, shellVars, rf, nfcc, card, wanted, histVars>>

RemovedTest == Test("removed", "stop_discovery", "loop_end")

(* Mutant of RestartStop: discovery is not started again for the next card.  *)
RestartStop_NoRestart ==
  /\ pc = "stop_discovery"
  /\ pc' = "loop_end"
  /\ CallReturns
  /\ StopsOrNot
  /\ UNCHANGED <<shared, shellVars, rf, card, wanted, hasty>>

RestartStop ==
  /\ pc = "stop_discovery"
  /\ pc' = "start_discovery"
  /\ CallReturns
  /\ StopsOrNot
  /\ UNCHANGED <<shared, shellVars, rf, card, wanted, hasty>>

(* The result of this NxpNci_StartDiscovery is ignored.                      *)
RestartDiscovery ==
  /\ pc = "start_discovery"
  /\ pc' = "loop_end"
  /\ CallReturns
  /\ \/ nfcc' = "discovering" /\ UNCHANGED failed
     \/ UNCHANGED nfcc /\ failed' = TRUE
  /\ UNCHANGED <<shared, shellVars, rf, card, wanted, hasty>>

-----------------------------------------------------------------------------
(* Environment *)

CardArrives ==
  /\ ~card
  /\ card' = TRUE
  /\ UNCHANGED <<shared, shellVars, pc, rf, nfcc, wanted, late, histVars>>

CardLeaves ==
  /\ card
  /\ card' = FALSE
  /\ UNCHANGED <<shared, shellVars, pc, rf, nfcc, wanted, late, histVars>>

-----------------------------------------------------------------------------
Shell == FirstStart \/ FirstStartResumes \/ Start \/ Stop

Thread == SemTake \/ CheckFlag \/ ClearFlag \/ PrintStopped

Task ==
  \/ Connect \/ ConfigureSettings \/ ConfigureMode \/ FirstDiscovery
  \/ LoopTest \/ WaitTest \/ WaitForDiscovery \/ Recheck \/ EndTest
  \/ FinalTest \/ FinalStop

Reader ==
  \/ ReaderLoopTest \/ ReadCard \/ ActivateNext \/ ReaderTest \/ PresenceTest \/ PresenceCheck
  \/ RemovedTest \/ RestartStop \/ RestartDiscovery

Environment == CardArrives \/ CardLeaves

Worker == Thread \/ Task \/ Reader

Next == Shell \/ Worker \/ Environment

Spec == Init /\ [][Next]_vars

(* Both threads are always scheduled: the shell returns from its k_msleep   *)
(* and the worker, whose calls all have time-outs, is runnable whenever the  *)
(* shell waits for input.                                                    *)
ThreadsRun == WF_vars(FirstStartResumes) /\ WF_vars(Worker)

FairSpec == Spec /\ ThreadsRun

(* The cards are taken away again, and long enough to be noticed.            *)
CardsAreRemoved == WF_vars(CardLeaves) /\ SF_vars(PresenceCheck)

CardSpec == FairSpec /\ CardsAreRemoved

-----------------------------------------------------------------------------
(* Properties *)

TypeOK ==
  /\ nfc_run_flag \in BOOLEAN
  /\ nfc_start_sem \in {0, 1}
  /\ nfc_initialized \in BOOLEAN
  /\ thread_started \in BOOLEAN
  /\ shell_pc \in {"ready", "started"}
  /\ pc \in SessionPhase \cup IdlePhase
  /\ rf \in RfInterface
  /\ nfcc \in {"idle", "discovering", "active"}
  /\ card \in BOOLEAN
  /\ wanted \in BOOLEAN
  /\ late \in 0 .. LateBound
  /\ hasty \in BOOLEAN
  /\ failed \in BOOLEAN

(* No wake-up is lost: a worker that waits (or is about to wait) for the     *)
(* semaphore while the flag is set finds the semaphore given, so the guard   *)
(* "if (!nfc_run_flag)" of the start command never locks a session out.      *)
NoLostWakeup ==
  nfc_run_flag /\ pc \in {"unborn", "sem_take", "stopped"} => nfc_start_sem = 1

(* Stopping is prompt: whatever the task is doing when the flag goes false,  *)
(* at most five library calls (the one in progress included) finish before   *)
(* the worker waits for the next start.                                      *)
StopIsPrompt == ~nfc_run_flag => late <= 5

(* How many library calls can have finished since the flag went false when   *)
(* the worker is at p, the flag still being false.                           *)
Budget(p) ==
  CASE p \in {"connect", "wait", "read", "presence", "stop_discovery", "reader"} -> 0
    [] p \in {"settings", "wait_test", "recheck", "activate", "start_discovery"} -> 1
    [] p \in {"mode", "reader_check", "presence_test", "removed", "loop_end"} -> 2
    [] p = "discover" -> 3
    [] p \in {"loop", "final", "final_stop"} -> 4
    [] OTHER -> 5

(* The inductive strengthening of StopIsPrompt.                              *)
PromptInv ==
  /\ nfc_run_flag => late = 0
  /\ late <= Budget(pc)

(* The inductive strengthening of NoLostWakeup: before the first start the   *)
(* flag is false and the worker does not exist.                              *)
WakeupInv ==
  /\ ~thread_started => pc = "unborn" /\ ~nfc_run_flag /\ shell_pc = "ready"
  /\ thread_started => pc # "unborn"
  /\ NoLostWakeup

(* The operator has not been hasty, and the controller has done as told.     *)
Calm == ~hasty /\ ~failed

(* The radio is off while the worker is parked: a stop command ends with the *)
(* clean-up at the end of task_nfc, "stop discovery and disconnect".         *)
ParkedIsQuiet == Calm /\ Parked /\ ~nfc_run_flag => nfcc # "discovering"

(* While the task waits for a card the controller is looking for one, unless *)
(* the task has just dropped a discovery that was not a poll-mode one: the   *)
(* restart of the discovery loop is never skipped.                           *)
WaitingIsDiscovering ==
  Calm /\ pc \in {"wait_test", "wait"} /\ nfc_run_flag =>
    nfcc = "discovering" \/ (nfcc = "active" /\ ~rf.poll)

(* The radio follows the session, parked or waiting for a card.              *)
RadioFollows == ParkedIsQuiet /\ WaitingIsDiscovering

(* The worker is inside a session that has not been told to stop.            *)
InSession == nfc_run_flag /\ pc \in SessionPhase \ EndPhase

(* Every start command that is not typed while the worker winds down leads   *)
(* to a session, unless a stop command follows.                              *)
StartHonoured == wanted ~> (InSession \/ ~wanted \/ hasty)

(* The same for every start command.                                         *)
EveryStartHonoured == wanted ~> (InSession \/ ~wanted)

(* What the operator relies on: see SessionService.  A session is on while   *)
(* the worker is inside task_nfc, and told to end from a stop command on,    *)
(* unless a start command comes before the task has noticed.                 *)
Service == INSTANCE SessionService WITH
  request <- IF wanted THEN "start" ELSE "stop",
  session <- IF pc \in SessionPhase THEN "on" ELSE "off",
  told    <- pc \in EndPhase \/ (pc \in SessionPhase /\ ~nfc_run_flag)

(* Sessions begin on request, end because of a stop or an error, and always  *)
(* end after a stop that no start follows.                                   *)
ServiceKept == Service!FairSpec
=============================================================================
