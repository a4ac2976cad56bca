------------------------- MODULE ShellServiceProofs -------------------------
(***************************************************************************)
(* Proofs about the two services that shell commands start and stop.        *)
(*                                                                          *)
(* NfcSession, whichever calls fail and however hasty the operator is: type *)
(* correctness, no lost wake-up, the bound on the library calls that finish *)
(* after a stop command, and that the session service is implemented.       *)
(*                                                                          *)
(* PeripheralUart, in the last part, whichever calls fail and whenever the  *)
(* Bluetooth stack reports: the semaphore tells, a stop silences, and the   *)
(* work item is not initialised while it is in use.                         *)
(***************************************************************************)
EXTENDS NfcSession, PeripheralUart, TLAPS

USE DEF vars, shellVars, shared, histVars, LateBound

(* What the start command does to the variables it touches.                 *)
LEMMA GiveStartEffect ==
  ASSUME GiveStart, TypeOK
  PROVE  /\ wanted' = TRUE
         /\ nfc_run_flag' = TRUE
         /\ nfc_start_sem' \in {0, 1}
         /\ late' \in 0 .. LateBound
         /\ ~nfc_run_flag => nfc_start_sem' = 1 /\ late' = 0
         /\ nfc_run_flag => nfc_start_sem' = nfc_start_sem /\ late' = late
<1>1. CASE nfc_run_flag
  BY <1>1 DEF GiveStart, TypeOK
<1>2. CASE ~nfc_run_flag
  BY <1>2 DEF GiveStart, TypeOK
<1>3. QED
  BY <1>1, <1>2

(* A library call keeps the counter a number.                                *)
LEMMA CallReturnsType ==
  ASSUME CallReturns, TypeOK
  PROVE  late' \in 0 .. LateBound
BY DEF CallReturns, TypeOK

(* The two flags of the history are set or left alone.                       *)
LEMMA HistoryType ==
  ASSUME TypeOK, [Next]_vars
  PROVE  hasty' \in BOOLEAN /\ failed' \in BOOLEAN
<1>1. CASE Shell
  BY <1>1 DEF Shell, FirstStart, FirstStartResumes, Start, Stop, TypeOK
<1>2. CASE Thread
  BY <1>2 DEF Thread, SemTake, CheckFlag, ClearFlag, PrintStopped, TypeOK
<1>3. CASE Task
  BY <1>3 DEF Task, Connect, ConfigureSettings, ConfigureMode, FirstDiscovery,
     LoopTest, WaitTest, WaitForDiscovery, Recheck, EndTest, FinalTest,
     FinalStop, StopsOrNot, Test, TypeOK
<1>4. CASE Reader
  BY <1>4 DEF Reader, ReaderLoopTest, ReadCard, ActivateNext, ReaderTest,
     PresenceTest, PresenceCheck, RemovedTest, RestartStop, RestartDiscovery,
     StopsOrNot, Test, TypeOK
<1>5. CASE Environment \/ UNCHANGED vars
  BY <1>5 DEF Environment, CardArrives, CardLeaves, TypeOK
<1>6. QED
  BY <1>1, <1>2, <1>3, <1>4, <1>5 DEF Next, Worker

(* The type invariant: no step leaves the types of the variables; the        *)
(* semaphore in particular stays within its limit of one.                    *)
THEOREM TypeCorrect == Spec => []TypeOK
<1>1. Init => TypeOK
  <2>1. Init => pc \in SessionPhase \cup IdlePhase
    BY DEF Init, IdlePhase
  <2>2. Init => shell_pc \in {"ready", "started"}
    BY DEF Init
  <2>3. Init => nfcc \in {"idle", "discovering", "active"}
    BY DEF Init
  <2>4. Init => rf \in RfInterface /\ late \in 0 .. LateBound /\ nfc_start_sem \in {0, 1}
    BY DEF Init
  <2>5. Init => /\ nfc_run_flag \in BOOLEAN /\ nfc_initialized \in BOOLEAN
                /\ thread_started \in BOOLEAN /\ card \in BOOLEAN /\ wanted \in BOOLEAN
                /\ hasty \in BOOLEAN /\ failed \in BOOLEAN
    BY DEF Init
  <2>6. QED
    BY <2>1, <2>2, <2>3, <2>4, <2>5 DEF TypeOK
<1>2. TypeOK /\ [Next]_vars => TypeOK'
  <2> SUFFICES ASSUME TypeOK, [Next]_vars PROVE TypeOK'
    OBVIOUS
  <2>0. hasty' \in BOOLEAN /\ failed' \in BOOLEAN
    BY HistoryType
  <2>1. CASE Shell
    <3>1. CASE FirstStart
      BY <3>1 DEF FirstStart, TypeOK, IdlePhase
    <3>2. CASE FirstStartResumes
      BY <3>2, GiveStartEffect DEF FirstStartResumes, TypeOK
    <3>3. CASE Start
      BY <2>0, <3>3, GiveStartEffect DEF Start, TypeOK
    <3>4. CASE Stop
      BY <3>4 DEF Stop, TypeOK
    <3>5. QED
      BY <2>1, <3>1, <3>2, <3>3, <3>4 DEF Shell
  <2>2. CASE Environment
    BY ZenonT(60), <2>2 DEF Environment, CardArrives, CardLeaves, TypeOK
  <2>3. CASE UNCHANGED vars
    BY <2>3 DEF TypeOK
  <2> USE DEF SessionPhase, IdlePhase, ConnectPhase, LoopPhase,
              ReaderPhase, EndPhase
  <2>4. CASE Thread
    BY ZenonT(60), <2>0, <2>4 DEF Thread, SemTake, CheckFlag, ClearFlag, PrintStopped, TypeOK
  <2>5. CASE Connect \/ ConfigureSettings \/ ConfigureMode \/ FirstDiscovery
    <3>1. late' \in 0 .. LateBound
      BY <2>5, CallReturnsType DEF Connect, ConfigureSettings, ConfigureMode,
         FirstDiscovery
    <3>2. pc' \in SessionPhase
      BY <2>5 DEF Connect, ConfigureSettings, ConfigureMode, FirstDiscovery
    <3>3. wanted' \in BOOLEAN
      BY <2>5 DEF Connect, ConfigureSettings, ConfigureMode, FirstDiscovery, TypeOK
    <3>4. nfcc' \in {"idle", "discovering", "active"}
      BY <2>5 DEF Connect, ConfigureSettings, ConfigureMode, FirstDiscovery, TypeOK
    <3>5. UNCHANGED <<shared, shellVars, rf, card>>
      BY <2>5 DEF Connect, ConfigureSettings, ConfigureMode, FirstDiscovery
    <3>6. QED
      BY <2>0, <3>1, <3>2, <3>3, <3>4, <3>5 DEF TypeOK
  <2>6. CASE LoopTest \/ WaitTest \/ EndTest \/ FinalTest \/ ReaderLoopTest
             \/ ReaderTest \/ PresenceTest \/ RemovedTest
    BY <2>6 DEF LoopTest, WaitTest, EndTest, FinalTest, ReaderLoopTest,
       ReaderTest, PresenceTest, RemovedTest, Test, TypeOK
  <2>7. CASE FinalStop \/ RestartStop \/ RestartDiscovery \/ ReadCard \/ PresenceCheck
    <3>1. late' \in 0 .. LateBound
      BY <2>7, CallReturnsType DEF FinalStop, RestartStop, RestartDiscovery,
         ReadCard, PresenceCheck
    <3>2. QED
      BY <2>0, <2>7, <3>1 DEF FinalStop, RestartStop, RestartDiscovery, StopsOrNot,
         ReadCard, PresenceCheck, TypeOK
  <2>8. CASE WaitForDiscovery
    BY <2>0, <2>8, CallReturnsType DEF WaitForDiscovery, TypeOK
  <2>9. CASE Recheck
    BY <2>9 DEF Recheck, TypeOK
  <2>10. CASE ActivateNext
    <3>1. rf' \in RfInterface
      BY <2>10 DEF ActivateNext, TypeOK, RfInterface
    <3>2. QED
      BY <2>10, <3>1, CallReturnsType DEF ActivateNext, TypeOK
  <2>11. QED
    BY <2>1, <2>2, <2>3, <2>4, <2>5, <2>6, <2>7, <2>8, <2>9, <2>10
       DEF Next, Worker, Task, Reader
<1>3. QED
  BY <1>1, <1>2, PTL DEF Spec

-----------------------------------------------------------------------------
(* Before the first start there is no worker, and later no wake-up is lost.  *)
LEMMA WakeupInvariant == Spec => []WakeupInv
<1>1. Init => WakeupInv
  BY DEF Init, WakeupInv, NoLostWakeup
<1>2. TypeOK /\ WakeupInv /\ [Next]_vars => WakeupInv'
  <2> SUFFICES ASSUME TypeOK, WakeupInv, [Next]_vars PROVE WakeupInv'
    OBVIOUS
  <2> USE DEF WakeupInv, NoLostWakeup
  <2>1. CASE FirstStart
    BY <2>1 DEF FirstStart
  <2>2. CASE FirstStartResumes
    BY <2>2, GiveStartEffect DEF FirstStartResumes
  <2>3. CASE Start
    BY <2>3, GiveStartEffect DEF Start
  <2>4. CASE Stop
    BY <2>4 DEF Stop
  <2>5. CASE Thread
    BY <2>5 DEF Thread, SemTake, CheckFlag, ClearFlag, PrintStopped
  <2>6. CASE Task
    <3>1. /\ pc \in SessionPhase
          /\ pc' \notin {"unborn", "sem_take", "stopped"}
          /\ UNCHANGED <<nfc_run_flag, nfc_start_sem, thread_started, shell_pc>>
      BY <2>6 DEF Task, Connect, ConfigureSettings, ConfigureMode, FirstDiscovery,
         LoopTest, WaitTest, WaitForDiscovery, Recheck, EndTest, FinalTest,
         FinalStop, Test, SessionPhase, ConnectPhase, LoopPhase, EndPhase
    <3>2. QED
      BY <3>1 DEF SessionPhase, ConnectPhase, LoopPhase, ReaderPhase, EndPhase
  <2>7. CASE Reader
    <3>1. /\ pc \in ReaderPhase
          /\ pc' \notin {"unborn", "sem_take", "stopped"}
          /\ UNCHANGED <<nfc_run_flag, nfc_start_sem, thread_started, shell_pc>>
      BY <2>7 DEF Reader, ReaderLoopTest, ReadCard, ActivateNext, ReaderTest,
         PresenceTest, PresenceCheck, RemovedTest, RestartStop, RestartDiscovery,
         Test, ReaderPhase
    <3>2. QED
      BY <3>1 DEF ReaderPhase
  <2>8. CASE Environment
    BY <2>8 DEF Environment, CardArrives, CardLeaves
  <2>9. CASE UNCHANGED vars
    BY <2>9
  <2>10. QED
    BY <2>1, <2>2, <2>3, <2>4, <2>5, <2>6, <2>7, <2>8, <2>9 DEF Next, Shell, Worker
<1>3. QED
  BY <1>1, <1>2, TypeCorrect, PTL DEF Spec

(* The worker does not miss a start: whenever it is about to wait for the    *)
(* semaphore with the flag set, the semaphore has been given.                *)
THEOREM WakeupCorrect == Spec => []NoLostWakeup
<1>1. WakeupInv => NoLostWakeup
  BY DEF WakeupInv
<1>2. QED
  BY <1>1, WakeupInvariant, PTL

-----------------------------------------------------------------------------
(* A stop command is honoured after at most five library calls: each worker  *)
(* location has a budget of calls that can have finished since the flag went *)
(* false, and no step exceeds the budget of the location it leads to.        *)
THEOREM PromptCorrect == Spec => []StopIsPrompt
<1>1. Init => PromptInv
  BY DEF Init, PromptInv, Budget
<1>2. TypeOK /\ PromptInv /\ [Next]_vars => PromptInv'
  <2> SUFFICES ASSUME TypeOK, PromptInv, [Next]_vars PROVE PromptInv'
    OBVIOUS
  <2>0. Budget(pc) \in 0 .. 5 /\ Budget(pc') \in 0 .. 5 /\ Budget("sem_take") = 5
    BY DEF Budget
  <2> USE DEF PromptInv
  <2>1. CASE FirstStart
    <3>1. pc' = "sem_take" /\ UNCHANGED <<late, nfc_run_flag>>
      BY <2>1 DEF FirstStart
    <3>2. QED
      BY <3>1, <2>0 DEF TypeOK
  <2>2. CASE FirstStartResumes
    BY <2>2, <2>0, GiveStartEffect DEF FirstStartResumes
  <2>3. CASE Start
    BY <2>3, <2>0, GiveStartEffect DEF Start
  <2>4. CASE Stop
    BY <2>4 DEF Stop
  <2>5. CASE Thread
    BY <2>5 DEF Thread, SemTake, CheckFlag, ClearFlag, PrintStopped, Budget, TypeOK
  <2>6. CASE Task
    BY <2>6 DEF Task, Connect, ConfigureSettings, ConfigureMode, FirstDiscovery,
       LoopTest, WaitTest, WaitForDiscovery, Recheck, EndTest, FinalTest,
       FinalStop, Test, CallReturns, Budget, TypeOK
  <2>7. CASE Reader
    BY <2>7 DEF Reader, ReaderLoopTest, ReadCard, ActivateNext, ReaderTest,
       PresenceTest, PresenceCheck, RemovedTest, RestartStop, RestartDiscovery,
       Test, CallReturns, Budget, TypeOK
  <2>8. CASE Environment
    BY <2>8 DEF Environment, CardArrives, CardLeaves
  <2>9. CASE UNCHANGED vars
    BY <2>9
  <2>10. QED
    BY <2>1, <2>2, <2>3, <2>4, <2>5, <2>6, <2>7, <2>8, <2>9 DEF Next, Shell, Worker
<1>3. TypeOK /\ PromptInv => StopIsPrompt
  BY DEF PromptInv, StopIsPrompt, Budget, TypeOK
<1>4. QED
  BY <1>1, <1>2, <1>3, TypeCorrect, PTL DEF Spec

-----------------------------------------------------------------------------
(* A flag that is set means that a start was the last word, except between   *)
(* an error report and the clear that follows it.                            *)
FlagInv == nfc_run_flag /\ pc # "clear" => wanted

LEMMA FlagInductive ==
  ASSUME WakeupInv, FlagInv, [Next]_vars
  PROVE  FlagInv'
<1> USE DEF FlagInv
<1>1. CASE FirstStart
  BY <1>1 DEF FirstStart, WakeupInv
<1>2. CASE FirstStartResumes \/ Start \/ Stop
  BY <1>2 DEF FirstStartResumes, Start, Stop, GiveStart
<1>3. CASE Thread
  BY <1>3 DEF Thread, SemTake, CheckFlag, ClearFlag, PrintStopped
<1>4. CASE Task
  BY <1>4 DEF Task, Connect, ConfigureSettings, ConfigureMode, FirstDiscovery,
     LoopTest, WaitTest, WaitForDiscovery, Recheck, EndTest, FinalTest,
     FinalStop, Test
<1>5. CASE Reader
  BY <1>5 DEF Reader, ReaderLoopTest, ReadCard, ActivateNext, ReaderTest,
     PresenceTest, PresenceCheck, RemovedTest, RestartStop, RestartDiscovery, Test
<1>6. CASE Environment \/ UNCHANGED vars
  BY <1>6 DEF Environment, CardArrives, CardLeaves
<1>7. QED
  BY <1>1, <1>2, <1>3, <1>4, <1>5, <1>6 DEF Next, Shell, Worker

(* The steps of task_nfc and its reader stay inside the session: it goes on, *)
(* or it fails.  They reach the end of the task only with the flag false.    *)
LEMMA SessionStep ==
  ASSUME Task \/ Reader
  PROVE  /\ pc \in SessionPhase /\ pc' \in SessionPhase
         /\ UNCHANGED nfc_run_flag
         /\ \/ wanted' = FALSE /\ pc' = "clear"
            \/ /\ UNCHANGED wanted
               /\ pc \in EndPhase => pc' \in EndPhase
               /\ pc' \in EndPhase => pc \in EndPhase \/ ~nfc_run_flag
<1> USE DEF SessionPhase, ConnectPhase, LoopPhase, ReaderPhase, EndPhase
<1>1. CASE Connect \/ ConfigureSettings \/ ConfigureMode \/ FirstDiscovery
  BY <1>1 DEF Connect, ConfigureSettings, ConfigureMode, FirstDiscovery
<1>2. CASE LoopTest \/ WaitTest \/ WaitForDiscovery \/ Recheck \/ EndTest \/ FinalTest \/ FinalStop
  BY <1>2 DEF LoopTest, WaitTest, WaitForDiscovery, Recheck, EndTest, FinalTest, FinalStop, Test
<1>3. CASE Reader
  BY <1>3 DEF Reader, ReaderLoopTest, ReadCard, ActivateNext, ReaderTest,
     PresenceTest, PresenceCheck, RemovedTest, RestartStop, RestartDiscovery, Test
<1>4. QED
  BY <1>1, <1>2, <1>3 DEF Task

(* Every step of the session control is a step of the service or leaves its  *)
(* state alone.                                                              *)
LEMMA ServiceStep ==
  ASSUME WakeupInv, FlagInv, [Next]_vars
  PROVE  [Service!Next]_(Service!vars)
<1> USE DEF Service!Next, Service!vars
<1>1. CASE FirstStart
  BY <1>1 DEF FirstStart, WakeupInv, SessionPhase, ConnectPhase, LoopPhase, ReaderPhase, EndPhase
<1>2. CASE FirstStartResumes \/ Start
  <2>1. wanted' /\ nfc_run_flag' /\ UNCHANGED pc
    BY <1>2 DEF FirstStartResumes, Start, GiveStart
  <2>2. QED
    BY <2>1 DEF Service!Start, SessionPhase
<1>3. CASE Stop
  BY <1>3 DEF Stop, Service!Stop, SessionPhase
<1>4. CASE SemTake \/ PrintStopped
  BY <1>4 DEF SemTake, PrintStopped, SessionPhase, ConnectPhase, LoopPhase, ReaderPhase, EndPhase
<1>5. CASE CheckFlag
  BY <1>5 DEF CheckFlag, FlagInv, Service!Begin, SessionPhase, ConnectPhase, LoopPhase,
              ReaderPhase, EndPhase
<1>6. CASE ClearFlag
  BY <1>6 DEF ClearFlag, Service!End, SessionPhase, ConnectPhase, LoopPhase, ReaderPhase, EndPhase
<1>7. CASE Task \/ Reader
  <2>1. CASE wanted' = FALSE /\ pc' = "clear"
    BY <1>7, <2>1, SessionStep DEF Service!Fail, EndPhase
  <2>2. CASE ~(wanted' = FALSE /\ pc' = "clear")
    <3>1. UNCHANGED <<wanted, nfc_run_flag>> /\ pc \in SessionPhase /\ pc' \in SessionPhase
      BY <1>7, <2>2, SessionStep
    <3>2. (pc \in EndPhase \/ ~nfc_run_flag) <=> (pc' \in EndPhase \/ ~nfc_run_flag)
      BY <1>7, <2>2, SessionStep
    <3>3. QED
      BY <3>1, <3>2
  <2>3. QED
    BY <2>1, <2>2
<1>8. CASE Environment \/ UNCHANGED vars
  BY <1>8 DEF Environment, CardArrives, CardLeaves
<1>9. QED
  BY <1>1, <1>2, <1>3, <1>4, <1>5, <1>6, <1>7, <1>8 DEF Next, Shell, Worker, Thread

(* The threads, the semaphore and the flag implement the session service: a  *)
(* session begins only when the last command is a start, and ends only after *)
(* a stop command or an error.                                               *)
THEOREM ServiceImplemented == Spec => Service!Spec
<1>1. Init => Service!Init
  BY DEF Init, Service!Init, SessionPhase, ConnectPhase, LoopPhase, ReaderPhase, EndPhase
<1>2. Init => FlagInv
  BY DEF Init, FlagInv
<1>3. QED
  BY <1>1, <1>2, WakeupInvariant, FlagInductive, ServiceStep, PTL DEF Spec, Service!Spec
-----------------------------------------------------------------------------
(* The inductive strengthening of RadioFollows.  A worker that winds down    *)
(* is told to start only by a hasty operator, so that the flag, once false,  *)
(* stays false up to the clean-up; and while it is set each location of the  *)
(* loop knows what the controller does.                                      *)
BeforeStart ==
  ~thread_started \/ shell_pc = "started" => nfc_start_sem = 0 /\ pc \in {"unborn", "sem_take"}

LookingForCards == nfcc = "discovering" \/ (nfcc = "active" /\ ~rf.poll)

RadioKept ==
  /\ pc \in {"unborn", "sem_take", "check", "stopped", "clear"} => nfcc # "discovering"
  /\ pc \in {"settings", "mode", "discover"} => nfcc = "idle"
  /\ pc \in {"final", "final_stop"} => ~nfc_run_flag
  /\ nfc_run_flag /\ pc \in {"loop", "wait_test", "wait", "loop_end"} => LookingForCards
  /\ nfc_run_flag /\ pc = "recheck" => nfcc = "active"

RadioInv == BeforeStart /\ (Calm => RadioKept)

LEMMA RadioInductive ==
  ASSUME TypeOK, WakeupInv, RadioInv, [Next]_vars
  PROVE  RadioInv'
<1> USE DEF BeforeStart, Calm
<1>1. CASE FirstStart
  BY <1>1 DEF FirstStart, RadioInv, RadioKept, LookingForCards, WakeupInv
<1>2. CASE FirstStartResumes
  <2>1. pc \in {"unborn", "sem_take"} /\ pc' = pc /\ nfcc' = nfcc /\ shell_pc' = "ready"
    BY <1>2 DEF FirstStartResumes, RadioInv
  <2>2. thread_started' /\ UNCHANGED <<hasty, failed>>
    BY <1>2, <2>1 DEF FirstStartResumes, WakeupInv, RadioInv
  <2>3. QED
    BY <2>1, <2>2 DEF RadioInv, RadioKept
<1>3. CASE Start
  <2>1. /\ thread_started' /\ shell_pc' = "ready" /\ failed' = failed
        /\ UNCHANGED <<pc, nfcc, rf>> /\ hasty' = (hasty \/ WindsDown)
        /\ nfc_run_flag' = TRUE
    BY <1>3, GiveStartEffect DEF Start
  <2>2. CASE nfc_run_flag
    BY <2>1, <2>2 DEF RadioInv, RadioKept, LookingForCards, WindsDown, EndPhase
  <2>3. CASE ~nfc_run_flag
    BY <2>1, <2>3 DEF RadioInv, RadioKept, WindsDown, Parked, EndPhase
  <2>4. QED
    BY <2>2, <2>3
<1>4. CASE Stop
  BY <1>4 DEF Stop, RadioInv, RadioKept, LookingForCards
<1>5. CASE Thread
  BY <1>5 DEF Thread, SemTake, CheckFlag, ClearFlag, PrintStopped, RadioInv, RadioKept,
              LookingForCards
<1>6. CASE Task
  <2>1. CASE Connect \/ ConfigureSettings \/ ConfigureMode \/ FirstDiscovery
    BY <1>6, <2>1 DEF Connect, ConfigureSettings, ConfigureMode, FirstDiscovery, RadioInv,
                      RadioKept, LookingForCards
  <2>2. CASE LoopTest \/ WaitTest \/ Recheck \/ EndTest \/ FinalTest
    BY <2>2 DEF LoopTest, WaitTest, Recheck, EndTest, FinalTest, Test, RadioInv, RadioKept,
                LookingForCards
  <2>3. CASE WaitForDiscovery
    BY <2>3 DEF WaitForDiscovery, RadioInv, RadioKept, LookingForCards
  <2>4. CASE FinalStop
    BY <2>4 DEF FinalStop, StopsOrNot, RadioInv, RadioKept, LookingForCards
  <2>5. QED
    BY <1>6, <2>1, <2>2, <2>3, <2>4 DEF Task
<1>7. CASE Reader
  <2>1. CASE ReaderLoopTest \/ ReadCard \/ ReaderTest \/ PresenceTest \/ PresenceCheck
             \/ RemovedTest
    BY <2>1 DEF ReaderLoopTest, ReadCard, ReaderTest, PresenceTest, PresenceCheck,
                RemovedTest, Test, RadioInv, RadioKept, LookingForCards
  <2>2. CASE ActivateNext
    BY <2>2 DEF ActivateNext, RadioInv, RadioKept
  <2>3. CASE RestartStop \/ RestartDiscovery
    BY <2>3 DEF RestartStop, RestartDiscovery, StopsOrNot, RadioInv, RadioKept, LookingForCards
  <2>4. QED
    BY <1>7, <2>1, <2>2, <2>3 DEF Reader
<1>8. CASE Environment
  BY <1>8 DEF Environment, CardArrives, CardLeaves, RadioInv, RadioKept, LookingForCards
<1>9. CASE UNCHANGED vars
  BY <1>9 DEF RadioInv, RadioKept, LookingForCards
<1>10. QED
  BY <1>1, <1>2, <1>3, <1>4, <1>5, <1>6, <1>7, <1>8, <1>9 DEF Next, Shell, Worker

(* The radio follows the session: for an operator who is not hasty and as    *)
(* long as no call fails, a parked worker has left the controller quiet, and *)
(* a task that waits for a card has it looking for one.                      *)
THEOREM RadioCorrect == Spec => []RadioFollows
<1>1. Init => RadioInv
  BY DEF Init, RadioInv, BeforeStart, RadioKept
<1>2. RadioInv => RadioFollows
  BY DEF RadioInv, RadioKept, LookingForCards, RadioFollows, ParkedIsQuiet,
         WaitingIsDiscovering, Parked
<1>3. QED
  BY <1>1, <1>2, RadioInductive, TypeCorrect, WakeupInvariant, PTL DEF Spec

-----------------------------------------------------------------------------
(* PeripheralUart                                                            *)

(* The connection and its reference: taken and given back together.  What    *)
(* advertises has no connection yet, and needs the network core.             *)
ConnInv ==
  /\ current_conn <=> link \in {"up", "closing", "lost"}
  /\ IF current_conn THEN refs = 1 ELSE refs = 0
  /\ adv => link = "none" /\ core

(* Every location of the shell thread knows the semaphore and the flags.     *)
FlagsInv ==
  /\ core <=> spc # "core_on"
  /\ spc \in {"ready", "stop"} => (peripheral_initialized <=> peripheral_uart_sem = 0)
  /\ spc \in {"ready", "stop"} => (peripheral_initialized => bluetooth_enabled)
  /\ spc = "stop" => peripheral_uart_sem = 0
  /\ spc \in Starting => peripheral_uart_sem = 1 /\ ~peripheral_initialized
  /\ spc \in {"nus_init", "init_work", "submit"} => bluetooth_enabled
  /\ spc \in Starting \cup {"ready"} => ~peripheral_stopping
  /\ spc \in Stopping \ {"stop", "settle"} => bluetooth_enabled
  /\ spc \in Stopping => after = "ready"
  /\ spc # "clean_up"

(* What adv_work_handler and recycled_cb can still bring about is over.      *)
Quiet == ~adv /\ ~queued /\ handler = "idle"

(* The last part of peripheral_stop                                          *)
Silencing == {"core_on", "core_boots", "settle"}

(* A stop that goes on tells recycled_cb so; one that leaves nothing behind  *)
(* has no work under way from its last bt_le_adv_stop on, and has silenced   *)
(* the peripheral once the network core is off, if bt_le_adv_stop fails too. *)
SilenceInv ==
  /\ spc \in Stopping \ {"stop"} => peripheral_stopping
  /\ ~overrun /\ spc = "core_off" => ~queued /\ handler = "idle"
  /\ ~overrun /\ spc \in Silencing => Quiet
  /\ ~overrun /\ peripheral_uart_sem = 1 /\ spc \notin Stopping => Quiet /\ link = "none"

(* The type invariant in three parts, one for each actor.                    *)
ShellTypes ==
  /\ peripheral_uart_sem \in {0, 1}
  /\ peripheral_initialized \in BOOLEAN /\ bluetooth_enabled \in BOOLEAN
  /\ peripheral_stopping \in BOOLEAN
  /\ ble_init_ok \in {0, 1} /\ writer \in BOOLEAN
  /\ spc \in {"ready"} \cup Starting \cup Stopping
  /\ after \in {"ready", "clean_up"}

WorkTypes ==
  /\ queued \in BOOLEAN /\ handler \in {"idle", "starting", "sleeping"}
  /\ refused \in BOOLEAN /\ overrun \in BOOLEAN

LinkTypes ==
  /\ current_conn \in BOOLEAN /\ adv \in BOOLEAN /\ core \in BOOLEAN
  /\ link \in {"none", "up", "closing", "lost", "down"}

(* The inductive invariant of the peripheral.                                *)
PeripheralInv ==
  /\ ShellTypes /\ WorkTypes /\ LinkTypes
  /\ ConnInv /\ FlagsInv /\ SilenceInv

-----------------------------------------------------------------------------
USE DEF flags, connVars, nusVars, workVars, radio, ShellStep, ShellRuns
(* No step leaves the types of the shell thread and the NUS write thread.    *)
LEMMA ShellTypesKept ==
  ASSUME ShellTypes, [PeripheralNext]_peripheralVars
  PROVE  ShellTypes'
<1> USE DEF ShellTypes, Starting, Stopping
<1>1. CASE StartCmd \/ StopCmd
  BY <1>1 DEF StartCmd, StopCmd
<1>2. CASE PeripheralStart \/ Enable \/ NusInit \/ InitWork \/ Submit
  BY <1>2 DEF PeripheralStart, Enable, NusInit, InitWork, Submit
<1>3. CASE PeripheralStop \/ TestConn \/ Disconnect \/ AdvStop \/ AdvStopAgain
  BY <1>3 DEF PeripheralStop, TestConn, Disconnect, AdvStop, AdvStopAgain
<1>4. CASE CoreOff \/ CoreOn \/ CoreBoots \/ Settle
  BY <1>4 DEF CoreOff, CoreOn, CoreBoots, Settle
<1>5. CASE WorkRuns \/ AdvStarts \/ AdvBusy \/ AdvFails \/ Retry
  BY <1>5 DEF WorkRuns, AdvStarts, AdvBusy, AdvFails, Retry
<1>6. CASE Connected \/ ConnectFails \/ Disconnected \/ Recycled
  BY <1>6 DEF Connected, ConnectFails, Disconnected, Recycled
<1>7. CASE WriterStarts
  BY <1>7 DEF WriterStarts
<1>8. CASE UNCHANGED peripheralVars
  BY <1>8 DEF peripheralVars
<1>9. QED
  BY <1>1, <1>2, <1>3, <1>4, <1>5, <1>6, <1>7, <1>8
     DEF PeripheralNext, ShellGoesOn, WorkQueue, Stack

(* No step leaves the types of the advertising work and the two history flags.*)
LEMMA WorkTypesKept ==
  ASSUME WorkTypes, LinkTypes, [PeripheralNext]_peripheralVars
  PROVE  WorkTypes'
<1> USE DEF WorkTypes, LinkTypes, CanAdvertise
<1>1. CASE StartCmd \/ StopCmd
  BY <1>1 DEF StartCmd, StopCmd
<1>2. CASE PeripheralStart \/ Enable \/ NusInit \/ InitWork \/ Submit
  BY <1>2 DEF PeripheralStart, Enable, NusInit, InitWork, Submit
<1>3. CASE PeripheralStop \/ TestConn \/ Disconnect \/ AdvStop \/ AdvStopAgain
  BY <1>3 DEF PeripheralStop, TestConn, Disconnect, AdvStop, AdvStopAgain
<1>4. CASE CoreOff \/ CoreOn \/ CoreBoots \/ Settle
  BY <1>4 DEF CoreOff, CoreOn, CoreBoots, Settle
<1>5. CASE WorkRuns \/ AdvStarts \/ AdvBusy \/ AdvFails \/ Retry
  BY <1>5 DEF WorkRuns, AdvStarts, AdvBusy, AdvFails, Retry
<1>6. CASE Connected \/ ConnectFails \/ Disconnected \/ Recycled
  BY <1>6 DEF Connected, ConnectFails, Disconnected, Recycled
<1>7. CASE WriterStarts
  BY <1>7 DEF WriterStarts
<1>8. CASE UNCHANGED peripheralVars
  BY <1>8 DEF peripheralVars
<1>9. QED
  BY <1>1, <1>2, <1>3, <1>4, <1>5, <1>6, <1>7, <1>8
     DEF PeripheralNext, ShellGoesOn, WorkQueue, Stack

(* No step leaves the types of the connection and the radio.                 *)
LEMMA LinkTypesKept ==
  ASSUME LinkTypes, [PeripheralNext]_peripheralVars
  PROVE  LinkTypes'
<1> USE DEF LinkTypes
<1>1. CASE StartCmd \/ StopCmd
  BY <1>1 DEF StartCmd, StopCmd
<1>2. CASE PeripheralStart \/ Enable \/ NusInit \/ InitWork \/ Submit
  BY <1>2 DEF PeripheralStart, Enable, NusInit, InitWork, Submit
<1>3. CASE PeripheralStop \/ TestConn \/ Disconnect \/ AdvStop \/ AdvStopAgain
  BY <1>3 DEF PeripheralStop, TestConn, Disconnect, AdvStop, AdvStopAgain
<1>4. CASE CoreOff \/ CoreOn \/ CoreBoots \/ Settle
  BY <1>4 DEF CoreOff, CoreOn, CoreBoots, Settle
<1>5. CASE WorkRuns \/ AdvStarts \/ AdvBusy \/ AdvFails \/ Retry
  BY <1>5 DEF WorkRuns, AdvStarts, AdvBusy, AdvFails, Retry
<1>6. CASE Connected \/ ConnectFails \/ Disconnected \/ Recycled
  BY <1>6 DEF Connected, ConnectFails, Disconnected, Recycled
<1>7. CASE WriterStarts
  BY <1>7 DEF WriterStarts
<1>8. CASE UNCHANGED peripheralVars
  BY <1>8 DEF peripheralVars
<1>9. QED
  BY <1>1, <1>2, <1>3, <1>4, <1>5, <1>6, <1>7, <1>8
     DEF PeripheralNext, ShellGoesOn, WorkQueue, Stack

(* The callbacks take and release the one reference together with the link.  *)
LEMMA ConnKept ==
  ASSUME LinkTypes, ConnInv, [PeripheralNext]_peripheralVars
  PROVE  ConnInv'
<1> USE DEF LinkTypes, ConnInv, CanAdvertise
<1>1. CASE StartCmd \/ StopCmd
  BY <1>1 DEF StartCmd, StopCmd
<1>2. CASE PeripheralStart \/ Enable \/ NusInit \/ InitWork \/ Submit
  BY <1>2 DEF PeripheralStart, Enable, NusInit, InitWork, Submit
<1>3. CASE PeripheralStop \/ TestConn \/ Disconnect
  BY <1>3 DEF PeripheralStop, TestConn, Disconnect
<1>9. CASE AdvStop \/ AdvStopAgain
  <2>1. adv' => adv
    BY <1>9 DEF AdvStop, AdvStopAgain
  <2>2. UNCHANGED <<current_conn, refs, link, core>>
    BY <1>9 DEF AdvStop, AdvStopAgain
  <2>3. QED
    BY <2>1, <2>2
<1>4. CASE CoreOff \/ CoreOn \/ CoreBoots \/ Settle
  BY <1>4 DEF CoreOff, CoreOn, CoreBoots, Settle
<1>5. CASE WorkRuns \/ AdvStarts \/ AdvBusy \/ AdvFails \/ Retry
  BY <1>5 DEF WorkRuns, AdvStarts, AdvBusy, AdvFails, Retry
<1>6. CASE Connected \/ ConnectFails \/ Disconnected \/ Recycled
  BY <1>6 DEF Connected, ConnectFails, Disconnected, Recycled
<1>7. CASE WriterStarts
  BY <1>7 DEF WriterStarts
<1>8. CASE UNCHANGED peripheralVars
  BY <1>8 DEF peripheralVars
<1>10. QED
  BY <1>1, <1>2, <1>3, <1>4, <1>5, <1>6, <1>7, <1>8, <1>9
     DEF PeripheralNext, ShellGoesOn, WorkQueue, Stack

(* Every path through peripheral_start and peripheral_stop, failing calls    *)
(* included, leaves the semaphore and the flags in step.                     *)
LEMMA FlagsKept ==
  ASSUME ShellTypes, FlagsInv, [PeripheralNext]_peripheralVars
  PROVE  FlagsInv'
<1> USE DEF ShellTypes, FlagsInv, Starting, Stopping
<1>1. CASE StartCmd \/ StopCmd
  BY <1>1 DEF StartCmd, StopCmd
<1>2. CASE PeripheralStart \/ Enable \/ NusInit \/ InitWork \/ Submit
  BY <1>2 DEF PeripheralStart, Enable, NusInit, InitWork, Submit
<1>3. CASE PeripheralStop \/ TestConn \/ Disconnect \/ AdvStop \/ AdvStopAgain
  BY <1>3 DEF PeripheralStop, TestConn, Disconnect, AdvStop, AdvStopAgain
<1>4. CASE CoreOff \/ CoreOn \/ CoreBoots \/ Settle
  BY <1>4 DEF CoreOff, CoreOn, CoreBoots, Settle
<1>5. CASE WorkRuns \/ AdvStarts \/ AdvBusy \/ AdvFails \/ Retry
  BY <1>5 DEF WorkRuns, AdvStarts, AdvBusy, AdvFails, Retry
<1>6. CASE Connected \/ ConnectFails \/ Disconnected \/ Recycled
  BY <1>6 DEF Connected, ConnectFails, Disconnected, Recycled
<1>7. CASE WriterStarts
  BY <1>7 DEF WriterStarts
<1>8. CASE UNCHANGED peripheralVars
  BY <1>8 DEF peripheralVars
<1>9. QED
  BY <1>1, <1>2, <1>3, <1>4, <1>5, <1>6, <1>7, <1>8
     DEF PeripheralNext, ShellGoesOn, WorkQueue, Stack

(* While the shell thread stops the peripheral, and after it has, no work    *)
(* item and no callback that a clean stop left behind advertises.            *)
LEMMA SilenceKept ==
  ASSUME ShellTypes, FlagsInv, ConnInv, SilenceInv, [PeripheralNext]_peripheralVars
  PROVE  SilenceInv'
<1> USE
     DEF ShellTypes, FlagsInv, ConnInv, SilenceInv, Quiet, Silencing, Starting,
            Stopping, CanAdvertise
<1>1. CASE StartCmd \/ StopCmd
  BY <1>1 DEF StartCmd, StopCmd
<1>2. CASE PeripheralStart \/ Enable \/ NusInit \/ InitWork \/ Submit
  BY <1>2 DEF PeripheralStart, Enable, NusInit, InitWork, Submit
<1>3. CASE PeripheralStop \/ TestConn \/ Disconnect
  BY <1>3 DEF PeripheralStop, TestConn, Disconnect
<1>13. CASE AdvStop
  BY <1>13 DEF AdvStop
<1>14. CASE AdvStopAgain
  BY <1>14 DEF AdvStopAgain
<1>4. CASE CoreOff \/ CoreOn \/ CoreBoots \/ Settle
  BY <1>4 DEF CoreOff, CoreOn, CoreBoots, Settle
<1>5. CASE WorkRuns \/ AdvBusy \/ Retry
  BY <1>5 DEF WorkRuns, AdvBusy, Retry
<1>6. CASE AdvStarts \/ AdvFails
  BY <1>6 DEF AdvStarts, AdvFails
<1>7. CASE Connected \/ ConnectFails
  BY <1>7 DEF Connected, ConnectFails
<1>8. CASE Disconnected
  BY <1>8 DEF Disconnected
<1>9. CASE Recycled
  BY <1>9 DEF Recycled
<1>10. CASE WriterStarts
  BY <1>10 DEF WriterStarts
<1>11. CASE UNCHANGED peripheralVars
  BY <1>11 DEF peripheralVars
<1>15. QED
  BY <1>1, <1>2, <1>3, <1>4, <1>5, <1>6, <1>7, <1>8, <1>9, <1>10, <1>11, <1>13, <1>14
     DEF PeripheralNext, ShellGoesOn, WorkQueue, Stack

(* The invariant holds from the first state on.                              *)
LEMMA PeripheralInvariant == PeripheralSpec => []PeripheralInv
<1>1. PeripheralInit => PeripheralInv
  <2> SUFFICES ASSUME PeripheralInit PROVE PeripheralInv
    OBVIOUS
  <2> USE DEF PeripheralInit
  <2>1. ShellTypes /\ WorkTypes /\ LinkTypes
    BY DEF ShellTypes, WorkTypes, LinkTypes
  <2>2. ConnInv
    BY DEF ConnInv
  <2>3. FlagsInv
    BY DEF FlagsInv, Starting, Stopping
  <2>4. SilenceInv
    BY DEF SilenceInv, Quiet, Silencing, Stopping
  <2>5. QED
    BY <2>1, <2>2, <2>3, <2>4 DEF PeripheralInv
<1>2. PeripheralInv /\ [PeripheralNext]_peripheralVars => PeripheralInv'
  BY ShellTypesKept, WorkTypesKept, LinkTypesKept, ConnKept, FlagsKept, SilenceKept
     DEF PeripheralInv
<1>3. QED
  BY <1>1, <1>2, PTL DEF PeripheralSpec

(* Whatever fails and whenever the stack reports, the semaphore the shell    *)
(* commands test tells whether the peripheral is up; peripheral_start never  *)
(* finds it initialised, so that its clean-up branch is dead code.           *)
THEOREM SemaphoreCorrect == PeripheralSpec => []SemaphoreTells
<1>1. PeripheralInv => PeripheralTypeOK
  BY DEF PeripheralInv, ShellTypes, WorkTypes, LinkTypes, ConnInv, PeripheralTypeOK
<1>2. PeripheralInv => SemaphoreTells
  BY <1>1 DEF PeripheralInv, FlagsInv, SemaphoreTells
<1>3. QED
  BY <1>2, PeripheralInvariant, PTL

(* After a stop that went on over no pending retry and no disconnection, the *)
(* peripheral neither advertises nor is connected until the next start.      *)
THEOREM SilenceCorrect == PeripheralSpec => []StoppedIsSilent
<1>1. PeripheralInv => StoppedIsSilent
  BY DEF PeripheralInv, SilenceInv, Quiet, StoppedIsSilent, Stopped, Stopping
<1>2. QED
  BY <1>1, PeripheralInvariant, PTL

(* peripheral_start initialises the work item only while it is not in use,   *)
(* if no stop has left a retry behind.                                       *)
THEOREM WorkCorrect == PeripheralSpec => WorkIntact
<1>1. PeripheralInv /\ InitWork /\ ~overrun => ~queued /\ handler = "idle"
  BY DEF PeripheralInv, InitWork, FlagsInv, SilenceInv, Quiet, Starting, Stopping
<1>2. PeripheralInv => [InitWork /\ ~overrun => ~queued /\ handler = "idle"]_peripheralVars
  BY <1>1
<1>3. QED
  BY <1>2, PeripheralInvariant, PTL DEF WorkIntact
=============================================================================
