---------------------------- MODULE SessionService ----------------------------
(***************************************************************************)
(* What "pn7160_test start | stop" promises, without threads, semaphore and *)
(* controller: sessions that begin on request and end when they are told.   *)
(***************************************************************************)

VARIABLES
  request,  \* the operator's last command, or "stop" after an error report
  session,  \* "off" or "on"
  told      \* the session has been told to end

vars == <<request, session, told>>

Init == request = "stop" /\ session = "off" /\ told = FALSE

(* A start command that comes before the stop has been noticed revives the   *)
(* session.                                                                  *)
Start ==
  /\ request' = "start"
  /\ told' \in {told, FALSE}
  /\ UNCHANGED session

Stop ==
  /\ request' = "stop"
  /\ told' = (session = "on")
  /\ UNCHANGED session

Begin ==
  /\ session = "off" /\ request = "start"
  /\ session' = "on"
  /\ UNCHANGED <<request, told>>

(* An error ends the session and the request for it.                         *)
Fail ==
  /\ session = "on"
  /\ request' = "stop" /\ told' = TRUE
  /\ UNCHANGED session

End ==
  /\ session = "on" /\ told
  /\ session' = "off" /\ told' = FALSE
  /\ UNCHANGED request

Next == Start \/ Stop \/ Begin \/ Fail \/ End

Spec == Init /\ [][Next]_vars

(* A session that has been told to end does so.                              *)
FairSpec == Spec /\ WF_vars(End)
=============================================================================
