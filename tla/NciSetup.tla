------------------------------- MODULE NciSetup -------------------------------
(***************************************************************************)
(* NxpNci_Connect, NxpNci_ConfigureSettings and NxpNci_ConfigureMode        *)
(* (NxpNci20.c) over tml.c, against the controller and its memory, through  *)
(* any number of sessions, power losses and new builds.                     *)
(*                                                                          *)
(* Each command of the set-up is sent by NxpNci_HostTransceive, whose       *)
(* result nobody looks at: when the SPI write is refused or no answer comes *)
(* in time, the test that follows is made on what the buffer Answer held    *)
(* before.  Commands of one kind (CORE_SET_CONFIG) have equal answers.      *)
(*                                                                          *)
(* A packet that the host does not wait for long enough stays in the        *)
(* controller's queue: "late" and "lost in the queue" are the same step.    *)
(***************************************************************************)
EXTENDS Naturals, Sequences

CONSTANT Modes  \* the modes an application may configure, as sets of flags

ASSUME SetupAssumption == Modes \subseteq SUBSET {"cardemu", "p2p", "rw"} /\ Modes # {}

VARIABLES
  pc,           \* the command or receive to come, "off", "ready" or "failed"
  mode,         \* the argument of NxpNci_ConfigureMode
  tries,        \* the counter i of NxpNci_Connect
  answer,       \* the buffer Answer of the current function
  rf_restored,  \* gRfSettingsRestored_flag
  awake,        \* controller: CORE_INIT has been accepted since the last reset
  ram,          \* controller: commands in effect that a reset of the configuration undoes
  nvm,          \* controller: settings of this build that its memory holds
  stamp,        \* controller: its memory holds the time stamp of this build
  notice,       \* controller: a recovery of its RF settings is still to be reported
  out,          \* controller: packets waiting to be read
  calm,         \* environment: from now on nothing fails
  unsent,       \* history: a command of this set-up was not taken over SPI
  blind,        \* history: the settings went on without an answer
  told,         \* history: a recovery was reported in this set-up
  forgotten     \* history: a set-up that was told of a recovery has failed

hostVars == <<pc, mode, tries, answer, rf_restored>>
ctlVars  == <<awake, ram, nvm, stamp, notice, out>>
histVars == <<unsent, blind, told, forgotten>>
vars     == <<hostVars, ctlVars, calm, histVars>>

(* The settings that survive a power loss, in the order they are sent, and   *)
(* those that a reset with "keep configuration" keeps.                       *)
Persistent == {"extn", "clk", "tvdd", "rf"}
Kept       == {"standby", "core"}
ModeSteps  == <<"prop_act", "map", "routing", "sel_rsp", "llcp">>
Volatile   == Kept \cup {ModeSteps[i] : i \in DOMAIN ModeSteps}
SetConfig  == {"core", "write_ts", "sel_rsp", "llcp"} \cup Persistent
Commands   == {"init", "standby", "read_ts", "reset2", "init2", "prop_act", "map", "routing"}
                \cup SetConfig

(* What the code can tell apart in an answer: response or notification, the  *)
(* opcode, whether all status bytes are 0, the time stamp in an answer to    *)
(* the reading of it.                                                        *)
Packet(ntf, op, ok, ts) == [ntf |-> ntf, op |-> op, ok |-> ok, ts |-> ts]

Opcode(p) ==
  CASE p \in SetConfig -> "set"
    [] p = "init2" -> "init"
    [] p = "reset2" -> "reset"
    [] OTHER -> p

Response(p, ok) == Packet(FALSE, Opcode(p), ok, p = "read_ts" /\ stamp)
ResetNtf  == Packet(TRUE, "reset", TRUE, FALSE)
Recovered == Packet(TRUE, "error_e6", TRUE, FALSE)
Nothing   == Packet(TRUE, "none", FALSE, FALSE)

Init ==
  /\ pc = "off" /\ mode \in Modes /\ tries = 2
  /\ answer = Nothing /\ rf_restored = FALSE
  /\ awake = FALSE /\ ram = {} /\ nvm = {} /\ stamp = FALSE
  /\ notice = FALSE /\ out = <<>>
  /\ calm = FALSE
  /\ unsent = FALSE /\ blind = FALSE /\ told = FALSE /\ forgotten = FALSE

-----------------------------------------------------------------------------
(* The controller *)

(* CORE_RESET: a response and a notification; a recovery is reported once.   *)
OnReset(keep) ==
  /\ awake' = FALSE
  /\ ram' = ram \cap keep
  /\ notice' = FALSE
  /\ told' = (told \/ notice)
  /\ UNCHANGED <<nvm, stamp>>

ResetReply ==
  <<Packet(FALSE, "reset", TRUE, FALSE), IF notice THEN Recovered ELSE ResetNtf>>

(* Any other command takes effect if it is accepted; before CORE_INIT all    *)
(* but it are refused.                                                       *)
OnCommand(p, ok) ==
  /\ LET valid == awake \/ Opcode(p) = "init" IN ok \in IF calm THEN {valid} ELSE {FALSE, valid}
  /\ awake' = (awake \/ (ok /\ Opcode(p) = "init"))
  /\ ram' = IF ok /\ p \in Volatile THEN ram \cup {p} ELSE ram
  /\ nvm' = IF ok /\ p \in Persistent THEN nvm \cup {p} ELSE nvm
  /\ stamp' = (stamp \/ (ok /\ p = "write_ts"))
  /\ UNCHANGED <<notice, told>>

-----------------------------------------------------------------------------
(* tml.c *)

(* tml_Receive within its time-out takes the oldest packet of a queue, or    *)
(* none (heard = FALSE), and leaves the buffer as it was then.  (A read that *)
(* fails between the header and the payload, tml.c:141, would leave the new  *)
(* header in front of the old payload; that is not modelled.)                *)
Receive(queue, heard, old) ==
  IF heard
  THEN queue # <<>> /\ answer' = Head(queue) /\ out' = Tail(queue)
  ELSE (queue = <<>> \/ ~calm) /\ answer' = old /\ out' = queue

-----------------------------------------------------------------------------
(* NxpNci_Connect *)

(* tml_Connect: the reset line.  The loop counter starts at 2.               *)
Begin ==
  /\ pc \in {"off", "ready", "failed"}
  /\ pc' = "reset"
  /\ mode' \in Modes
  /\ tries' = 2
  /\ answer' = Nothing
  /\ awake' = FALSE /\ ram' = {} /\ out' = <<>>
  /\ unsent' = FALSE /\ told' = FALSE
  /\ UNCHANGED <<rf_restored, nvm, stamp, notice, calm, blind, forgotten>>

(* The set-up returns NXPNCI_ERROR.                                          *)
Fails ==
  /\ pc' = "failed"
  /\ forgotten' = (forgotten \/ (told' /\ "rf" \notin nvm'))

(* if (i-- == 0) return NXPNCI_ERROR;                                        *)
Retry ==
  \/ tries > 0 /\ pc' = "reset" /\ tries' = tries - 1 /\ UNCHANGED forgotten
  \/ tries = 0 /\ Fails /\ UNCHANGED tries

(* NxpNci_CheckDevPres up to the first receive, which looks at the opcode    *)
(* only.  The restore flag is cleared whatever happens.                      *)
CheckDevPres ==
  /\ pc = "reset"
  /\ rf_restored' = FALSE
  /\ \/ /\ ~calm                       \* NbBytes != sizeof(NCICoreReset)
        /\ answer' = Nothing
        /\ UNCHANGED <<ctlVars, told>>
        /\ Retry
     \/ /\ OnReset({})
        /\ \E heard \in BOOLEAN : Receive(out \o ResetReply, heard, Nothing)
        /\ IF answer'.op = "reset" /\ ~answer'.ntf
           THEN pc' = "ntf" /\ UNCHANGED <<tries, forgotten>>
           ELSE Retry
  /\ UNCHANGED <<mode, calm, unsent, blind>>

(* Mutant of CatchNtf: the notification is not waited for.                   *)
CatchNtf_Skipped ==
  /\ pc = "ntf"
  /\ pc' = "init"
  /\ UNCHANGED <<mode, tries, answer, rf_restored, ctlVars, calm, histVars>>

(* "Catch potential notifications"                                           *)
CatchNtf ==
  /\ pc = "ntf"
  /\ \E heard \in BOOLEAN : Receive(out, heard, Nothing)
  /\ UNCHANGED <<mode, awake, ram, nvm, stamp, notice, calm, unsent, blind, told>>
  /\ rf_restored' = (answer' = Recovered)
  /\ IF answer' \in {Nothing, Recovered, ResetNtf}
     THEN pc' = "init" /\ UNCHANGED <<tries, forgotten>>
     ELSE Retry

-----------------------------------------------------------------------------
(* The commands sent through NxpNci_HostTransceive *)

(* Which commands of NxpNci_ConfigureMode the mode calls for.                *)
Applies(p) ==
  CASE p = "prop_act" -> mode = {"rw"}
    [] p = "map" -> mode # {}
    [] p \in {"routing", "sel_rsp"} -> mode \cap {"cardemu", "p2p"} # {}
    [] p = "llcp" -> "p2p" \in mode

(* The first command of NxpNci_ConfigureMode beyond the n-th.                *)
ModeStep(n) ==
  LET rest == {i \in n + 1 .. Len(ModeSteps) : Applies(ModeSteps[i])}
  IN  IF rest = {} THEN "ready" ELSE ModeSteps[CHOOSE i \in rest : \A j \in rest : i <= j]

(* Mutants of After: the time stamp is written before the RF settings, and   *)
(* the restore flag is not looked at.                                        *)
After_StampFirst(p) ==
  CASE p = "init" -> "standby"
    [] p = "standby" -> "core"
    [] p = "core" -> "read_ts"
    [] p = "read_ts" -> IF answer'.ts /\ ~rf_restored THEN "reset2" ELSE "extn"
    [] p = "extn" -> "clk"
    [] p = "clk" -> "tvdd"
    [] p = "tvdd" -> "write_ts"
    [] p = "write_ts" -> "rf"
    [] p = "rf" -> "reset2"
    [] p = "reset2" -> "ntf2"
    [] p = "init2" -> ModeStep(0)
    [] OTHER -> ModeStep(CHOOSE n \in DOMAIN ModeSteps : ModeSteps[n] = p)

After_NoFlag(p) ==
  CASE p = "init" -> "standby"
    [] p = "standby" -> "core"
    [] p = "core" -> "read_ts"
    [] p = "read_ts" -> IF answer'.ts THEN "reset2" ELSE "extn"
    [] p = "extn" -> "clk"
    [] p = "clk" -> "tvdd"
    [] p = "tvdd" -> "rf"
    [] p = "rf" -> "write_ts"
    [] p = "write_ts" -> "reset2"
    [] p = "reset2" -> "ntf2"
    [] p = "init2" -> ModeStep(0)
    [] OTHER -> ModeStep(CHOOSE n \in DOMAIN ModeSteps : ModeSteps[n] = p)

(* The statement after the test of p's answer.  The settings are sent if the *)
(* time stamp is not the one of this build or the restore flag is set; the   *)
(* second reset always follows, NXP_CORE_STANDBY being defined.              *)
After(p) ==
  CASE p = "init" -> "standby"
    [] p = "standby" -> "core"
    [] p = "core" -> "read_ts"
    [] p = "read_ts" -> IF answer'.ts /\ ~rf_restored THEN "reset2" ELSE "extn"
    [] p = "extn" -> "clk"
    [] p = "clk" -> "tvdd"
    [] p = "tvdd" -> "rf"
    [] p = "rf" -> "write_ts"
    [] p = "write_ts" -> "reset2"
    [] p = "reset2" -> "ntf2"
    [] p = "init2" -> ModeStep(0)
    [] OTHER -> ModeStep(CHOOSE n \in DOMAIN ModeSteps : ModeSteps[n] = p)

(* Mutant of Accepted: the status is not compared.                           *)
Accepted_AnyStatus(p) == ~answer'.ntf /\ answer'.op = Opcode(p)

(* The tests of Answer[0], [1], [3] and [4] after the transceive of p.       *)
Accepted(p) == ~answer'.ntf /\ answer'.op = Opcode(p) /\ answer'.ok

(* The first transceive of each function finds an uninitialised Answer, a    *)
(* place of the stack where earlier answers have been.                       *)
Before(p) ==
  IF p \in {"init", "standby", ModeStep(0)}
  THEN {Nothing, Packet(FALSE, Opcode(p), TRUE, FALSE)}
  ELSE {answer}

(* tml_Send of p: refused by the controller, or carried out and replied to.  *)
Refused ==
  /\ ~calm
  /\ unsent' = TRUE
  /\ UNCHANGED <<awake, ram, nvm, stamp, notice, told>>

(* NxpNci_HostTransceive of p.                                               *)
HostTransceive(p, heard, old) ==
  \/ Refused /\ ~heard /\ answer' = old /\ UNCHANGED out
  \/ /\ p = "reset2"
     /\ OnReset(Kept)
     /\ Receive(out \o ResetReply, heard, old)
     /\ UNCHANGED unsent
  \/ /\ p # "reset2"
     /\ \E ok \in BOOLEAN :
          /\ OnCommand(p, ok)
          /\ Receive(Append(out, Response(p, ok)), heard, old)
     /\ UNCHANGED unsent

(* One command of the set-up, whose answer is tested.                        *)
Transceive(p) ==
  \E heard \in BOOLEAN, old \in Before(p) :
    /\ pc = p
    /\ HostTransceive(p, heard, old)
    /\ IF Accepted(p)
       THEN pc' = After(p) /\ forgotten' = (forgotten /\ "rf" \notin nvm')
       ELSE Fails
    /\ blind' = (~(Persistent \subseteq nvm') /\ (blind \/ (p \in Persistent /\ ~heard /\ pc' # "failed")))
    /\ UNCHANGED <<mode, tries, rf_restored, calm>>

(* "Catch NTF": whatever comes within 100 ms, or nothing.                    *)
CatchSecondNtf ==
  /\ pc = "ntf2"
  /\ \E heard \in BOOLEAN : Receive(out, heard, answer)
  /\ pc' = "init2"
  /\ UNCHANGED <<mode, tries, rf_restored, awake, ram, nvm, stamp, notice, calm, histVars>>

-----------------------------------------------------------------------------
(* The environment *)

(* Board and controller lose their power.  If the controller is writing its  *)
(* memory it may find the RF settings torn and restore their defaults; the    *)
(* time stamp that was on its way may have been stored.                      *)
PowerLoss ==
  /\ ~calm
  /\ pc # "off"
  /\ pc' = "off"
  /\ answer' = Nothing /\ rf_restored' = FALSE /\ tries' = 2
  /\ awake' = FALSE /\ ram' = {} /\ out' = <<>>
  /\ \/ UNCHANGED <<nvm, notice>>
     \/ /\ pc \in Persistent \cup {"write_ts"}
        /\ nvm' = nvm \ {"rf"}
        /\ notice' = TRUE
  /\ \/ UNCHANGED stamp
     \/ pc = "write_ts" /\ stamp' = TRUE
  /\ forgotten' = (forgotten \/ (told /\ "rf" \notin nvm))
  /\ unsent' = FALSE /\ told' = FALSE
  /\ UNCHANGED <<mode, calm, blind>>

(* The board is flashed with a new build, with settings and a time stamp of  *)
(* its own.                                                                  *)
NewBuild ==
  /\ ~calm
  /\ pc = "off"
  /\ nvm' = {} /\ stamp' = FALSE
  /\ blind' = FALSE /\ forgotten' = FALSE
  /\ UNCHANGED <<hostVars, awake, ram, notice, out, calm, unsent, told>>

CalmsDown ==
  /\ ~calm
  /\ calm' = TRUE
  /\ UNCHANGED <<hostVars, ctlVars, histVars>>

-----------------------------------------------------------------------------
Connect == Begin \/ CheckDevPres \/ CatchNtf

Setup == Connect \/ (\E p \in Commands : Transceive(p)) \/ CatchSecondNtf

Next == Setup \/ PowerLoss \/ NewBuild \/ CalmsDown

Spec == Init /\ [][Next]_vars

(* Every wait has a time-out, and the operator starts the next session.      *)
FairSpec == Spec /\ WF_vars(Setup)

-----------------------------------------------------------------------------
(* Properties *)

Packets ==
  [ntf : BOOLEAN, op : {Opcode(p) : p \in Commands} \cup {"error_e6", "none"},
   ok : BOOLEAN, ts : BOOLEAN]

TypeOK ==
  /\ pc \in Commands \cup {"off", "reset", "ntf", "ntf2", "ready", "failed"}
  /\ mode \in Modes
  /\ tries \in 0 .. 2
  /\ answer \in Packets
  /\ out \in Seq(Packets)
  /\ ram \subseteq Volatile /\ nvm \subseteq Persistent
  /\ rf_restored \in BOOLEAN /\ awake \in BOOLEAN /\ stamp \in BOOLEAN /\ notice \in BOOLEAN
  /\ calm \in BOOLEAN
  /\ unsent \in BOOLEAN /\ blind \in BOOLEAN /\ told \in BOOLEAN /\ forgotten \in BOOLEAN

(* The time stamp in the controller tells the truth across power losses: it  *)
(* is the one of this build only if the settings of this build have been     *)
(* accepted (save those whose answer the host went on without), and if the   *)
(* RF settings have been torn since, that is still to be reported, or has    *)
(* been reported.                                                            *)
TimestampTells ==
  stamp /\ ~blind =>
    /\ Persistent \ {"rf"} \subseteq nvm
    /\ "rf" \in nvm \/ notice \/ told \/ forgotten

(* What a finished set-up needs of the controller's volatile state.          *)
Needed == Kept \cup {ModeSteps[i] : i \in {j \in DOMAIN ModeSteps : Applies(ModeSteps[j])}}

(* A set-up that reports success has set the controller up: after its last   *)
(* reset it was initialised, and every command of the mode took effect,      *)
(* whichever answers were late or refused, as long as SPI took the commands. *)
(* The exception are the LLCP parameters: the command before theirs is a     *)
(* CORE_SET_CONFIG too, so when their answer is late its answer passes.      *)
ReadyIsReady == pc = "ready" /\ ~unsent => awake /\ Needed \subseteq ram \cup {"llcp"}

(* A set-up that reports success leaves no packet behind, so that the answer *)
(* to the next command is its own: late responses of the three attempts of   *)
(* NxpNci_Connect and late notifications are found out.  P2P modes are left  *)
(* out for the reason given above.                                           *)
InStep == pc = "ready" /\ "p2p" \notin mode => out = <<>>

(* A set-up that reports success is a sound one: ready and in step.          *)
SuccessIsSound == TypeOK /\ ReadyIsReady /\ InStep

(* A set-up that reports success has brought back the RF settings after a    *)
(* recovery, unless it was reported to a set-up that failed: the controller  *)
(* reports it once and every attempt clears gRfSettingsRestored_flag.        *)
RestoredIsReapplied == pc = "ready" /\ ~blind /\ ~forgotten => nvm = Persistent

(* Nfc_settings.h: "Following definitions specifies which settings will      *)
(* apply when NxpNci_ConfigureSettings() API is called": after a set-up that *)
(* reports success all of them are in the controller.                        *)
SettingsApply == pc = "ready" => nvm = Persistent

(* No failure lasts: whatever went wrong before, once nothing fails any more *)
(* a set-up succeeds.                                                        *)
Recovers == calm ~> pc = "ready"
=============================================================================
