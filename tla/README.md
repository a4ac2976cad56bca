# Verification of the nRF5340 DK / PN7160 demo application

TLA+ models, TLC configurations and TLAPS proofs for the application core of
this repository: an NFC reader built on NXP's NCI library, a Bluetooth LE UART
and a shell bridge to the network core, all driven from one Zephyr shell.
Paths below are relative to the root of the repository.

## 1. Inventory

The build defines `RW_SUPPORT` and `NCI_DEBUG` only, so the application is a
reader/writer without NDEF writing; the NXP library is nevertheless compiled
with its card-emulation and P2P code.  All threads run on one core.  The shell
has priority 0, the remote-shell worker 1, the NFC worker 5, so the shell
preempts both workers between any two of their instructions and never the other
way round.

| component | source | state | operations | talks to |
|---|---|---|---|---|
| NFC session control | `src/cmd/cmd.c`, `src/pn7160/nfc_thread.c`, `src/pn7160/nfc_task.c` | `nfc_run_flag`, `nfc_start_sem`, `thread_started`, where the task is, `RfInterface` | `pn7160_test start/stop`, worker loop, `task_nfc`, `task_nfc_reader` | NCI library (calls), shell (flag, semaphore) |
| Remote-shell bridge | `src/cmd/cmd.c`, `src/remote_shell/start.c`, `src/remote_shell/shell_ipc_host.c` | `remote_shell_running`, `bridge_active`, `stop_requested`, `bridge_esc_state`, ring buffer, semaphore, IPC endpoint and its callback | `remote_shell start/stop`, bypass callback, bridge loop, bound/unbound/received callbacks | UART shell (bypass), IPC service |
| Controller configuration | `NxpNci20.c`, `Nfc_settings.h` | `gRfSettingsRestored_flag`, the answer buffer; the controller's volatile settings, its memory, the time stamp in it | connect with three attempts, settings, mode | PN7160 over SPI |
| NCI link | `NxpNci20.c`, `TML/src/tml.c` | packets in flight, the answer buffer, discovery state of the controller | start/stop discovery, wait for a discovery, activate next, exchanges with chained answers, presence check | PN7160 over SPI |
| NDEF readers and writers | `NdefLibrary/src/RW_NDEF*.c` | per tag type: state, block or offset, message pointer and size | one `Read_Next`/`Write_Next` step per answer of the tag | NCI link (commands), pull/push callbacks |
| NDEF records | `ndef_helper.c`, `NdefPull_Cb` in `nfc_task.c` | record pointer, index of a field | split a message into records, parse a Wi-Fi token | readers |
| T4T card emulation | `T4T_NDEF_emu.c`, `NxpNci_ProcessCardMode` | selection state, message and its size | one response per APDU | NCI link |
| P2P / SNEP | `P2P_NDEF.c`, `NxpNci_ProcessP2pMode` | SNEP client state, frame numbers, fragments sent and received | one PDU per PDU received | NCI link |
| BLE UART peripheral | `src/peripheral_uart/peripheral_uart.c` | `peripheral_uart_sem`, `peripheral_initialized`, `bluetooth_enabled`, `peripheral_stopping`, `current_conn`, advertising work | `peripheral_uart_test start/stop`, advertising work, connected, disconnected, recycled, NUS write thread | Bluetooth stack, network core reset |
| Factory test | `NxpNci20.c` | none | two commands, no caller | - |
| Card information display | `nfc_task.c` | none | prints | - |
| BLE security callbacks | `peripheral_uart.c` | compiled out | - | - |
| Boot | `src/main.c` | none | lowers the shell thread's priority and sleeps | - |

Behaviours that are hard to test: the two threads of a session racing on a plain
bool; a second command arriving before a worker has seen the first; callbacks of
the IPC service and of the Bluetooth stack that run in their own threads;
notifications of the controller that arrive when an answer is expected, and
answers that arrive after the wait for them; power lost while the controller
writes its memory; tags, readers and peers that leave in the middle; sizes that
meet a block boundary or the width of a byte exactly.

What makes each part correct:

* session control: no wake-up is lost, every start leads to a session and every
  stop ends it, promptly and with the radio off;
* bridge: a stop ends the bridge, the bytes typed reach the network core in
  order and without the escape sequence, one worker at a time;
* controller configuration: a set-up that reports success has set the
  controller up, the time stamp tells whether its memory holds the settings of
  this build, failures do not last;
* NCI link: answers belong to the commands, the task never waits for a discovery
  that is not running, every call terminates;
* tag engines: the bytes delivered are the bytes of the tag, only data blocks
  are touched, a write is all or nothing, every operation ends;
* NDEF records: what is printed are the records of the message, nothing behind
  them is touched, the callback returns;
* card emulation: the reader sees a file, after selecting it; the application is
  told when the message has been read;
* P2P: what is acknowledged has been handed over, what is pushed can be put
  together, transfers end and a lost link is given up;
* peripheral: the semaphore tells whether the peripheral is enabled, nothing
  advertises after a stop, connections are not leaked.

## 2. Plan

The order puts what runs on the board first.

| step | modules | abstract specification | theorems | status |
|---|---|---|---|---|
| 1 | `NfcSession` | `SessionService` | types, `NoLostWakeup`, `StopIsPrompt`, `RadioFollows`, the safety part of the refinement | done |
| 2 | `RemoteShell` | the byte stream as the typed bytes less escape sequences (`Forwarded`) | types, `ConsoleOwned`, `OneWorker`, `ByteStream` | done |
| 3 | `NciLink` | - | `TagsHanded`, `WaitingIsHeard`, `ChainIsFed`, `PresenceSound` | done |
| 4 | `RwNdef`, `RwNdefTlv`, `RwNdefMifare`, `RwNdefT4T`, composed by `TagIo` | the tag's content | `SectorsRespected`, `T4TAllOrNothing`, `ReadableIsExact`, `ReadableIsReported`, `InBounds` | done |
| 5 | `PeripheralUart` | - | `SemaphoreTells`, `StoppedIsSilent`, `WorkIntact` | done |
| 6 | `NciSetup` | the controller's memory | types, `TimestampTells`, `RestoredIsReapplied`, `SuccessIsSound` | done |
| 7 | `NdefRecords` | the layout of NDEF | `PrintedRight`, `StaysInside` | done |
| 8 | `CardEmu` | the file as its writes leave it | `EmulatesFile`, `PushTells`, `SelectedFirst` | done |
| 9 | `P2PSnep` | the peer's view of both transfers | `SuccessMeansAll`, `PushSound` | done |

Composition.  `TagIo` composes the engines with the loop that drives them and the
tag.  `NciLink` takes the place of the library calls of `NfcSession`, which are
there actions with their possible outcomes; `NciSetup` that of the calls of its
connect phase.  Both show which outcomes are possible and that each call returns,
the two loops of section 5 excepted.  `NdefRecords` starts where `TagIo` reports a
message.

Conventions: every `X.tla` is a component without instance data, `MCX.tla` gives
instances for TLC, `X_<question>.cfg` is one run, `XProofs.tla` holds its
theorems.  `ShellServiceProofs` holds those of both services that the shell starts
and stops, `NfcSession` and `PeripheralUart`; since it extends the two, the common
names of `PeripheralUart` carry a prefix (`PeripheralNext`, `PeripheralTypeOK`).
An operator `A_B` next to `A` is `A` with a plausible bug; it is used
by no specification and shows that the properties would notice.  Variables marked
"history" exist only for the properties; no guard of the code's actions reads
them, except that the `Max...` constants bound the runs.

## 3. Modules

### NfcSession, SessionService

`pn7160_test start|stop` sets `nfc_run_flag` and gives `nfc_start_sem`; the
worker takes it, re-reads the flag, runs `task_nfc`, clears the flag.

* One action per accessed flag or library call of the worker; `pc` is named after
  the statement to come.  A call of the NCI library is an action with its possible
  outcomes, any of which may be an error.
* The shell preempts the worker, so `Start` and `Stop` are single steps, except
  that the very first start sleeps 10 ms (`FirstStart`, `FirstStartResumes`).
* `rf` abstracts `RfInterface` to whether something was reported, whether in poll
  mode and whether there is more; `nfcc` is the controller's radio as the calls
  leave it.
* `hasty` remembers a start typed while the worker winds down, `failed` a call
  whose failure leaves the radio in a state that the task does not know.
* Assumed: every library call returns (see `NciLink` for two loops where that fails).

`SessionService` is what the operator is promised: sessions begin on request, end
because of a stop or an error, and do end.  `NfcSession` implements it with
`session` = "the worker is inside `task_nfc`" and `told` = "its flag is false or
it is in the clean-up".

| property | says |
|---|---|
| `NoLostWakeup` | a worker about to wait with the flag set finds the semaphore given, so the guard `if (!nfc_run_flag)` never locks the operator out |
| `StopIsPrompt` | at most five library calls finish after a stop |
| `RadioFollows` | unless the operator was hasty or a call has failed: the radio is not polling while the worker is parked (`ParkedIsQuiet`), and polls while the task waits for a card (`WaitingIsDiscovering`) |
| `StartHonoured` | a start that is not hasty leads to a session, unless a stop follows |
| `ServiceKept` | `NfcSession` implements `SessionService`, its liveness included: a session that has been told to end does |

### RemoteShell

The bridge between the local shell and the shell on the network core.  Three
parties: the shell (commands, or the bypass callback for each byte typed), the
worker thread, the IPC service (bound, unbound).  The ring buffer is a sequence
with the claim of `ring_buf_get_claim` beside it; after a failed IPC
write the code leaves the loop without `ring_buf_get_finish`, so the claim outlives
the session and the next claim begins behind it.  `typed`,
`sent`, `dropped` record the byte stream.

| property | says |
|---|---|
| `ByteStream` | what has been sent and is buffered is what was typed, in order, once, without escape sequences, across sessions, while no IPC write fails |
| `ConsoleOwned` | input is diverted only while the worker has the end of its loop before it |
| `OneWorker` | a start never meets a worker that has statements of the bridge left |
| `BridgeEnds` | Ctrl+A Ctrl+X, the loss of the link and a stop command (`MustEnd`) end the bridge |
| `BytesGetSent` | bytes in the ring buffer are sent, unless the bridge ends or a write has failed |

### NciSetup

`NxpNci_Connect`, `NxpNci_ConfigureSettings` and `NxpNci_ConfigureMode`, command by
command, through any number of sessions, power losses and new builds.  The
controller has volatile settings (`ram`), a memory (`nvm`) with a time stamp
(`stamp`), and a recovery of its RF settings to report once (`notice`), which a
power loss during a write causes.

* `HostTransceive` is the function with its three endings: the SPI write is not
  taken, no answer comes in time (the answer stays in the queue), the oldest
  packet is taken for the answer.  No caller looks at which it was; each tests
  `Answer`, which the model therefore keeps.
* A packet is what the code can tell apart in it.  All answers to CORE_SET_CONFIG
  are equal, and that is the point: the answer to one setting passes for the
  answer to the next.
* `calm` is an environment that from some moment on does not fail, for `Recovers`.

| property | says |
|---|---|
| `TimestampTells` | the time stamp in the controller is that of this build only if the settings are in its memory, or their loss is, or has been, reported |
| `SuccessIsSound` | a set-up that reports success has initialised the controller after its last reset and every command of the mode took effect, if SPI took the commands (`ReadyIsReady`); no packet is left over (`InStep`) |
| `RestoredIsReapplied` | a recovery reported in any of the three attempts leads to the settings being sent again before success is reported |
| `Recovers` | once nothing fails any more, a set-up succeeds, whatever went wrong before |

The exceptions are parts of the statements: a setting whose answer did not come
(`blind`), a recovery reported to a set-up that failed later (`forgotten`), the LLCP
parameters, which are preceded by another CORE_SET_CONFIG.

### NciLink

The reader's loop over the NCI library against the controller, with the packets
that wait to be read in `out`.  The point of the model is that `tml_Receive`
takes the oldest packet, whatever command was sent last, and that after a
time-out the code goes on to test the old contents of `Answer`; so `answer` and
`fresh` are variables and every test is that of the code, including
`LooksActivated`, where the code says `||` and means `&&`.

An exchange of a read (`ReadExchange`, `ReadData`) may be answered by an ISO-DEP
tag in several frames, collected by `ChainFrame`; the tag may leave between two of
them.  The presence check is that of each of the six kinds of tag: T1T, T2T and T5T
are sent a read (`PresenceFrame`), a T3T a polling command whose result is a
notification (`PresenceT3T`), an ISO-DEP tag the controller's own check
(`PresenceIsoDep`), a MIFARE tag sleep and selection (`PresenceMifare`,
`MifareSelect`), and `StillThere` makes the test of each: the one of a T1T looks
neither at the length nor at the status.  `Kind` stands for the seven bytes that the
activation of a device begins with, by which `SameDevice` recognises it.

Assumptions on the controller: it answers each command within the time-out; the
notifications of one discovery are queued together; in this build it reports no
P2P device.  Tags come and go at any moment.

| property | says |
|---|---|
| `WaitingIsHeard` | while the task waits without a time-out, discovery is running or its notification is queued |
| `TagsHanded` | the tag handed to the reader is the one activated (`ReportedIsActive`), and the first two of several tags are both handed over if they stay (`BothReported`) |
| `ChainIsFed` | the loop over chained frames finds a packet, unless the tag has left |
| `PresenceSound` | a presence check ends only if the tag was away at the last poll |
| `ReaderReturns` | with all tags gone, the task waits again, unless it hangs in the flush or in the chain, or polls a T1T (`PollsT1T`) |

`PresenceSound` is stated for tags that can be polled: the check of a MIFARE tag
selects discovery ID 1 (`NxpNci20.c:446`, a limit that `Nfc.h:227` states), so for
the second of two tags it polls the wrong one.  The poll of a T1T takes for its answer
any data packet (`NxpNci20.c:456`), also the one with which the controller reports that
the exchange has failed; as long as the failures are reported in that way the check of
a T1T that is gone does not end, and `ReaderReturns` names it as an exception.
`ReportedIsActive` admits one
exception: an ISO-DEP tag that takes the place of another one while discovery is
restarted passes for the first one, because the seven bytes compared at
`NxpNci20.c:1050` are those of the kind of device, and `pRfIntf` keeps the
identity of the tag that has left.

### RwNdef, RwNdefTlv, RwNdefMifare, RwNdefT4T, TagIo

`RwNdef` has the variables, the loop of `NxpNci_ReadNdef`/`NxpNci_WriteNdef`,
what the engines share, and the tag; each engine is a disjunction with one action
per state of its `switch`; `TagIo` composes them and has the properties.

* A packet is abstracted to `what`, the command that it is a good answer to, `ok`, it
  passes the tests of length, status and format that the engine is about to make, and
  its data.  A byte of a message is a number that tells which message it is
  from and where it stands, so mixtures show.
* Any exchange may fail, with the command executed or not (`TagFails`).  Both loops
  ignore the results of both of their calls (`NxpNci20.c:380-382`, `424-426`), so the
  engine is then called with the packet before (`Before`), in a write at first with what
  another operation has left on the stack (`Stack`), or with another packet that has come
  instead: a notification, or a refusal (`Instead`).  `Passes` says which packets pass the
  tests of a state although they are no answer to its command: any answer of a T4T with
  the status 90 00, the blocks of the state's own size, a notification of an interface
  error (60 08 02 B2 00) for the answer to a MIFARE authentication or a T5T write, any
  packet that ends in 00 or 14 before a MIFARE block is announced.  A packet that passes in
  this way sets `misled`, and the operation goes on with it.
* The sizes are the code's: blocks of 4, 8 and 16 bytes, three data blocks per
  MIFARE sector, one-byte offsets and lengths where the command has one byte.
  `MaxFile` stands for `RW_MAX_NDEF_FILE_SIZE`.
* `pc = "lost"` is undefined behaviour: the engine has gone past `NdefBuffer`.
* The tag is external: memory, capacity, T4T mapping version; it refuses what lies
  beyond its data area or in another sector.  At most one other TLV precedes that of
  the message, which begins within the first block read or altogether behind it
  (`Layouts` leaves out a header cut by the end of a block); the data area of a T2T or
  T5T is a multiple of eight bytes, as their CC gives it.
* `Readable` are the lengths each engine can read: 1 to 254 bytes on a T1T and T4T, up to
  254 on a T5T, and any but 255 on a T2T and MIFARE tag (section 5).

| property | says |
|---|---|
| `ReadableIsExact` | unless `misled`, a message handed over is the message on the tag, for the lengths the engine can read (`Readable`) |
| `ReadableIsReported` | unless `misled` before, a read that nothing disturbs reports the message, or refuses an empty or too long one, provided that it does not end with the data area |
| `T4TAllOrNothing` | unless `misled`, a cut-off write of a T4T leaves nothing or a whole message |
| `SectorsRespected` | MIFARE trailers and the sector of the directory are never used for data, whatever passes for an answer; unless `misled`, blocks are used in the authenticated sector only |
| `InBounds` | the message fits `NdefBuffer`, and only a T4T of size 0, or a piece that has passed for the next one, makes the engine leave it (`BufferHolds`); nothing is written beyond the data area if the TLV fits, `misled` or not (`WritesStayInside`) |
| `OperationEnds` | every operation ends, whatever the tag answers, `misled` or not |

"Unless `misled`" is the exception the code calls for: once a packet has passed for an
answer that it is not, a block is appended twice, a T4T gets its size written over a
message with a hole, a MIFARE block is asked for in a sector that is not authenticated.
The model goes on and lets these happen; the properties say that nothing else has to go
wrong first, and that a failure that the tests do notice (most of them) does no harm.

### NdefRecords

`NdefPull_Cb` on a message in `NdefBuffer`.  A message is a sequence of records
laid out without gaps; positions are offsets, so every pointer of the code is a
number.  `TypeStart`, `Start` and `PayloadStart` are the layout that NDEF
prescribes, and the code's two computations of the same positions are modelled
beside them.  The index over the fields of a Wi-Fi token is a byte and wraps.
`far` is the last byte touched (`LastTouched`): a text is printed from behind its
language, whose length its status byte gives, a URI from its second byte, up to the 0
written behind the payload, or, if it begins behind that 0, up to the next one
(`nfc_task.c:415-435`).

| property | says |
|---|---|
| `PrintedRight` | the records printed are those of the message, in order, at their places and with their sizes, all of them at the end (`WalkIsMessage`), each as what it is (`TypesRight`) |
| `StaysInside` | no byte behind the message is touched but the one a text is cut off with, so the walk stays inside `NdefBuffer` unless the message fills it |
| `WalkEnds` | the callback returns |

The last two, and `TypesRight`, are about messages whose types are assigned
(`PlainType`) and whose tokens consist of fields (`SoundToken`); `StaysInside` is also
about texts and URIs that have their own head (`Complete`): a status byte that points
behind the payload (131, the flag of UTF-16 with three bytes of language, in a text of
eight bytes), or a text or URI without a payload, makes the code read behind the message.

### CardEmu

The Type 4 tag of `T4T_NDEF_emu.c` and the loop `NxpNci_ProcessCardMode` against a
reader that sends any command, in any order, and leaves at any time.  As in
`NciLink` the first packet received with a response may be a stale one.  `file` is
the reference: what a file would hold after the reader's writes.

| property | says |
|---|---|
| `EmulatesFile` | each read inside the file gives the bytes last written there, once a writer has stored a message and then its length |
| `PushTells` | for a reader that reads without gaps, the application is told when the whole message has been read, and not before |
| `SelectedFirst` | the file is used only after it has been selected in the same activation, unless a deactivation was taken for the answer to a response |
| `ListensAgain` | after any reader has left, the next one is discovered |

### P2PSnep

`P2P_NDEF.c`, a SNEP server and a SNEP client over one LLCP link, and
`NxpNci_ProcessP2pMode`, against a peer with both roles, one PDU for each of the
host's.  The frame numbers are those of the code: the macro `INC` (`++x % 16`) leaves
16 in the variable (`Counted`), and a 16 in `gP2P_NDEF_curNR` is carried into N(S), the
upper four bits of the byte that `(curNS << 4) + curNR` makes (`Numbered`);
a message is the number of its bytes, a fragment
its position and length.  A peer that leaves forgets what it knew of both connections;
the next activation begins with both ends idle at the peer and whatever the host kept.

| property | says |
|---|---|
| `SuccessMeansAll` | the peer is told "success" only when the application has been handed the whole message, in order, unless the reception was broken off or mixed with a push |
| `PushSound` | each frame of a push has the addresses, the number and the bytes that the peer expects, if it acknowledges at once (`PushInSequence`); the application is told of a push when the peer has all of it (`PushTellsAll`) |
| `TransfersComplete` | a message begun is taken to its end (`PutCompletes`), a push accepted is completed (`PushCompletes`), while the peer stays |
| `LinkReleased` | a link whose peer is gone is given up |

### PeripheralUart

`peripheral_uart_test start|stop`, the advertising work with its sleeping
retries, and the connection callbacks.  The shell is preempted anywhere and sleeps
four times in `peripheral_stop`; the work queue and the Bluetooth threads are
cooperative, so their handlers are cut only where they sleep or wait for the
controller.  Stack and network core are external: any call may fail, any
connection may be lost, and disconnections are reported late.  `peripheral_stop` switches
the network core off without telling the host stack (`CoreOff`): a connection that is
still up then is `"lost"`, which the stack may report, or not, and as long as it does not
it holds its connection object (`HeldByStack`).

Assumed: `bt_le_adv_start` is one step seen from the other parties and
`current_conn` is loaded once per use.

| property | says |
|---|---|
| `SemaphoreTells` | at the prompt, the semaphore tells whether the peripheral is initialised, on a running core, with Bluetooth enabled |
| `StoppedIsSilent` | a stopped peripheral neither advertises nor is connected nor has work queued, unless the stop overran a retry or a disconnection |
| `WorkIntact` | `k_work_init` never hits a work item in use, with the same exception |
| `EnabledAdvertises` | an enabled peripheral advertises or is connected again after any connection whose end the stack reports, also one of the session before |

## 4. Runs

| run | instance | shows |
|---|---|---|
| `nfc` | the whole of `NfcSession` | wake-ups, prompt stops, the radio, certain starts; the session service is implemented |
| `nfc_lost_start` | the same | finding: a lost start |
| `shell` | ring of 2 bytes, 3 bytes typed | the byte stream, the console, one worker, the ends of the bridge |
| `setup` | three sets of modes | what success and the time stamp guarantee, recovery from failures |
| `setup_lost` | the same | finding: a setting that was never sent counts as applied |
| `nci_tags` | six tags, one of each kind, up to three at a time, at most two exchanges per read | the link's properties |
| `nci_flush` | the same, no exchange | finding: a loop without end |
| `tag_any` | all types, two operations, messages around every boundary, two exchanges that fail or one whose packet passes nevertheless | the engines' properties |
| `records` | every message of up to two records out of a list of layouts | the walk |
| `card` | a message of two bytes, reads and writes around it, two activations | the emulated file |
| `p2p` | own messages of up to three fragments against a peer's of one or three, one of three against a peer's of sixteen, none against a peer's of eighteen, two activations | both transfers |
| `ble` | no bounds; the state space is finite | the peripheral's properties |

Bounds.  `NfcSession`, `NciSetup` and `PeripheralUart` are finite as they are (the
counter `late` saturates at `LateBound`, one more than the property allows; the
queue of a set-up is bounded by its attempts).  The modes of `setup` are that of this
build, one without P2P and one with all three modes; together they send every command.
A ring of two
bytes overflows with three, holds a held-back Ctrl+A with the byte after it, and
can be claimed in part.  `Crowds` are the sets of tags that may be in the field together:
each tag alone, every pair with a T2T, ISO-DEP or MIFARE tag in it, and these three, which
give "more than two", the case in which the third is ignored; the other kinds differ from
a T2T in their presence check only; two exchanges give one that is
answered after another one was chained.  `tag_any` uses lengths that end
inside, at and one byte beyond a block, a sector (46 bytes with the TLV are 48), a
piece of a T4T (54 = `WRITE_SZ`) and the one-byte length; two operations show
state that survives from the first into the second.  `MaxFails` is two in all: a failure
in each of the operations, twice in one, or one packet that passes for an answer that it
is not, which counts twice, with everything that follows from it.  `MaxFile` is 300 instead of
500 in that run: the messages found on the tags have 300 and 301 bytes too, at the limit and
beyond the offset of one byte, 301 is too long to be written, and the tables stay small.
`records` has short and normal records, with and
without ID, payloads of 255, 256 and 300 bytes (the index is one byte), damaged
tokens, texts and URIs without a payload or with a status byte beyond it, a message that
fills the buffer and ones without an ME flag; two records show
every transition from one layout to another.  `card` has four bytes of file: the
length, the message, and writes that cover one, the other, both or half of the
message.  In `p2p` a frame has two bytes, so an own message of five takes three
fragments; eighteen fragments of the peer make the frame number of four bits wrap, and
sixteen against a push of five bytes leave 16 in the counter when the push goes on, so
that the carry into N(S) is met.
`Traffic` pairs the messages, because other long ones against a push show
nothing that three fragments do not.
`MaxActivations`, `MaxPuts`, `MaxConnects`, `MaxResends`, `MaxTyped`, `MaxReads` and `MaxOps`
bound what the environment does.  `TagIo` stops after `MaxOps` operations or when
lost, therefore its run does not check deadlock; all the others do.

Fairness.  The worker is runnable whenever the shell waits for input and each of
its waits has a time-out or an event that the fairness names: weak fairness of the
worker, the bridge, the engine, the host, the set-up, the callback.  Liveness under
`CardSpec` also assumes
that cards are taken away, long enough for a presence check to see it: the presence
check does not look at the flag, so a stop takes no effect while the card
stays (`nfc_task.c`, `NxpNci20.c:432`).  `NciLink` assumes that a controller in discovery
finds a tag that stays.  `P2PSnep` assumes that a peer answers each PDU, as LLCP
requires, that its server responds in the end and that its client goes on with what
it has begun (strong fairness, for the peer may send a SYMM instead any number of times).
`PeripheralUart` assumes that sleeps end, that a connection object to which nobody
refers is recycled, and that `bt_le_adv_start` succeeds when it
is possible again and again (strong fairness of `AdvStarts`: the stack is not busy
for ever); it does not assume that the end of a connection is ever reported.
`Recovers` is conditional on `calm` instead of a fairness.  Nothing is
assumed of the operator, of tags, readers or the network core.

## 5. Findings

Each is the counterexample of a run that checks one sentence of the repository.

* `nfc_lost_start`: a start typed during the clean-up of a stopped session is
  erased by `nfc_run_flag = false` (`nfc_thread.c:41`).
* `nci_flush`: `while (Answer != 0)` tests the address of an array
  (`NxpNci20.c:1063`); two tags at the wrong moment hang the worker.
* `setup_lost`: the result of `NxpNci_HostTransceive` is ignored, so a setting that
  SPI did not take is counted as applied because of the equal answer to the one
  before, and the time stamp keeps it from being sent again
  (`NxpNci20.c:747`, the clock setting, is the first of them).

Observations made while modelling; the properties are stated around them, so that
they hold, and the exception is part of the statement:

* session: after stop and start in quick succession the clean-up re-reads the flag
  (`nfc_task.c:642`), skips `StopDiscovery`, and the worker can park with the radio
  polling; a restart can follow a stop by one discovery (`nfc_task.c:373`);
* bridge: a stop typed before the worker first runs is erased by
  `remote_shell_start`'s own reset (`start.c:168`), so `MustEnd` begins there; after
  the bridge the endpoint keeps the callback that prints, because
  `shell_ipc_host_prebind` is called while the bridge is still marked active
  (`start.c:267`); a stopped session may still restart with the thread object of a
  thread that has not ended (`ThreadEnds` comes after `ClearRunning`); the shell's
  check of the peripheral is made when the command is typed (`cmd.c:87`), up to two
  seconds before the bridge opens; a failed IPC write leaves
  its bytes claimed (`start.c:259`), so the next session sends the bytes behind them
  and frees the old ones in their place: bytes are lost and others sent twice;
* controller configuration: a late answer is met by the next command of the same kind;
  the report of a recovery is lost when the attempt that got it fails
  (`NxpNci20.c:44`, every attempt clears the flag);
* link: the loop over chained frames does not end when the tag leaves between two
  frames (`NxpNci20.c:388`); a swapped ISO-DEP tag keeps the identity of the first
  (`NxpNci20.c:1050`); the presence check of a T1T takes the report of its own failure for
  an answer (`NxpNci20.c:456`);
* engines: the results of `NxpNci_HostTransceive` and of the wait behind it are ignored
  (`NxpNci20.c:380`, `424`), so that after a command that was not taken, or two time-outs,
  the engine tests the packet before, which on most tags passes: a block is appended
  twice, a T4T's size is written over a missing piece; a MIFARE authentication is also
  passed by a notification of an interface error (`RW_NDEF_MIFARE.c:78`, `107`, `267`);
  a message that ends with a block makes the T1T, T2T and MIFARE readers
  ask for one more; at the end of the data area the tag refuses and the complete
  message is never reported (`RW_NDEF_T2T.c:134`); on a T4T, from offset 254 on, the
  offset of a READ BINARY wraps (`RW_NDEF_T4T.c:202`) and
  the read begins again at the start; a size of 0, which a cut-off write leaves, is
  not recognised and the reads go on past the buffer;
  a message of 255 bytes is written with the length byte 0xFF, the mark of a
  three-byte length (`RW_NDEF_T2T.c:195`, `RW_NDEF_MIFARE.c:316`);
  the capacity test leaves out the TLV's header (`RW_NDEF_T2T.c:180`,
  `RW_NDEF_T5T.c:209`); an empty message of a T1T is delivered from what the buffer
  held before;
* records: a text is printed from behind a language whose length is not compared with the
  payload, and an empty text or URI from its second byte (`nfc_task.c:425`), so both are
  read behind the message; `NdefPull_Cb` does not advance over an unknown byte of a Wi-Fi record and
  hangs (`nfc_task.c:466`); its index of one byte wraps for a token of 256 bytes and
  more; the 0 that ends a text, URI or vCard lies behind the buffer when the message
  fills it (`nfc_task.c:415`); a message handed over in fragments by P2P is walked
  fragment by fragment as if each were a message;
* card emulation: every write, not only that of the length, takes its first two bytes
  as the size of the message (`T4T_NDEF_emu.c:153`); a read is limited by neither file
  nor buffer; a write at offset 0 or 1 of more than the length stores in front of the
  array; a deactivation that is taken for the answer to a response leaves the next
  reader with the selection of the one before (`NxpNci20.c:207`);
* P2P: one counter of received bytes serves all connections (`P2P_NDEF.c:235`), so the
  acknowledgements and responses to a push are counted, or swallowed, while the peer
  puts a message; a disconnection in the middle of a reception joins the tail of one
  message to the next (`P2P_NDEF.c:273`); N(R) is not incremented for a CONTINUE; the
  fragments of a push take addresses and numbers from the PDU before, whatever it was
  (`P2P_NDEF.c:351`); an activation that the loop itself finds in listen mode is not
  served;
* peripheral: the advertising work sleeps and tries again without looking at
  `peripheral_stopping`, and a connection recycled after the end of a stop submits
  the work (`peripheral_uart.c:174`), so a stopped peripheral can advertise;
  `StoppedIsSilent` is stated for stops that leave neither behind; a failed
  `bt_nus_init` leaves Bluetooth enabled and the stop command refuses to help; the
  branch of `peripheral_start` that cleans up an initialised peripheral is never
  reached (`SemaphoreTells`); the network core is switched off under a connection that is
  still up without telling the host stack (`peripheral_uart.c:485`), so that this
  connection may keep the only connection object and the next session never advertise.

## 6. Proofs

All are checked by TLAPS from the assumptions on the constants alone
(`BridgeAssumption`, `RwAssumption`, `SetupAssumption`, `LinkAssumption`,
`CardAssumption`, `P2PAssumption`, `RecordsAssumption`), and each
inductive invariant was first checked with TLC.  `RwAssumption` takes `MaxFile` up to 900
(the code has 500) and `WriteSz` up to 255, so that block numbers and lengths, which the
commands hold in one byte, do not wrap before a message that fits the buffer ends.

* `ShellServiceProofs`, of `NfcSession`.  `TypeCorrect`.  `WakeupCorrect`: `NoLostWakeup` is not
  inductive, because before the first start the worker is created by the command
  that sets the flag; `WakeupInv` adds that until then there is no worker and the
  flag is false.  `PromptCorrect`: `PromptInv` gives each location the number of
  library calls that can have finished since the flag went false (`Budget`), and
  every path of the task stays within it; loops re-read the flag.
  `ServiceImplemented`: `Spec => Service!Spec`, the initial states and every step
  mapped.  It rests on `FlagInv`: while the flag is set, and the worker is not about to
  clear it, the operator's last command was a start and no error has ended a session
  since.  `RadioCorrect`: `RadioKept` says at each location what the controller does while
  no call has failed.  The clean-up reads the flag again, so the invariant must also say
  when that reading can be trusted: a worker that winds down is told to start only by a
  hasty operator, so otherwise a flag once false stays false up to the clean-up.
  Of `PeripheralUart`.  `SemaphoreCorrect`, `SilenceCorrect`, `WorkCorrect`: the component
  has no constants, so they add to TLC's answer not generality but the reason.  `FlagsInv`
  says at each location of the shell thread how the semaphore, the initialised flag and
  the Bluetooth flag go together, on every failing path too, and `ConnInv` that the
  connection and its one reference come and go together.  `StoppedIsSilent` speaks of the
  time after a stop, but what makes it true happens during it: `SilenceInv` adds that
  `peripheral_stopping` is set from the first step of a stop on and that from its last
  `bt_le_adv_stop` on, unless it overran a retry or a disconnection, nothing is advertised,
  queued or in a handler.
* `RemoteShellProofs`.  `TypeInductive`: the ring buffer's type needs that a claim never
  reaches beyond the buffer (`ClaimOK`), also after a failed write; `TypeCorrect`
  follows, for every `RingSize` and `MaxTyped`.  `ConsoleCorrect` is inductive as it
  stands.  `OneWorkerCorrect` rests on `RunningCovers`: the running flag is set
  before the thread is created and cleared after its last statement.
  `ByteStreamCorrect`: `Forwarded` lists the typed bytes that are due by counting those
  before them, so the proof first shows that the list grows at its end when a byte is
  due and stays the same when it is not (`Ranked`), by facts on cardinalities.  `StreamInv`
  says what `bridge_esc_state` remembers of the byte before (`EscapeKept`), that only typed
  bytes are lost and the one held back never is (`LossKept`), and that there is at most
  one claim, begun at the front of the ring, until a write fails (`OneClaim`).
* `NciSetupProofs`.  `TypeCorrect`, `TimestampCorrect`, `RestoredCorrect`.  The invariant
  `IInv` follows the report of a recovery on its way (`Told`): it is among the packets of
  the resets in the queue, then also in the restore flag, then only there, and at the
  end the RF settings are back or the set-up has failed.  For that it must be
  known that responses and notifications of resets take turns in the queue and that
  nothing in it passes for the answer to a settings command before the time stamp
  has been read (`Queue`), and that from there on the settings sent so far are in the
  memory unless one went unanswered (`Sent`).  `SuccessCorrect` adds `SetUpInv`: from which
  command on the controller is initialised after its last reset (`Started`), and that at
  each command of the mode the earlier ones are in effect (`InMode`).
  `RecoveryCorrect` is the part of `Recovers` that needs no fairness: a step of a set-up is
  one forward in `Way`, the next of three attempts or the failure (`Advances`), which ends
  every set-up, and one that begins when nothing fails any more is and stays `OnCourse`:
  the queue holds what the next command expects and nothing else, so it cannot fail.
* `TagIoProofs`.  `SectorsCorrect`: `SectorsRespected` speaks of the command on
  its way; `MifareInv` says which sector each state of the engine relies on and
  that it is the authenticated one once the tag has answered well, and that the
  block pointer is no trailer where the state reads or writes data.  `BlkNb` is a
  natural number in the model, a byte in the code, which a 4K card does not exceed.
  All theorems of this module take the packets that pass for answers they are not as the
  model has them; what does not survive such a packet is stated and proved until `misled`
  (`MisledStays`: it is never reset), and that is all of them but the part of
  `SectorsCorrect` about trailers and the directory, which `MifareInv` gives in any case.
  `AllOrNothingCorrect`: while the size is 0 the file agrees with
  the message up to the pointer (a piece confirmed) or to its beginning (a piece
  under way), so the size that is written last covers a whole message; lemmas on
  `Cells` and `Store` carry the pieces together.  It holds for all lengths of
  messages and pieces.
  `ExactCorrect`, `BoundsCorrect` (which has the types, `TypeOK`): `TagInv` relates the
  buffer, the pointer, the command on its way and the memory of the tag.  While a message
  is read, the cells behind what is in the buffer are the rest of it, and the command asks
  for the next of them (`ReadFits`, `PartsFit`); while one is written, the tag holds its
  header and its bytes up to the pointer, once the command has been executed
  (`WriteFits`); between operations the tag has a TLV that leads to the message, if it is
  whole (`Laid`), so that reads after a write cut off are covered too.  `OpenInv` says which file
  of a T4T is selected in each state, for the answer to a read is that of the NDEF file
  only if it is.  The walk over
  the TLVs (`FindNdefTlv`) is a recursive function: `WalkExists` shows that a function
  satisfies its equation, by the least place for which there were none, and
  `FindFacts` what it returns for the layouts the tags have.  One lemma per engine shows
  that `TagInv` is kept, on `MifareInv` and `T4TInv` where they are needed.
  `ReportedCorrect`: `ReadableIsReported` speaks of the end of a read, and fails if any
  answer on the way is bad.  `ReadInv` therefore says of a read that is not disturbed
  (`Undisturbed`) that every command is one the tag answers and every answer is good, but
  for a T4T of mapping version 1.0, which has no application of version 2.0 (`Excused`),
  and that what is left of the message ends where the message ends on the tag (`GoesOn`).
  So a block is asked for only while the message goes on, and that block lies inside the
  data area.  For a T4T the message must lie within its file, also one that the device has
  written: `Room` says that the card has accepted the last piece before the size is
  written.
  `EndsCorrect` is the part of `OperationEnds` that needs no fairness: `BytesLeft`, what
  remains of the buffer or of the message, never grows, and while it stays the same the
  states follow one order that all six engines keep to (`Way`, `Later`).  That no part is
  empty comes from what the tag answers (`PartRead`, `FileRead`); for MIFARE, `Announced`
  adds that a block is announced only while bytes are left.  The theorem holds until
  `misled`, because an acknowledgement without data that passes for a piece of a T4T adds
  no bytes.
* `NciLinkProofs`.  `TagsHandedCorrect`, `WaitingCorrect`, `ChainCorrect`,
  `PresenceCorrect`, for any finite set of tags of any kinds.  None is inductive, for
  a packet left in the queue would be taken for the answer to the next command.  `IInv` says
  what is queued at each receive and each command (`Queue`, `Answered`), what `rf`
  and the next tag's protocol stand for (`Tracked`), which of the first two tags have been
  handed over (`Progress`) and how the controller's state goes with the active tag
  (`Field`).  Lemmas give the effect of each exchange (`Deactivates`, `Selects`,
  `SendsData`, `WaitsOn`), then one lemma per action shows that it keeps `IInv`.
  `PresenceCorrect` is the action property that `Answered` yields at `presence_end`.
* `NdefRecordsProofs`.  `PrintedCorrect`, `InsideCorrect` (its premise `Complete` included), for
  messages of any number of
  records in any layout (lengths that fit their bytes, no ID without its flag).  The
  positions are a recursive function, so it is first shown that there is a function that
  satisfies its equation, that what `CHOOSE` gives is such a one, and that it grows
  (`SumsExist`, `SumsDefined`, `SumsGrow`), each by looking at the least number for which it
  would fail.  `DetectedIs` compares the tests of the code with the type of the record;
  the invariant `Walk` is that the pointer stands where the next record, or the one at
  hand, begins.
  `ProgressCorrect` is the part of `WalkEnds` that needs no fairness.  `AtField` adds that
  the index into a Wi-Fi token stands at a field or behind the last, so that each round of
  that loop steps over a field (`FindsWay`); what is left, the records, the stage of the
  loop and the bytes of the token in the order of the dictionary, falls with every step.
* `CardEmuProofs`.  `EmulationCorrect`, `PushCorrect`, `SelectionCorrect`, for every message,
  every sequence of commands and any number of activations.  `Mirror` relates the array of
  the code and the ideal file cell by cell, the stored size included, and says which
  cells of the message a writer has not touched; `Answered` says what a response under way
  holds.  That a command belongs to the activation that is served follows from
  `InOrder`: activations, commands and deactivations stand in the queue in the order of
  their epochs, and a command of a later one is never met before its activation, unless
  a deactivation was swallowed (`missed`).
* `P2PSnepProofs`.  `PutCorrect`, `PushSoundCorrect`, for every traffic, frame size and number
  of activations.  Host and peer take turns, so at most one PDU of the current activation is
  in the queue, in the host or with the peer (`Queue`, `Turns`); lemmas on the
  activations and PDUs of a queue (`Acts`, `Flight`) carry this over each append and each
  receive.  `Reception` says at each of the three places what the peer's client and the
  host's counter know of each other, `Push` how the two ends of the push connection agree on
  frame numbers and bytes, `Told` when the push callback may still come.

Only model-checked:

* what remains true on a tag once a packet has passed for an answer that it is not: the types,
  `BufferHolds` and `WritesStayInside` of `InBounds`, and the end of the operation.
* liveness, including the fairness part of `ServiceKept`: out of the provers' reach.  Of
  `OperationEnds`, `WalkEnds` and `Recovers`, `EndsCorrect`, `ProgressCorrect` and
  `RecoveryCorrect` prove what does not depend on fairness: every step makes a
  well-founded measure smaller, and in the latter two the data that the next one needs is
  there.  That a step is enabled and taken in the end, and the induction over the measure,
  stay with TLC.
  The other liveness properties are about several actors, and no measure is proved.

## 7. Not modelled

* The two functions of the factory test: they have no caller.
* The display of card information and the texts of records: they print and change
  no state.
* The security callbacks of the peripheral: compiled out.
* `main.c`: it lowers the priority of the shell thread and sleeps; the
  priorities are used where the threads interleave.
* In `NxpNci_WaitForDiscoveryNotification`, the branches for an NFC-DEP device, which a
  reader-only configuration does not discover, and `NxpNci_ReaderTagCmd`, whose callers
  are compiled out.
* `shell_ipc_host_deinit` and `peripheral_bt_disable`: no callers; the USB and DTR branches
  of the bridge: compiled out.
* Zephyr, the Bluetooth stack, the IPC service, the PN7160, the tags, readers and peers
  are external and modelled from how the code
  uses them.  SPI transfers of `tml.c` are abstracted to "a packet is taken or the wait times
  out" and, in `NciSetup` and `TagIo`, "the write is not taken".  Not modelled there: a read
  that fails between the header of a packet and its payload (`tml.c:141`), which leaves a
  new header before an old payload in the buffer; and, in `TagIo`, an answer or notification
  that comes after its time-out and is met by the next command, so that all later answers
  are shifted by one (`NciSetup`, `NciLink` and `CardEmu` have such packets in their queues).
  `TagIo` has a packet that is left over only in the form of the one in the buffer.
* The walk over the TLVs (`FindNdefTlv`) adds to a byte and compares it with the size of the
  answer, so it may wrap or read behind the answer; `Layouts` has none for which it does.
