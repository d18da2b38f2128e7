------------------------------- MODULE GseLink -------------------------------
(***************************************************************************)
(* The command path of the middleware: the pendant and web sockets, the    *)
(* thread that drains them (server_listen_loop), the state they share      *)
(* (SharedGcsState: one mutex, one condition variable, one version), the   *)
(* thread that transmits to the GSE (tcp_write), the part of the main      *)
(* thread that acts on web commands, and the end of the thread that reads  *)
(* from the avionics (input_read_loop), which main joins with the others.  *)
(*                                                                         *)
(* A method of SharedGcsState that holds the mutex is one step.  The steps *)
(* of a thread between two such calls are separate, so every interleaving  *)
(* the mutex allows is explored.  A wait_for on the condition variable can *)
(* end by a notification or by its timeout, at any moment.                 *)
(***************************************************************************)
EXTENDS Naturals, FiniteSets

CONSTANTS
  PendantPayload,  \* payloads the pendant service sends
  ManualBody,      \* solenoid payloads of the web manual control messages
  Fallback,        \* PendantData::FALLBACK_PAYLOAD_
  Empty,           \* the empty payload
  NoMessage,       \* an empty socket
  FallbackAge,     \* PENDANT_FALLBACK_TIMEOUT, in ticks
  MaxMessages      \* bound: messages the two services send in a behaviour

ASSUME ConstantsAssumption ==
  /\ Empty \notin PendantPayload \cup ManualBody \cup {Fallback}
  /\ NoMessage \notin PendantPayload
  /\ FallbackAge \in Nat \ {0}
  /\ MaxMessages \in Nat

Payload == PendantPayload \cup ManualBody \cup {Fallback, Empty}

\* A web message is a command prefix and what follows it: the solenoid
\* payload after a manual control prefix, nothing after a camera prefix.
WebMessage ==
  [cmd : {"ManualOn", "ManualOff"}, body : ManualBody]
    \cup [cmd : {"CameraOn", "CameraOff"}, body : {Empty}]

Command == {"ManualOn", "ManualOff", "CameraOn", "CameraOff", "Unknown"}

NoWebMessage == [cmd |-> "Unknown", body |-> Empty]

VARIABLES
  pendantSocket,  \* conflated PULL socket: the newest unread message
  webSocket,
  messages,       \* messages sent so far (bounds the model)
  pendant,        \* pendant_.payload
  age,            \* ticks since pendant_.last_receival_, capped
  web,            \* websocket_.payload
  lastCommand,    \* websocket_.lastCommand
  manual,         \* manual_control_solenoids_
  version,        \* gse_payload_version_
  asleep,         \* threads inside state_cv_.wait_for
  camera,         \* av_sequence.camera_power_
  running,        \* the flag the signal handler clears
  lpc, sawPendant, sawWeb,         \* server_listen_loop
  apc,                             \* input_read_loop of the avionics
  wpc, wPayload, wVersion,         \* tcp_write
  mpc, mVersion, mCommand          \* main

sockets == <<pendantSocket, webSocket, messages>>
stored  == <<pendant, age, web, lastCommand>>
listen  == <<lpc, sawPendant, sawWeb>>
writer  == <<wpc, wPayload, wVersion>>
mains   == <<mpc, mVersion, mCommand>>
vars == <<sockets, stored, manual, version, asleep, camera, running,
          listen, writer, mains, apc>>

-----------------------------------------------------------------------------
(* SharedGcsState, under its mutex *)

\* The payload the GSE should be getting.
Current == IF manual THEN web ELSE pendant

\* A changed payload gets a new version and wakes every waiting thread.
NotifyIfChanged ==
  IF Current' = Current
    THEN UNCHANGED <<version, asleep>>
    ELSE /\ version' = version + 1
         /\ asleep' = {}

SetPendantReceived(p) ==
  /\ pendant' = p
  /\ age' = 0
  /\ UNCHANGED <<web, lastCommand, manual>>
  /\ NotifyIfChanged

\* MUTANT: the fallback only covers the time before the first message.
NoDataAtBootOnly == IF age >= FallbackAge /\ pendant = Empty THEN Fallback ELSE pendant

\* PendantData::no_data: fall back once the silence is long enough.
NoData == IF age >= FallbackAge THEN Fallback ELSE pendant

\* No pendant message in this poll.
PendantNoData ==
  /\ pendant' = NoData
  /\ UNCHANGED <<age, web, lastCommand, manual>>
  /\ NotifyIfChanged

\* process_data_ strips the prefix, so a camera command stores no payload.
SetWebsocketReceived(m) ==
  /\ web' = m.body
  /\ lastCommand' = m.cmd
  /\ UNCHANGED <<pendant, age, manual>>
  /\ NotifyIfChanged

\* MUTANT: manual control latches.
SetManualControlModeLatched(mode) ==
  /\ manual' = (manual \/ mode)
  /\ UNCHANGED stored
  /\ NotifyIfChanged

SetManualControlMode(mode) ==
  /\ manual' = mode
  /\ UNCHANGED stored
  /\ NotifyIfChanged

\* MUTANT: wait_for without a predicate.
StartWaitBlindly(thread, seen) == asleep' = asleep \cup {thread}

\* Entering wait_for: the predicate is tested under the mutex, so a thread
\* whose version is already old does not go to sleep.
StartWait(thread, seen) ==
  asleep' = IF version = seen THEN asleep \cup {thread} ELSE asleep

-----------------------------------------------------------------------------
(* The services that send to the sockets, the clock and the signal *)

PendantSends ==
  /\ messages < MaxMessages
  /\ messages' = messages + 1
  /\ \E p \in PendantPayload : pendantSocket' = p
  /\ UNCHANGED <<webSocket, stored, manual, version, asleep, camera, running,
                 listen, writer, mains, apc>>

WebSends ==
  /\ messages < MaxMessages
  /\ messages' = messages + 1
  /\ \E m \in WebMessage : webSocket' = m
  /\ UNCHANGED <<pendantSocket, stored, manual, version, asleep, camera,
                 running, listen, writer, mains, apc>>

Tick ==
  /\ age < FallbackAge
  /\ age' = age + 1
  /\ UNCHANGED <<sockets, pendant, web, lastCommand, manual, version, asleep,
                 camera, running, listen, writer, mains, apc>>

Signal ==
  /\ running
  /\ running' = FALSE
  /\ UNCHANGED <<sockets, stored, manual, version, asleep, camera, listen,
                 writer, mains, apc>>

-----------------------------------------------------------------------------
(* server_listen_loop *)

\* zmq::poll: what it saw is acted on later, when newer messages may be there.
ListenPoll ==
  /\ lpc = "poll" /\ running
  /\ sawPendant' = (pendantSocket # NoMessage)
  /\ sawWeb' = (webSocket # NoWebMessage)
  /\ lpc' = "pendant"
  /\ UNCHANGED <<sockets, stored, manual, version, asleep, camera, running,
                 writer, mains, apc>>

ListenPendant ==
  /\ lpc = "pendant"
  /\ \/ /\ sawPendant
        /\ SetPendantReceived(pendantSocket)
        /\ pendantSocket' = NoMessage
     \/ /\ ~sawPendant
        /\ PendantNoData
        /\ UNCHANGED pendantSocket
  /\ sawPendant' = FALSE
  /\ lpc' = "web"
  /\ UNCHANGED <<webSocket, messages, camera, running, sawWeb, writer, mains, apc>>

ListenWeb ==
  /\ lpc = "web"
  /\ \/ /\ sawWeb
        /\ SetWebsocketReceived(webSocket)
        /\ webSocket' = NoWebMessage
     \/ /\ ~sawWeb
        /\ UNCHANGED <<webSocket, stored, manual, version, asleep>>
  /\ sawWeb' = FALSE
  /\ lpc' = "poll"
  /\ UNCHANGED <<pendantSocket, messages, camera, running, sawPendant,
                 writer, mains, apc>>

ListenStop ==
  /\ lpc = "poll" /\ ~running
  /\ lpc' = "done"
  /\ UNCHANGED <<sockets, stored, manual, version, asleep, camera, running,
                 sawPendant, sawWeb, writer, mains, apc>>

Listen == ListenPoll \/ ListenPendant \/ ListenWeb \/ ListenStop

-----------------------------------------------------------------------------
(* tcp_write *)

\* MUTANT: the snapshot ignores manual control.
WriterSnapshotOfPendant ==
  /\ \/ wpc = "start"
     \/ wpc = "woken" /\ running
  /\ wPayload' = pendant
  /\ wVersion' = version
  /\ wpc' = "wait"
  /\ UNCHANGED <<sockets, stored, manual, version, asleep, camera, running,
                 listen, mains, apc>>

\* get_gse_payload_snapshot, then write_data unless the payload is empty.  The
\* transmission touches nothing that is shared here; while it lasts the thread
\* is at "wait", where any number of changes may still reach the state.
WriterSnapshot ==
  /\ \/ wpc = "start"
     \/ wpc = "woken" /\ running
  /\ wPayload' = Current
  /\ wVersion' = version
  /\ wpc' = "wait"
  /\ UNCHANGED <<sockets, stored, manual, version, asleep, camera, running,
                 listen, mains, apc>>

WriterWait ==
  /\ wpc = "wait" /\ running
  /\ StartWait("writer", wVersion)
  /\ wpc' = "waiting"
  /\ UNCHANGED <<sockets, stored, manual, version, camera, running, listen,
                 wPayload, wVersion, mains, apc>>

\* MUTANT: a timeout goes back to waiting for a new version.
WriterWakeOnChangeOnly ==
  /\ wpc = "waiting"
  /\ asleep' = asleep \ {"writer"}
  /\ wpc' = IF version = wVersion THEN "waiting" ELSE "woken"
  /\ UNCHANGED <<sockets, stored, manual, version, camera, running, listen,
                 wPayload, wVersion, mains, apc>>

\* Notified, never asleep, or the heartbeat timeout has passed.
WriterWake ==
  /\ wpc = "waiting"
  /\ asleep' = asleep \ {"writer"}
  /\ wpc' = "woken"
  /\ UNCHANGED <<sockets, stored, manual, version, camera, running, listen,
                 wPayload, wVersion, mains, apc>>

WriterStop ==
  /\ wpc \in {"wait", "woken"} /\ ~running
  /\ wpc' = "done"
  /\ UNCHANGED <<sockets, stored, manual, version, asleep, camera, running,
                 listen, wPayload, wVersion, mains, apc>>

Writer == WriterSnapshot \/ WriterWait \/ WriterWake \/ WriterStop

-----------------------------------------------------------------------------
(* input_read_loop of the avionics *)

\* What it reads goes to the publisher and to AvSequence (modules PubStream and
\* AvSequence), nothing of it to the state here, so the rounds it makes while
\* the program runs are not steps of this module.  It looks at the flag only
\* between two calls of read_data, each of which returns: every interface reads
\* with a timeout.
AvReaderStop ==
  /\ apc = "read" /\ ~running
  /\ apc' = "done"
  /\ UNCHANGED <<sockets, stored, manual, version, asleep, camera, running,
                 listen, writer, mains>>

-----------------------------------------------------------------------------
(* main: web commands and the waits of its loop *)

\* The snapshot that only refreshes the version main waits on.
MainProbe ==
  /\ mpc = "probe"
  /\ mVersion' = version
  /\ mpc' = "loop"
  /\ UNCHANGED <<sockets, stored, manual, version, asleep, camera, running,
                 listen, writer, mCommand, apc>>

\* get_snapshot.  An empty web payload is skipped like an unknown command;
\* without a pendant payload no command is looked at.
MainSnapshot ==
  /\ mpc = "loop" /\ running
  /\ \/ /\ pendant = Empty
        /\ mpc' = "wait"
        /\ UNCHANGED mCommand
     \/ /\ pendant # Empty
        /\ mpc' = "dispatch"
        /\ mCommand' = IF web = Empty THEN "Unknown" ELSE lastCommand
  /\ UNCHANGED <<sockets, stored, manual, version, asleep, camera, running,
                 listen, writer, mVersion, apc>>

\* The switch on the command of the snapshot, which may be stale by now.
MainDispatch ==
  /\ mpc = "dispatch"
  /\ \/ /\ mCommand \in {"CameraOn", "CameraOff"}
        /\ camera' = (mCommand = "CameraOn")
        /\ UNCHANGED <<stored, manual, version, asleep>>
     \/ /\ mCommand \in {"ManualOn", "ManualOff"}
        /\ SetManualControlMode(mCommand = "ManualOn")
        /\ UNCHANGED camera
     \/ /\ mCommand = "Unknown"
        /\ UNCHANGED <<stored, manual, version, asleep, camera>>
  /\ mCommand' = "Unknown"
  /\ mpc' = IF apc = "none" THEN "wait" ELSE "avionics"
  /\ UNCHANGED <<sockets, running, listen, writer, mVersion, apc>>

\* The exchange with the avionics (module AvSequence) always comes to an end.
MainAvionics ==
  /\ mpc = "avionics"
  /\ mpc' = "loop"
  /\ UNCHANGED <<sockets, stored, manual, version, asleep, camera, running,
                 listen, writer, mVersion, mCommand, apc>>

MainWait ==
  /\ mpc = "wait"
  /\ StartWait("main", mVersion)
  /\ mpc' = "waiting"
  /\ UNCHANGED <<sockets, stored, manual, version, camera, running, listen,
                 writer, mVersion, mCommand, apc>>

MainWake ==
  /\ mpc = "waiting"
  /\ asleep' = asleep \ {"main"}
  /\ mpc' = "probe"
  /\ UNCHANGED <<sockets, stored, manual, version, camera, running, listen,
                 writer, mVersion, mCommand, apc>>

MainStop ==
  /\ mpc = "loop" /\ ~running
  /\ mpc' = "join"
  /\ UNCHANGED <<sockets, stored, manual, version, asleep, camera, running,
                 listen, writer, mVersion, mCommand, apc>>

\* gcs_reader.join(), av_reader.value().join() if there is one, tcp_writer.join().
MainJoin ==
  /\ mpc = "join"
  /\ lpc = "done" /\ apc \in {"none", "done"} /\ wpc = "done"
  /\ mpc' = "exit"
  /\ UNCHANGED <<sockets, stored, manual, version, asleep, camera, running,
                 listen, writer, mVersion, mCommand, apc>>

Main == \/ MainProbe \/ MainSnapshot \/ MainDispatch \/ MainAvionics
        \/ MainWait \/ MainWake \/ MainStop \/ MainJoin

-----------------------------------------------------------------------------

\* With --gse-only there is no interface to the avionics, and no reader of it.
Init ==
  /\ pendantSocket = NoMessage /\ webSocket = NoWebMessage /\ messages = 0
  /\ pendant = Empty /\ age = 0 /\ web = Empty /\ lastCommand = "Unknown"
  /\ manual = FALSE /\ version = 0 /\ asleep = {}
  /\ camera = FALSE /\ running = TRUE
  /\ lpc = "poll" /\ sawPendant = FALSE /\ sawWeb = FALSE
  /\ apc \in {"none", "read"}
  /\ wpc = "start" /\ wPayload = Empty /\ wVersion = 0
  /\ mpc = "probe" /\ mVersion = 0 /\ mCommand = "Unknown"

\* The process has exited.
Exited == mpc = "exit" /\ UNCHANGED vars

Next ==
  \/ PendantSends \/ WebSends \/ Tick \/ Signal
  \/ Listen \/ Writer \/ AvReaderStop \/ Main \/ Exited

Spec == Init /\ [][Next]_vars

\* The operating system schedules every thread and time passes; the services
\* and the operator owe nothing.
FairSpec ==
  /\ Spec
  /\ WF_vars(Listen) /\ WF_vars(Writer) /\ WF_vars(AvReaderStop) /\ WF_vars(Main)
  /\ WF_vars(Tick)

-----------------------------------------------------------------------------
(* Properties *)

TypeOK ==
  /\ pendantSocket \in PendantPayload \cup {NoMessage}
  /\ webSocket \in WebMessage \cup {NoWebMessage}
  /\ messages \in 0..MaxMessages
  /\ pendant \in PendantPayload \cup {Fallback, Empty}
  /\ age \in 0..FallbackAge
  /\ web \in ManualBody \cup {Empty}
  /\ lastCommand \in Command
  /\ manual \in BOOLEAN /\ version \in Nat /\ asleep \subseteq {"writer", "main"}
  /\ camera \in BOOLEAN /\ running \in BOOLEAN
  /\ lpc \in {"poll", "pendant", "web", "done"}
  /\ sawPendant \in BOOLEAN /\ sawWeb \in BOOLEAN
  /\ wpc \in {"start", "wait", "waiting", "woken", "done"}
  /\ apc \in {"none", "read", "done"}
  /\ wPayload \in Payload /\ wVersion \in Nat
  /\ mpc \in {"probe", "loop", "dispatch", "avionics", "wait", "waiting",
              "join", "exit"}
  /\ mVersion \in Nat /\ mCommand \in Command

\* tcp_write never sleeps on an out-of-date payload: while it is inside
\* wait_for_gse_payload_change, what it sent last is still the payload the GSE
\* should be getting (low-latency updates, main.cpp:180-182).
SleepsOnlyOnCurrent ==
  "writer" \in asleep => wPayload = Current

\* recv is called only on a socket the poll saw readable and nobody else
\* drains, so the listen thread cannot block in recv.
RecvNeverBlocks ==
  /\ lpc = "pendant" /\ sawPendant => pendantSocket # NoMessage
  /\ lpc \in {"pendant", "web"} /\ sawWeb => webSocket # NoWebMessage

\* Manual control is switched on only after a pendant payload, or its
\* fallback, exists to return to when it is switched off.
ManualHasPendantBehindIt ==
  manual => pendant # Empty

\* Every step that replaces the payload the GSE should be getting is one the
\* sender is told of: the version moves and no thread is left asleep.
PayloadChangeIsAnnounced ==
  [][Current' # Current => version' > version /\ asleep' = {}]_vars

\* Whatever changed the payload (pendant, fallback, web or a mode switch),
\* tcp_write takes it to the GSE interface: only a payload that is replaced again
\* and again may be overtaken for ever.
WriterCatchesUp ==
  <>[](Current # Empty /\ wPayload # Current /\ running)
    => []<><<Current' # Current>>_vars

\* Once the pendant service is silent for good, its fallback command is what
\* stays stored, whatever it had sent before.
SilenceEndsInFallback ==
  <>[](pendantSocket = NoMessage /\ running) => <>[](pendant = Fallback)

\* A stored manual control command is obeyed unless another web command
\* replaces it, even when the pendant service never starts.
Disobeyed ==
  \/ lastCommand = "ManualOn" /\ ~manual
  \/ lastCommand = "ManualOff" /\ manual

ManualCommandIsObeyed ==
  Disobeyed ~> ~Disobeyed \/ ~running

\* After SIGINT or SIGTERM every thread returns and main joins them all.
ShutdownCompletes ==
  ~running ~> mpc = "exit"

\* The sender side implements the register of module LatestValue.
Register == INSTANCE LatestValue
  WITH Value <- Payload, cur <- Current, got <- wPayload,
       resting <- "writer" \in asleep

ImplementsRegister == Register!Spec
=============================================================================
