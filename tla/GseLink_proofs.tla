---------------------------- MODULE GseLink_proofs ----------------------------
(***************************************************************************)
(* Proofs about GseLink for every set of payloads, every fallback age and  *)
(* any number of messages.                                                 *)
(***************************************************************************)
EXTENDS GseLink, TLAPS

\* Why the sender may rest.  Its version is never ahead of the shared one; as
\* long as the two agree nothing has replaced the payload it fetched; and it is
\* in the wait set only inside wait_for, with a version that is still the
\* shared one, because every change empties the wait set.
WriterInv ==
  /\ wVersion <= version
  /\ wpc # "start" /\ wVersion = version => wPayload = Current
  /\ "writer" \in asleep => wpc = "waiting" /\ wVersion = version

\* A pendant payload, once there is one, is never taken away again, and main
\* looks at commands only when it has seen one.
PendantInv == manual \/ mpc = "dispatch" => pendant # Empty

IInv == TypeOK /\ RecvNeverBlocks /\ WriterInv /\ PendantInv

-----------------------------------------------------------------------------

LEMMA CurrentType == TypeOK => Current \in Payload
  BY DEF TypeOK, Current, Payload

\* What the two kinds of web message carry.
LEMMA WebMessageType ==
  ASSUME NEW m \in WebMessage
  PROVE  m.cmd \in Command /\ m.body \in ManualBody \cup {Empty}
  BY DEF WebMessage, Command

LEMMA NoWebMessageApart == NoWebMessage \notin WebMessage
  BY DEF WebMessage, NoWebMessage

\* What a step of the shared state does to the version and the wait set.
LEMMA NotifyEffect ==
  ASSUME TypeOK, NotifyIfChanged
  PROVE  /\ version' \in Nat
         /\ asleep' \subseteq {"writer", "main"}
         /\ version <= version'
         /\ Current' # Current => version' = version + 1 /\ asleep' = {}
         /\ Current' = Current => version' = version /\ asleep' = asleep
  <1>1. version \in Nat /\ asleep \subseteq {"writer", "main"}
    BY DEF TypeOK
  <1>2. ASSUME Current' = Current
        PROVE  version' = version /\ asleep' = asleep
    BY <1>2 DEF NotifyIfChanged
  <1>3. ASSUME Current' # Current
        PROVE  version' = version + 1 /\ asleep' = {}
    BY <1>3 DEF NotifyIfChanged
  <1>4. version <= version' /\ version' \in Nat
    BY <1>1, <1>2, <1>3
  <1>5. asleep' \subseteq {"writer", "main"}
    BY <1>1, <1>2, <1>3
  <1> QED
    BY <1>2, <1>3, <1>4, <1>5

\* Waiting leaves everything else alone.
LEMMA StartWaitEffect ==
  ASSUME NEW t \in {"writer", "main"}, NEW seen, TypeOK, StartWait(t, seen)
  PROVE  /\ asleep' \subseteq {"writer", "main"}
         /\ asleep' \subseteq asleep \cup {t}
         /\ t \in asleep' => version = seen \/ t \in asleep
  BY DEF TypeOK, StartWait

-----------------------------------------------------------------------------

LEMMA InitInv == Init => IInv
  <1> SUFFICES ASSUME Init PROVE IInv
    OBVIOUS
  <1>1. TypeOK
    <2>1. /\ manual \in BOOLEAN /\ camera \in BOOLEAN /\ running \in BOOLEAN
          /\ sawPendant \in BOOLEAN /\ sawWeb \in BOOLEAN
      BY Zenon DEF Init
    <2>2. messages \in 0..MaxMessages /\ age \in 0..FallbackAge /\ version \in Nat
          /\ wVersion \in Nat /\ mVersion \in Nat
      BY ConstantsAssumption DEF Init
    <2>3. /\ webSocket = NoWebMessage /\ pendantSocket = NoMessage
          /\ pendant = Empty /\ web = Empty /\ wPayload = Empty /\ asleep = {}
          /\ lastCommand = "Unknown" /\ mCommand = "Unknown"
          /\ lpc = "poll" /\ wpc = "start" /\ mpc = "probe"
          /\ apc \in {"none", "read"}
      BY DEF Init
    <2> QED
      BY <2>1, <2>2, <2>3, ConstantsAssumption DEF TypeOK, Command, Payload
  <1>2. RecvNeverBlocks /\ WriterInv /\ PendantInv
    BY DEF Init, RecvNeverBlocks, WriterInv, PendantInv
  <1> QED
    BY <1>1, <1>2 DEF IInv

\* Variables keep the types the code gives them.  The one step that needs more
\* is ListenPendant: it stores what it received, which is a payload only
\* because the socket was not empty.
LEMMA TypeStep == TypeOK /\ RecvNeverBlocks /\ [Next]_vars => TypeOK'
  <1> SUFFICES ASSUME TypeOK, RecvNeverBlocks, [Next]_vars PROVE TypeOK'
    OBVIOUS
  <1>1. CASE PendantSends
    <2>1. messages' \in 0..MaxMessages /\ pendantSocket' \in PendantPayload \cup {NoMessage}
      BY <1>1, ConstantsAssumption DEF PendantSends, TypeOK
    <2> QED
      BY <1>1, <2>1 DEF PendantSends, TypeOK, stored, listen, writer, mains
  <1>2. CASE WebSends
    <2>1. messages' \in 0..MaxMessages /\ webSocket' \in WebMessage \cup {NoWebMessage}
      BY <1>2, ConstantsAssumption DEF WebSends, TypeOK
    <2> QED
      BY <1>2, <2>1 DEF WebSends, TypeOK, stored, listen, writer, mains
  <1>3. CASE Tick
    <2>1. age' \in 0..FallbackAge
      BY <1>3, ConstantsAssumption DEF Tick, TypeOK
    <2> QED
      BY <1>3, <2>1 DEF Tick, TypeOK, sockets, listen, writer, mains
  <1>4. CASE Signal
    <2>1. running' \in BOOLEAN
      BY <1>4, Zenon DEF Signal
    <2> QED
      BY <1>4, <2>1 DEF Signal, TypeOK, sockets, stored, listen, writer, mains
  <1>5. CASE ListenPoll
    <2>1. sawPendant' \in BOOLEAN /\ sawWeb' \in BOOLEAN
      BY <1>5 DEF ListenPoll
    <2> QED
      BY <1>5, <2>1 DEF ListenPoll, TypeOK, sockets, stored, writer, mains
  <1>6. CASE ListenPendant
    <2>1. NotifyIfChanged
      BY <1>6 DEF ListenPendant, SetPendantReceived, PendantNoData, NoData
    <2>2. version' \in Nat /\ asleep' \subseteq {"writer", "main"}
      BY <2>1, NotifyEffect
    <2>3. pendant' \in PendantPayload \cup {Fallback, Empty}
      <3>1. CASE sawPendant
        BY <1>6, <3>1 DEF ListenPendant, SetPendantReceived, TypeOK, RecvNeverBlocks
      <3>2. CASE ~sawPendant
        BY <1>6, <3>2 DEF ListenPendant, PendantNoData, NoData, TypeOK
      <3> QED
        BY <3>1, <3>2
    <2>4. pendantSocket' \in PendantPayload \cup {NoMessage}
      BY <1>6 DEF ListenPendant, TypeOK
    <2>5. age' \in 0..FallbackAge
      <3>1. age' = 0 \/ age' = age
        BY <1>6 DEF ListenPendant, SetPendantReceived, PendantNoData, NoData
      <3> QED
        BY <3>1, ConstantsAssumption DEF TypeOK
    <2>6. /\ UNCHANGED <<web, lastCommand, manual>>
          /\ sawPendant' = FALSE /\ lpc' = "web"
          /\ UNCHANGED <<webSocket, messages, camera, running, sawWeb, writer, mains, apc>>
      BY <1>6 DEF ListenPendant, SetPendantReceived, PendantNoData, NoData
    <2>7. sawPendant' \in BOOLEAN
      BY <2>6, Zenon
    <2> QED
      BY <2>2, <2>3, <2>4, <2>5, <2>6, <2>7 DEF TypeOK, writer, mains
  <1>7. CASE ListenWeb
    <2>1. CASE sawWeb
      <3>1. webSocket \in WebMessage
        BY <1>7, <2>1 DEF ListenWeb, RecvNeverBlocks, TypeOK
      <3>2. SetWebsocketReceived(webSocket) /\ webSocket' = NoWebMessage
        BY <1>7, <2>1 DEF ListenWeb
      <3>3. NotifyIfChanged /\ UNCHANGED <<pendant, age, manual>>
        BY <3>2 DEF SetWebsocketReceived
      <3>4. version' \in Nat /\ asleep' \subseteq {"writer", "main"}
        BY <3>3, NotifyEffect
      <3>5. web' \in ManualBody \cup {Empty} /\ lastCommand' \in Command
        <4>1. webSocket.cmd \in Command /\ webSocket.body \in ManualBody \cup {Empty}
          BY <3>1, WebMessageType
        <4>2. web' = webSocket.body /\ lastCommand' = webSocket.cmd
          BY <3>2 DEF SetWebsocketReceived
        <4> QED
          BY <4>1, <4>2
      <3>6. /\ sawWeb' = FALSE /\ lpc' = "poll"
            /\ UNCHANGED <<pendantSocket, messages, camera, running, sawPendant,
                           writer, mains, apc>>
        BY <1>7 DEF ListenWeb
      <3>7. webSocket' \in WebMessage \cup {NoWebMessage} /\ sawWeb' \in BOOLEAN
        BY <3>2, <3>6
      <3> QED
        BY <3>3, <3>4, <3>5, <3>6, <3>7 DEF TypeOK, writer, mains
    <2>2. CASE ~sawWeb
      <3>1. sawWeb' = FALSE /\ lpc' = "poll"
        BY <1>7 DEF ListenWeb
      <3>2. sawWeb' \in BOOLEAN
        BY <3>1, Zenon
      <3>3. /\ UNCHANGED <<webSocket, stored, manual, version, asleep>>
            /\ UNCHANGED <<pendantSocket, messages, camera, running, sawPendant,
                           writer, mains, apc>>
        BY <1>7, <2>2 DEF ListenWeb
      <3> QED
        BY <3>1, <3>2, <3>3 DEF TypeOK, stored, writer, mains
    <2> QED
      BY <2>1, <2>2
  <1>8. CASE ListenStop
    BY <1>8 DEF ListenStop, TypeOK, sockets, stored, writer, mains
  <1>9. CASE WriterSnapshot
    BY <1>9, CurrentType DEF WriterSnapshot, TypeOK, sockets, stored, listen, mains
  <1>10. CASE WriterWait
    BY <1>10 DEF WriterWait, StartWait, TypeOK, sockets, stored, listen, mains
  <1>11. CASE WriterWake
    BY <1>11 DEF WriterWake, TypeOK, sockets, stored, listen, mains
  <1>12. CASE WriterStop
    BY <1>12 DEF WriterStop, TypeOK, sockets, stored, listen, mains
  <1>13. CASE MainProbe
    BY <1>13 DEF MainProbe, TypeOK, sockets, stored, listen, writer
  <1>14. CASE MainSnapshot
    <2>1. mCommand' \in Command /\ mpc' \in {"wait", "dispatch"}
      BY <1>14 DEF MainSnapshot, TypeOK, Command
    <2> QED
      BY <1>14, <2>1 DEF MainSnapshot, TypeOK, sockets, stored, listen, writer
  <1>15. CASE MainDispatch
    <2>1. version' \in Nat /\ asleep' \subseteq {"writer", "main"}
      BY <1>15, NotifyEffect DEF MainDispatch, SetManualControlMode, TypeOK
    <2>2. UNCHANGED stored /\ manual' \in BOOLEAN /\ camera' \in BOOLEAN
      BY <1>15 DEF MainDispatch, SetManualControlMode, TypeOK
    <2>3. /\ mpc' \in {"avionics", "wait"} /\ mCommand' \in Command
          /\ UNCHANGED <<sockets, running, listen, writer, mVersion, apc>>
      BY <1>15 DEF MainDispatch, Command
    <2> QED
      BY <2>1, <2>2, <2>3 DEF TypeOK, sockets, stored, listen, writer
  <1>16. CASE MainAvionics
    BY <1>16 DEF MainAvionics, TypeOK, sockets, stored, listen, writer
  <1>17. CASE MainWait
    BY <1>17 DEF MainWait, StartWait, TypeOK, sockets, stored, listen, writer
  <1>18. CASE MainWake
    BY <1>18 DEF MainWake, TypeOK, sockets, stored, listen, writer
  <1>19. CASE MainStop
    BY <1>19 DEF MainStop, TypeOK, sockets, stored, listen, writer
  <1>20. CASE MainJoin
    BY <1>20 DEF MainJoin, TypeOK, sockets, stored, listen, writer
  <1>21. CASE AvReaderStop
    BY <1>21 DEF AvReaderStop, TypeOK, sockets, stored, listen, writer, mains
  <1>22. CASE UNCHANGED vars
    BY <1>22 DEF vars, sockets, stored, listen, writer, mains, TypeOK
  <1> QED
    BY <1>1, <1>2, <1>3, <1>4, <1>5, <1>6, <1>7, <1>8, <1>9, <1>10, <1>11, <1>12,
       <1>13, <1>14, <1>15, <1>16, <1>17, <1>18, <1>19, <1>20, <1>21, <1>22
    DEF Next, Listen, Writer, Main, Exited

-----------------------------------------------------------------------------

\* Only the listen thread empties a socket, so what its poll saw is still there
\* when it receives.
LEMMA RecvStep == TypeOK /\ RecvNeverBlocks /\ [Next]_vars => RecvNeverBlocks'
  <1> SUFFICES ASSUME TypeOK, RecvNeverBlocks, [Next]_vars PROVE RecvNeverBlocks'
    OBVIOUS
  <1>1. CASE PendantSends
    BY <1>1, ConstantsAssumption DEF PendantSends, RecvNeverBlocks, listen
  <1>2. CASE WebSends
    BY <1>2, NoWebMessageApart DEF WebSends, RecvNeverBlocks, listen
  <1>3. CASE ListenPoll
    BY <1>3 DEF ListenPoll, RecvNeverBlocks, sockets
  <1>4. CASE ListenPendant
    BY <1>4 DEF ListenPendant, RecvNeverBlocks
  <1>5. CASE ListenWeb
    BY <1>5 DEF ListenWeb, RecvNeverBlocks
  <1>6. CASE ListenStop
    BY <1>6 DEF ListenStop, RecvNeverBlocks, sockets
  <1>7. CASE UNCHANGED <<pendantSocket, webSocket, listen>>
    BY <1>7 DEF RecvNeverBlocks, listen
  <1>8. CASE Tick \/ Signal \/ AvReaderStop
    BY <1>7, <1>8 DEF Tick, Signal, AvReaderStop, sockets
  <1>9. CASE Writer
    BY <1>7, <1>9 DEF Writer, WriterSnapshot, WriterWait, WriterWake, WriterStop, sockets
  <1>10. CASE Main
    BY <1>7, <1>10 DEF Main, MainProbe, MainSnapshot, MainDispatch, MainAvionics,
                       MainWait, MainWake, MainStop, MainJoin, sockets
  <1>11. CASE UNCHANGED vars
    BY <1>7, <1>11 DEF vars, sockets
  <1> QED
    BY <1>1, <1>2, <1>3, <1>4, <1>5, <1>6, <1>8, <1>9, <1>10, <1>11
    DEF Next, Listen, Exited

\* The payload the GSE should be getting and its version move only together, in
\* the three methods of the shared state.
LEMMA SharedStep ==
  ASSUME [Next]_vars
  PROVE  \/ NotifyIfChanged /\ UNCHANGED writer
         \/ UNCHANGED <<pendant, web, manual, version>>
  <1> USE DEF stored
  <1>1. CASE PendantSends \/ WebSends \/ Tick \/ Signal \/ AvReaderStop
    BY <1>1 DEF PendantSends, WebSends, Tick, Signal, AvReaderStop
  <1>2. CASE Listen
    BY <1>2 DEF Listen, ListenPoll, ListenPendant, ListenWeb, ListenStop,
                SetPendantReceived, PendantNoData, NoData, SetWebsocketReceived
  <1>3. CASE Writer
    BY <1>3 DEF Writer, WriterSnapshot, WriterWait, WriterWake, WriterStop
  <1>4. CASE MainDispatch
    BY <1>4 DEF MainDispatch, SetManualControlMode
  <1>5. CASE Main /\ ~MainDispatch
    BY <1>5 DEF Main, MainProbe, MainSnapshot, MainAvionics, MainWait, MainWake,
                MainStop, MainJoin
  <1>6. CASE UNCHANGED vars
    BY <1>6 DEF vars
  <1> QED
    BY <1>1, <1>2, <1>3, <1>4, <1>5, <1>6 DEF Next, Exited

LEMMA CurrentFrame == UNCHANGED <<pendant, web, manual>> => Current' = Current
  BY DEF Current

\* A change of the payload makes the sender's version old and wakes it; any
\* other step of the other threads leaves what the sender relies on alone.
LEMMA WriterStep == TypeOK /\ WriterInv /\ [Next]_vars => WriterInv'
  <1> SUFFICES ASSUME TypeOK, WriterInv, [Next]_vars PROVE WriterInv'
    OBVIOUS
  <1>0. version \in Nat /\ wVersion \in Nat
    BY DEF TypeOK
  <1>1. CASE NotifyIfChanged /\ UNCHANGED writer
    <2>1. UNCHANGED <<wpc, wPayload, wVersion>>
      BY <1>1 DEF writer
    <2>2. CASE Current' = Current
      <3>1. version' = version /\ asleep' = asleep
        BY <1>1, <2>2, NotifyEffect
      <3> QED
        BY <2>1, <2>2, <3>1 DEF WriterInv
    <2>3. CASE Current' # Current
      <3>1. version' = version + 1 /\ asleep' = {}
        BY <1>1, <2>3, NotifyEffect
      <3> QED
        BY <1>0, <2>1, <3>1 DEF WriterInv
    <2> QED
      BY <2>2, <2>3
  <1>2. CASE UNCHANGED <<pendant, web, manual, version>>
    <2>0. Current' = Current
      BY <1>2, CurrentFrame
    <2>1. ASSUME UNCHANGED writer, asleep' \subseteq asleep \cup {"main"}
          PROVE  WriterInv'
      BY <1>2, <2>0, <2>1 DEF WriterInv, writer
    <2>2. CASE PendantSends \/ WebSends \/ Tick \/ Signal \/ AvReaderStop
      BY <2>1, <2>2 DEF PendantSends, WebSends, Tick, Signal, AvReaderStop
    <2>3. CASE Listen
      <3>1. UNCHANGED writer
        BY <2>3 DEF Listen, ListenPoll, ListenPendant, ListenWeb, ListenStop
      <3>2. asleep' = asleep
        BY <1>2, <2>0, <2>3
        DEF Listen, ListenPoll, ListenPendant, ListenWeb, ListenStop,
            SetPendantReceived, PendantNoData, NoData, SetWebsocketReceived, NotifyIfChanged
      <3> QED
        BY <2>1, <3>1, <3>2
    <2>4. CASE WriterSnapshot
      BY <1>0, <1>2, <2>0, <2>4 DEF WriterSnapshot, WriterInv
    <2>5. CASE WriterWait
      BY <1>2, <2>0, <2>5, StartWaitEffect DEF WriterWait, WriterInv
    <2>6. CASE WriterWake
      BY <1>2, <2>0, <2>6 DEF WriterWake, WriterInv
    <2>7. CASE WriterStop
      BY <1>2, <2>0, <2>7 DEF WriterStop, WriterInv
    <2>8. CASE Main
      <3>1. UNCHANGED writer
        BY <2>8 DEF Main, MainProbe, MainSnapshot, MainDispatch, MainAvionics,
                    MainWait, MainWake, MainStop, MainJoin
      <3>2. CASE MainDispatch
        BY <2>0, <2>1, <3>1, <3>2 DEF MainDispatch, SetManualControlMode, NotifyIfChanged
      <3>3. CASE MainWait
        BY <2>1, <3>1, <3>3, StartWaitEffect DEF MainWait
      <3>4. CASE ~MainDispatch /\ ~MainWait
        BY <2>1, <2>8, <3>1, <3>4
        DEF Main, MainProbe, MainSnapshot, MainAvionics, MainWake, MainStop, MainJoin
      <3> QED
        BY <3>2, <3>3, <3>4
    <2>9. CASE UNCHANGED vars
      BY <2>1, <2>9 DEF vars
    <2> QED
      BY <2>2, <2>3, <2>4, <2>5, <2>6, <2>7, <2>8, <2>9 DEF Next, Writer, Exited
  <1> QED
    BY <1>1, <1>2, SharedStep

\* Nothing stores an empty pendant payload over another one, and main switches
\* modes only after it has seen a pendant payload.
LEMMA PendantStep ==
  TypeOK /\ RecvNeverBlocks /\ PendantInv /\ [Next]_vars => PendantInv'
  <1> SUFFICES ASSUME TypeOK, RecvNeverBlocks, PendantInv, [Next]_vars
               PROVE  PendantInv'
    OBVIOUS
  <1>1. CASE ListenPendant
    <2>1. pendant' = Empty => pendant = Empty
      <3>1. CASE sawPendant
        <4>1. pendantSocket \in PendantPayload
          BY <1>1, <3>1 DEF ListenPendant, RecvNeverBlocks, TypeOK
        <4> QED
          BY <1>1, <3>1, <4>1, ConstantsAssumption DEF ListenPendant, SetPendantReceived
      <3>2. CASE ~sawPendant
        BY <1>1, <3>2, ConstantsAssumption DEF ListenPendant, PendantNoData, NoData
      <3> QED
        BY <3>1, <3>2
    <2>2. UNCHANGED <<manual, mpc>>
      BY <1>1 DEF ListenPendant, SetPendantReceived, PendantNoData, NoData, mains
    <2> QED
      BY <2>1, <2>2 DEF PendantInv
  <1>2. CASE ListenPoll \/ ListenWeb \/ ListenStop
    BY <1>2 DEF ListenPoll, ListenWeb, ListenStop, SetWebsocketReceived, PendantInv,
                stored, mains
  <1>3. CASE MainSnapshot
    BY <1>3 DEF MainSnapshot, PendantInv, stored
  <1>4. CASE MainDispatch
    BY <1>4 DEF MainDispatch, SetManualControlMode, PendantInv, stored
  <1>5. CASE Main /\ ~MainSnapshot /\ ~MainDispatch
    BY <1>5 DEF Main, MainProbe, MainAvionics, MainWait, MainWake, MainStop, MainJoin,
                PendantInv, stored
  <1>6. CASE Writer
    BY <1>6 DEF Writer, WriterSnapshot, WriterWait, WriterWake, WriterStop,
                PendantInv, stored, mains
  <1>7. CASE PendantSends \/ WebSends \/ Tick \/ Signal \/ AvReaderStop
    BY <1>7 DEF PendantSends, WebSends, Tick, Signal, AvReaderStop, PendantInv, stored, mains
  <1>8. CASE UNCHANGED vars
    BY <1>8 DEF vars, PendantInv, stored, mains
  <1> QED
    BY <1>1, <1>2, <1>3, <1>4, <1>5, <1>6, <1>7, <1>8 DEF Next, Listen, Exited

LEMMA InductiveStep == IInv /\ [Next]_vars => IInv'
  BY TypeStep, RecvStep, WriterStep, PendantStep DEF IInv

\* The inductive invariant holds in every reachable state.
LEMMA Invariance == Spec => []IInv
  BY InitInv, InductiveStep, PTL DEF Spec

-----------------------------------------------------------------------------

\* Every variable of the command path keeps its type (server_listen_loop stores
\* a real payload only because its receive never finds an empty socket).
THEOREM TypeCorrect == Spec => []TypeOK
  BY Invariance, PTL DEF IInv

\* server_listen_loop never calls recv on an empty socket.
THEOREM ReceivesWithoutBlocking == Spec => []RecvNeverBlocks
  BY Invariance, PTL DEF IInv

\* set_manual_control_mode(true) happens only over a stored pendant payload.
THEOREM ManualIsBacked == Spec => []ManualHasPendantBehindIt
  <1>1. IInv => ManualHasPendantBehindIt
    BY DEF IInv, PendantInv, ManualHasPendantBehindIt
  <1> QED
    BY <1>1, Invariance, PTL

\* While tcp_write waits for a change it has already sent the current payload.
THEOREM RestsOnCurrent == Spec => []SleepsOnlyOnCurrent
  <1>1. IInv => SleepsOnlyOnCurrent
    BY DEF IInv, WriterInv, SleepsOnlyOnCurrent
  <1> QED
    BY <1>1, Invariance, PTL

LEMMA AnnouncedStep ==
  IInv /\ [Next]_vars => [Current' # Current => version' > version /\ asleep' = {}]_vars
  <1> SUFFICES ASSUME IInv, [Next]_vars, Current' # Current
               PROVE  version' > version /\ asleep' = {}
    OBVIOUS
  <1>1. NotifyIfChanged
    BY SharedStep, CurrentFrame
  <1>2. version' = version + 1 /\ asleep' = {}
    BY <1>1, NotifyEffect DEF IInv
  <1> QED
    BY <1>2 DEF IInv, TypeOK

\* Whatever step changes the payload for the GSE, it moves the version and
\* empties the wait set (notify_if_gse_payload_changed_locked_).
THEOREM ChangesAreAnnounced == Spec => PayloadChangeIsAnnounced
  BY Invariance, AnnouncedStep, PTL DEF Spec, PayloadChangeIsAnnounced

-----------------------------------------------------------------------------

\* The initial payload of the register is the empty one, already fetched.
LEMMA RegisterInit == Init => Register!Init
  <1> SUFFICES ASSUME Init PROVE Register!Init
    OBVIOUS
  <1>1. Current = Empty /\ wPayload = Empty /\ asleep = {}
    BY DEF Init, Current
  <1> QED
    BY <1>1 DEF Register!Init, Payload

\* Every step of the threads is a step of the register or leaves it alone.
LEMMA RegisterStep == IInv /\ IInv' /\ [Next]_vars => [Register!Next]_(Register!vars)
  <1> SUFFICES ASSUME IInv, IInv', [Next]_vars
               PROVE  Register!Next \/ UNCHANGED Register!vars
    OBVIOUS
  <1>1. CASE Current' # Current
    <2>1. NotifyIfChanged /\ UNCHANGED writer
      BY <1>1, SharedStep, CurrentFrame
    <2>2. asleep' = {}
      BY <1>1, <2>1, NotifyEffect DEF IInv
    <2>3. Current' \in Payload \ {Current}
      BY <1>1, CurrentType DEF IInv, TypeOK, Current, Payload
    <2>4. Register!Publish
      BY <2>1, <2>2, <2>3 DEF Register!Publish, writer
    <2> QED
      BY <2>4 DEF Register!Next
  <1>2. CASE Current' = Current
    <2>1. CASE WriterSnapshot
      <3>1. "writer" \notin asleep /\ asleep' = asleep
        BY <2>1 DEF IInv, WriterInv, WriterSnapshot
      <3>2. Register!Fetch
        BY <1>2, <2>1, <3>1 DEF Register!Fetch, WriterSnapshot
      <3> QED
        BY <3>2 DEF Register!Next
    <2>2. CASE UNCHANGED wPayload
      <3>1. CASE "writer" \in asleep <=> "writer" \in asleep'
        BY <1>2, <2>2, <3>1 DEF Register!vars
      <3>2. CASE "writer" \notin asleep /\ "writer" \in asleep'
        <4>1. WriterInv'
          BY DEF IInv
        <4>2. wPayload' = Current'
          BY <3>2, <4>1 DEF WriterInv
        <4>3. Register!Rest
          BY <1>2, <2>2, <3>2, <4>2 DEF Register!Rest
        <4> QED
          BY <4>3 DEF Register!Next
      <3>3. CASE "writer" \in asleep /\ "writer" \notin asleep'
        BY <1>2, <2>2, <3>3 DEF Register!Next, Register!Heartbeat
      <3> QED
        BY <3>1, <3>2, <3>3
    <2>3. WriterSnapshot \/ UNCHANGED wPayload
      <3>1. CASE Writer
        BY <3>1 DEF Writer, WriterSnapshot, WriterWait, WriterWake, WriterStop
      <3>2. CASE Main
        BY <3>2 DEF Main, MainProbe, MainSnapshot, MainDispatch, MainAvionics,
                    MainWait, MainWake, MainStop, MainJoin, writer
      <3>3. CASE Listen
        BY <3>3 DEF Listen, ListenPoll, ListenPendant, ListenWeb, ListenStop, writer
      <3>4. CASE PendantSends \/ WebSends \/ Tick \/ Signal \/ AvReaderStop \/ UNCHANGED vars
        BY <3>4 DEF PendantSends, WebSends, Tick, Signal, AvReaderStop, vars, writer
      <3> QED
        BY <3>1, <3>2, <3>3, <3>4 DEF Next, Exited
    <2> QED
      BY <2>1, <2>2, <2>3
  <1> QED
    BY <1>1, <1>2

\* SharedGcsState, its condition variable and tcp_write implement the register
\* of module LatestValue.
THEOREM Refinement == Spec => ImplementsRegister
  BY Invariance, RegisterInit, RegisterStep, PTL DEF Spec, ImplementsRegister, Register!Spec
=============================================================================
