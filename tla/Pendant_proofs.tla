--------------------------- MODULE Pendant_proofs ---------------------------
(***************************************************************************)
(* Proofs about PendantState and Pendant: no setting of the switches, and  *)
(* no history of the service, makes a command the interlocks forbid.       *)
(***************************************************************************)
EXTENDS Pendant, TLAPS

\* The conditions of the states that the interlocks speak of.
LEMMA ConditionsOf ==
    /\ Conditions["SYS_ON"] = When({"SYSTEM_ACTIVE"}, {"E_STOP"}, {})
    /\ Conditions["FILL_SELECTED"] =
          When({"SYSTEM_ACTIVE", "FILL_MODE"}, {"E_STOP"}, Firing)
    /\ Conditions["IGNITION_SELECTED"] =
          When({"SYSTEM_ACTIVE", "ARMED"}, {"E_STOP"}, Filling)
    /\ Conditions["N2O_ACTIVE"] =
          When({"SYSTEM_ACTIVE", "FILL_MODE", "N2O"}, {"E_STOP"},
               Firing \cup {"PURGE"})
    /\ Conditions["NEUTRAL_ACTIVE"] =
          When({"SYSTEM_ACTIVE", "FILL_MODE"}, {"E_STOP", "N2O", "PURGE"}, Firing)
    /\ Conditions["PURGE_ACTIVE"] =
          When({"SYSTEM_ACTIVE", "FILL_MODE", "PURGE"}, {"E_STOP"},
               Firing \cup {"N2O"})
    /\ Conditions["O2_MOMENT_ACTIVE"] =
          When({"SYSTEM_ACTIVE", "ARMED", "O2"}, {"E_STOP"}, Filling)
    /\ Conditions["IGNITION_MOMENT_ACTIVE"] =
          When({"SYSTEM_ACTIVE", "ARMED", "IGNITION"}, {"E_STOP"}, Filling)
  BY DEF Conditions

\* A command is made of the states whose condition holds, and of SYS_ON alone
\* when one of those comes with a switch that makes no sense.
LEMMA CommandIs ==
    ASSUME NEW pressed
    PROVE  /\ Impossible(pressed) => Command(pressed) = {"SYS_ON"}
           /\ ~Impossible(pressed) =>
                /\ Command(pressed) = {s \in GSEState \ Spare : IsTrue(s, pressed)}
                /\ \A s \in Command(pressed) :
                      Conditions[s].nonsense \cap pressed = {}
  BY DEF Command, GseStates, Impossible, GSEState, Spare

\* PendantState.get_gse_states_dict: every command is interlocked, whatever is
\* pressed.
THEOREM EveryCommandIsInterlocked ==
    ASSUME NEW pressed
    PROVE  Interlocked(Command(pressed))
<1> DEFINE C == Command(pressed)
<1>1. CASE Impossible(pressed)
  <2>1. C = {"SYS_ON"}
    BY <1>1, CommandIs
  <2> QED
    BY <2>1 DEF Interlocked
<1>2. CASE ~Impossible(pressed)
  <2>1. \A s \in C : /\ IsTrue(s, pressed)
                     /\ Conditions[s].nonsense \cap pressed = {}
    BY <1>2, CommandIs
  <2>2. \A s \in GSEState \ Spare : IsTrue(s, pressed) => s \in C
    BY <1>2, CommandIs
  <2>3. \A s \in C : s \in GSEState \ Spare
    BY <1>2, CommandIs
  <2> HIDE DEF C
  <2>4. ~({"FILL_SELECTED", "IGNITION_SELECTED"} \subseteq C)
    BY <2>1, ConditionsOf DEF IsTrue, When, Firing, Filling
  <2>5. ~({"N2O_ACTIVE", "NEUTRAL_ACTIVE"} \subseteq C)
    BY <2>1, ConditionsOf DEF IsTrue, When
  <2>6. ~({"N2O_ACTIVE", "PURGE_ACTIVE"} \subseteq C)
    BY <2>1, ConditionsOf DEF IsTrue, When
  <2>7. ~({"NEUTRAL_ACTIVE", "PURGE_ACTIVE"} \subseteq C)
    BY <2>1, ConditionsOf DEF IsTrue, When
  <2>8. ASSUME NEW s \in {"N2O_ACTIVE", "NEUTRAL_ACTIVE", "PURGE_ACTIVE"}, s \in C
        PROVE  "FILL_SELECTED" \in C
    <3>1. /\ {"SYSTEM_ACTIVE", "FILL_MODE"} \subseteq pressed
          /\ "E_STOP" \notin pressed
      BY <2>1, <2>8, ConditionsOf DEF IsTrue, When
    <3>2. IsTrue("FILL_SELECTED", pressed)
      BY <3>1, ConditionsOf DEF IsTrue, When
    <3> QED
      BY <3>2, <2>2 DEF GSEState, Spare
  <2>9. ASSUME NEW s \in {"O2_MOMENT_ACTIVE", "IGNITION_MOMENT_ACTIVE"}, s \in C
        PROVE  "IGNITION_SELECTED" \in C
    <3>1. /\ {"SYSTEM_ACTIVE", "ARMED"} \subseteq pressed
          /\ "E_STOP" \notin pressed
      BY <2>1, <2>9, ConditionsOf DEF IsTrue, When
    <3>2. IsTrue("IGNITION_SELECTED", pressed)
      BY <3>1, ConditionsOf DEF IsTrue, When
    <3> QED
      BY <3>2, <2>2 DEF GSEState, Spare
  <2>10. ASSUME NEW s \in C
         PROVE  "SYS_ON" \in C
    <3>1. s \in GSEState \ Spare /\ IsTrue(s, pressed)
      BY <2>1, <2>3, <2>10
    <3>2. "SYSTEM_ACTIVE" \in pressed /\ "E_STOP" \notin pressed
      BY <3>1, ConditionsOf DEF IsTrue, When, GSEState, Spare
    <3>3. IsTrue("SYS_ON", pressed)
      BY <3>2, ConditionsOf DEF IsTrue, When
    <3> QED
      BY <3>3, <2>2 DEF GSEState, Spare
  <2>11. Interlocked(C)
    BY <2>4, <2>5, <2>6, <2>7, <2>8, <2>9, <2>10 DEF Interlocked
  <2> QED
    BY <2>11 DEF C
<1> QED
  BY <1>1, <1>2

-----------------------------------------------------------------------------
\* Type correctness: with the tables in PendantInput and a queue that keeps to
\* its size, every command is one the packet can encode.

LEMMA SwitchesAreInputs ==
    /\ \A h \in Held : \A u : (h \cap Mapped(kind)) \ u \in States
    /\ \A s \in Shown : s \in States
    /\ FallbackTable \in States
<1>1. ButtonSequence \subseteq States
  BY DEF ButtonSequence, States, PendantInput
<1> QED
  BY <1>1, HeldAssumption, ShownAssumption DEF States, FallbackTable

LEMMA CommandsAreCommands ==
    ASSUME NEW pressed
    PROVE  Command(pressed) \in Commands
  BY DEF Command, GseStates, Commands, GSEState, Spare

LEMMA TypeInit == Init => TypeOK
<1> SUFFICES ASSUME Init PROVE TypeOK
  OBVIOUS
<1>1. 0 \in 0..(Period - 1) /\ 0 \in 0..MaxEvents
  BY PeriodAssumption, LimitAssumption
<1>2. table \in States /\ buttons \in States
  BY DEF Init, States, FallbackTable
<1>3. toServer \in Seq(Commands) /\ Len(toServer) <= ServerQueue
  BY PeriodAssumption DEF Init
<1>4. stopping \in BOOLEAN /\ changed \in BOOLEAN /\ listening \in BOOLEAN
  BY Zenon DEF Init
<1>5. plugged \in Nat /\ joystick \in Nat /\ removals \subseteq Nat /\ muted \in Nat
  BY DEF Init
<1> QED
  BY <1>1, <1>2, <1>3, <1>4, <1>5 DEF Init, TypeOK

\* A pass makes tables of inputs, however the device is read.
LEMMA ReadKeepsTypes ==
    ASSUME TypeOK,
           \/ \E u \in SUBSET {"SYSTEM_ACTIVE", "E_STOP"} : UpdatePygame(u)
           \/ UpdateEmulated
           \/ KeepTable
    PROVE  /\ buttons' \in States /\ table' \in States
           /\ joystick' \in Nat /\ removals' \subseteq Nat
<1>1. ASSUME NEW u \in SUBSET {"SYSTEM_ACTIVE", "E_STOP"}, UpdatePygame(u)
      PROVE  /\ buttons' \in States /\ table' \in States
             /\ joystick' \in Nat /\ removals' \subseteq Nat
  <2>1. TryConnect \in Nat
    BY DEF TypeOK, TryConnect
  <2>2. joystick' \in Nat /\ removals' \subseteq Nat
    BY <1>1, <2>1 DEF UpdatePygame
  <2>3. buttons' \in States
    BY <1>1, SwitchesAreInputs DEF UpdatePygame, UpdateState, TypeOK
  <2>4. table' \in States
    BY <1>1, <2>3, SwitchesAreInputs DEF UpdatePygame
  <2> QED
    BY <2>2, <2>3, <2>4
<1>2. ASSUME UpdateEmulated
      PROVE  /\ buttons' \in States /\ table' \in States
             /\ joystick' \in Nat /\ removals' \subseteq Nat
  <2>1. buttons' \in States
    BY <1>2, SwitchesAreInputs DEF UpdateEmulated, UpdateState, TypeOK
  <2> QED
    BY <1>2, <2>1 DEF UpdateEmulated, TypeOK
<1>3. ASSUME KeepTable
      PROVE  /\ buttons' \in States /\ table' \in States
             /\ joystick' \in Nat /\ removals' \subseteq Nat
  BY <1>3 DEF KeepTable, TypeOK
<1> QED
  BY <1>1, <1>2, <1>3

LEMMA PassKeepsTypes ==
    ASSUME TypeOK, PassTime, Compare, table' \in States
    PROVE  muted' \in Nat /\ changed' \in BOOLEAN /\ previous' \in States \cup {None}
<1>1. muted' \in Nat
  BY DEF TypeOK, PassTime
<1>2. changed' \in BOOLEAN
  BY Zenon DEF Compare
<1>3. previous' \in States \cup {None}
  BY DEF Compare
<1> QED
  BY <1>1, <1>2, <1>3

LEMMA TypeStep == TypeOK /\ [Next]_vars => TypeOK'
<1> SUFFICES ASSUME TypeOK, [Next]_vars PROVE TypeOK'
  OBVIOUS
<1> USE PeriodAssumption, LimitAssumption
<1>1. CASE Start
  BY <1>1 DEF Start, TypeOK, fixed, world, loop, ends
<1>2. CASE GetStateTable
  <2>1. /\ buttons' \in States /\ table' \in States
        /\ joystick' \in Nat /\ removals' \subseteq Nat
    BY <1>2, ReadKeepsTypes DEF GetStateTable
  <2>2. muted' \in Nat /\ changed' \in BOOLEAN /\ previous' \in States \cup {None}
    BY <1>2, <2>1, PassKeepsTypes DEF GetStateTable
  <2> QED
    BY <1>2, <2>1, <2>2 DEF GetStateTable, AfterRead, TypeOK, fixed, world, ends
<1>3. CASE GetStateTableFails
  <2>1. /\ buttons' \in States /\ table' \in States
        /\ joystick' \in Nat /\ removals' \subseteq Nat
    BY <1>3, ReadKeepsTypes DEF GetStateTableFails
  <2>2. muted' \in Nat /\ changed' \in BOOLEAN /\ previous' \in States \cup {None}
    BY <1>3, <2>1, PassKeepsTypes DEF GetStateTableFails
  <2>3. events' \in 0..MaxEvents
    BY <1>3 DEF GetStateTableFails, TypeOK
  <2> QED
    BY <1>3, <2>1, <2>2, <2>3
    DEF GetStateTableFails, AfterRead, TypeOK, fixed, ends
<1>4. CASE PushToServer
  <2>1. toServer' \in Seq(Commands) /\ Len(toServer') <= ServerQueue
    BY <1>4, CommandsAreCommands DEF PushToServer, TypeOK
  <2> QED
    BY <1>4, <2>1 DEF PushToServer, TypeOK, fixed, world, device, loop
<1>5. CASE PublishToFrontend
  <2>1. due' \in 0..(Period - 1)
    BY <1>5 DEF PublishToFrontend, EndPass, TypeOK
  <2>2. frontend' \in States \cup {None}
    BY <1>5 DEF PublishToFrontend, TypeOK
  <2> QED
    BY <1>5, <2>1, <2>2 DEF PublishToFrontend, EndPass, TypeOK, fixed, world, device
<1>11. CASE PublishIsDropped
  <2>1. due' \in 0..(Period - 1)
    BY <1>11 DEF PublishIsDropped, EndPass, TypeOK
  <2>2. events' \in 0..MaxEvents
    BY <1>11 DEF PublishIsDropped, TypeOK
  <2> QED
    BY <1>11, <2>1, <2>2 DEF PublishIsDropped, EndPass, TypeOK, fixed, device, ends
<1>6. CASE Stop
  BY <1>6 DEF Stop, TypeOK, fixed, world, device, loop, ends
<1>7. CASE Pull
  <2>1. /\ server' \in Commands
        /\ toServer' \in Seq(Commands) /\ Len(toServer') <= ServerQueue
    BY <1>7 DEF Pull, TypeOK
  <2> QED
    BY <1>7, <2>1 DEF Pull, TypeOK, fixed, world, device, loop
<1>8. CASE Subscribe
  BY <1>8 DEF Subscribe, TypeOK, fixed, device, loop, ends
<1>9. ASSUME \/ Event(Signal) \/ Event(Switch) \/ Event(Unplug) \/ Event(Plug)
             \/ Event(SetClockBack) \/ Event(RestartFrontend)
      PROVE  TypeOK'
  <2>1. CASE Event(Signal)
    BY <2>1 DEF Event, Signal, TypeOK, fixed, loop
  <2>2. CASE Event(Switch)
    BY <2>2 DEF Event, Switch, TypeOK, fixed, loop
  <2>3. CASE Event(Unplug)
    <3>1. plugged' \in Nat /\ removals' \subseteq Nat
      BY <2>3 DEF Event, Unplug, TypeOK
    <3>2. stopping' \in BOOLEAN /\ changed' \in BOOLEAN /\ listening' \in BOOLEAN
      BY <2>3, Zenon DEF Event, Unplug, TypeOK, loop
    <3> QED
      BY <2>3, <3>1, <3>2 DEF Event, Unplug, TypeOK, fixed, loop
  <2>4. CASE Event(Plug)
    BY <2>4 DEF Event, Plug, TypeOK, fixed, loop
  <2>5. CASE Event(SetClockBack)
    BY <2>5 DEF Event, SetClockBack, TypeOK, fixed, loop
  <2>6. CASE Event(RestartFrontend)
    <3>1. stopping' \in BOOLEAN /\ changed' \in BOOLEAN /\ listening' \in BOOLEAN
      BY <2>6, Zenon DEF Event, RestartFrontend, TypeOK, loop
    <3> QED
      BY <2>6, <3>1 DEF Event, RestartFrontend, TypeOK, fixed, loop
  <2> QED
    BY <1>9, <2>1, <2>2, <2>3, <2>4, <2>5, <2>6
<1>10. CASE UNCHANGED vars
  BY <1>10 DEF vars, fixed, device, world, loop, ends, TypeOK
<1> QED
  BY <1>1, <1>2, <1>3, <1>4, <1>5, <1>6, <1>7, <1>8, <1>9, <1>10, <1>11 DEF Next, Service

\* The pendant service and its sockets keep their types, for every set of
\* switches, queue size, period and number of events.
THEOREM TypeCorrect == Spec => []TypeOK
  BY TypeInit, TypeStep, PTL DEF Spec

-----------------------------------------------------------------------------
\* The interlocks. A command enters the queue when it is made and leaves it
\* for the middleware; nothing else touches either.

LEMMA InterlockStep ==
    TypeOK /\ CommandsAreInterlocked /\ [Next]_vars => CommandsAreInterlocked'
<1> SUFFICES ASSUME TypeOK, CommandsAreInterlocked, [Next]_vars
             PROVE  CommandsAreInterlocked'
  OBVIOUS
<1>1. CASE PushToServer
  <2>1. /\ UNCHANGED server
        /\ toServer' = toServer \/ toServer' = Append(toServer, Command(table))
    BY <1>1 DEF PushToServer
  <2>2. ASSUME NEW i \in DOMAIN toServer'
        PROVE  Interlocked(toServer'[i])
    <3>1. toServer \in Seq(Commands)
      BY DEF TypeOK
    <3>2. \/ i \in DOMAIN toServer /\ toServer'[i] = toServer[i]
          \/ toServer'[i] = Command(table)
      BY <2>1, <3>1
    <3> QED
      BY <3>2, EveryCommandIsInterlocked DEF CommandsAreInterlocked
  <2> QED
    BY <2>1, <2>2 DEF CommandsAreInterlocked
<1>2. CASE Pull
  <2>1. toServer \in Seq(Commands) /\ toServer # <<>>
    BY <1>2 DEF TypeOK, Pull
  <2>2. Interlocked(server')
    BY <1>2, <2>1 DEF Pull, CommandsAreInterlocked
  <2>3. ASSUME NEW i \in DOMAIN toServer'
        PROVE  Interlocked(toServer'[i])
    <3>1. i + 1 \in DOMAIN toServer /\ toServer'[i] = toServer[i + 1]
      BY <1>2, <2>1 DEF Pull
    <3> QED
      BY <3>1 DEF CommandsAreInterlocked
  <2> QED
    BY <2>2, <2>3 DEF CommandsAreInterlocked
<1>3. ASSUME UNCHANGED <<toServer, server>>
      PROVE  CommandsAreInterlocked'
  BY <1>3 DEF CommandsAreInterlocked
<1>4. CASE \/ Start \/ GetStateTable \/ GetStateTableFails \/ PublishToFrontend
           \/ PublishIsDropped \/ Stop
  BY <1>3, <1>4 DEF Start, GetStateTable, GetStateTableFails, PublishToFrontend,
                    PublishIsDropped, Stop, ends
<1>5. CASE \/ Subscribe \/ Event(Signal) \/ Event(Switch) \/ Event(Unplug)
           \/ Event(Plug) \/ Event(SetClockBack) \/ Event(RestartFrontend)
  BY <1>3, <1>5 DEF Subscribe, Event, ends
<1>6. CASE UNCHANGED vars
  BY <1>3, <1>6 DEF vars, ends
<1> QED
  BY <1>1, <1>2, <1>4, <1>5, <1>6 DEF Next, Service

\* No command on its way to the middleware, nor any it has pulled, asks for
\* what the interlocks forbid, for every set of switches the operator may hold
\* and every history of the device.
THEOREM Interlocks == Spec => []CommandsAreInterlocked
<1>1. Init => CommandsAreInterlocked
  BY DEF Init, CommandsAreInterlocked
<1> QED
  BY <1>1, InterlockStep, TypeCorrect, PTL DEF Spec
=============================================================================
