------------------------------ MODULE Pendant -------------------------------
(***************************************************************************)
(* pendant_daemon.py and pendant_emulator.py: a service reads a control    *)
(* device every 50 ms, sends the middleware the command it stands for (the *)
(* daemon only) and the frontend the state of the switches. PendantState   *)
(* models the command, GseLink what the middleware does with it.           *)
(*                                                                         *)
(* A control device keeps the last table it could read. A pygame device    *)
(* comes and goes with its plug; its buttons ignore a change within 50 ms  *)
(* of the last one by the wall clock, which may be set back.               *)
(***************************************************************************)
EXTENDS PendantState, Integers, Sequences

CONSTANTS
    Held,          \* the sets of switches the operator may hold
    Shown,         \* the entries of BUTTON_SEQUENCE the time may select
    ServerQueue,   \* commands the socket to the middleware holds
    Period,        \* passes between two packets for the frontend (10)
    SetBack,       \* passes for which a clock that is set back mutes buttons
    MaxEvents,     \* changes of switches, plug, clock and frontend, and faults
    None

\* BUTTON_SEQUENCE: the emulated device shows one of these for a second each.
ButtonSequence ==
    {{}, {"SYSTEM_ACTIVE"}, {"E_STOP"}}
    \cup {{"SYSTEM_ACTIVE", "FILL_MODE"} \cup s : s \in {{}, {"N2O"}, {"PURGE"}}}
    \cup {{"SYSTEM_ACTIVE", "ARMED"} \cup s :
             s \in {{}, {"O2"}, {"IGNITION"}, {"O2", "IGNITION"}}}

ASSUME HeldAssumption   == Held \subseteq SUBSET PendantInput
ASSUME ShownAssumption  == Shown \subseteq ButtonSequence
ASSUME PeriodAssumption == Period \in Nat \ {0} /\ ServerQueue \in Nat \ {0}
ASSUME LimitAssumption  == SetBack \in Nat /\ MaxEvents \in Nat

VARIABLES
    service,    \* which of the two services runs
    kind,       \* hardware.controller of config.ini
    pc,         \* where the service is
    stopping,   \* a signal arrived: time_to_stop()
    held,       \* the switches the operator holds
    plugged,    \* the instance number of the plugged controller, or 0
    removals,   \* instances whose JOYDEVICEREMOVED event was not read
    joystick,   \* the instance the device is connected to, or 0
    muted,      \* passes for which changes of the buttons are ignored
    buttons,    \* the buttons the device takes for pressed
    table,      \* its state_table
    previous,   \* the service's previous_packet
    changed,    \* change_in_pendant_data
    due,        \* passes until frontend_packet_send_timer is due
    toServer,   \* commands in the socket to the middleware
    server,     \* the last command the middleware has pulled
    listening,  \* the frontend API is subscribed
    frontend,   \* the switches it has been told of
    events      \* events so far

device == <<joystick, muted, buttons, table, removals>>
world  == <<stopping, held, plugged, listening, events>>
loop   == <<previous, changed, due>>
ends   == <<toServer, server, frontend>>
fixed  == <<service, kind>>
vars   == <<fixed, pc, device, world, loop, ends>>

-----------------------------------------------------------------------------
\* The control devices

Services == {"pendant_daemon", "pendant_emulator"}
Kinds == {"hybrid_device", "rpi_gpio_device", "f710", "emulated_device",
          "hid_device", "thrustmaster"}
Pygame == {"hybrid_device", "f710", "thrustmaster"}

\* get_control_device: what each service has registered.
Managed(s) ==
    IF s = "pendant_daemon"
    THEN {"hybrid_device", "rpi_gpio_device", "f710", "emulated_device"}
    ELSE Kinds

\* HIDDevice.__init__ fills a dictionary that no code creates. The GPIO device
\* passes a bounce time, which the Button that stands in where there is no
\* gpiozero does not take: on a Raspberry Pi, and elsewhere.
Constructible == {Kinds \ {"hid_device"}, Kinds \ {"hid_device", "rpi_gpio_device"}}

\* BUTTON_NAME_ID_MAP: the inputs a controller has.
Mapped(k) ==
    CASE k = "emulated_device" -> PendantInput \ Spare
      [] k = "f710"            -> PendantInput \ (Spare \cup {"ARMED"})
      [] OTHER                 -> PendantInput

\* _try_connect_device of a pygame device.
TryConnect == IF joystick # 0 THEN joystick ELSE plugged

\* PygameButton.update_state of every button.
UpdateState(read) == buttons' = IF muted = 0 THEN read ELSE buttons

PassTime == muted' = IF muted = 0 THEN 0 ELSE muted - 1

\* MUTANT: a device that is not connected keeps its table.
UpdatePygameStale(unread) ==
    LET connected == IF TryConnect \in removals THEN 0 ELSE TryConnect IN
    /\ kind \in Pygame
    /\ joystick' = connected
    /\ removals' = {}
    /\ IF connected # 0
       THEN /\ UpdateState((held \cap Mapped(kind)) \ unread)
            /\ table' = buttons'
       ELSE UNCHANGED <<buttons, table>>

\* A pygame device connects, reads its events and then its buttons: a button
\* that cannot be read counts as released.
UpdatePygame(unread) ==
    LET connected == IF TryConnect \in removals THEN 0 ELSE TryConnect IN
    /\ kind \in Pygame
    /\ joystick' = connected
    /\ removals' = {}
    /\ IF connected # 0
       THEN /\ UpdateState((held \cap Mapped(kind)) \ unread)
            /\ table' = buttons'
       ELSE /\ UNCHANGED buttons
            /\ table' = FallbackTable

\* The emulated device never has connection issues.
UpdateEmulated ==
    /\ kind = "emulated_device"
    /\ \E shown \in Shown : UpdateState(shown)
    /\ table' = buttons'
    /\ UNCHANGED <<joystick, removals>>

\* An exception leaves the table as it is. The GPIO device always raises one:
\* it names its inputs by strings, which PendantState refuses.
KeepTable == UNCHANGED <<joystick, buttons, table, removals>>

-----------------------------------------------------------------------------
\* The service

\* get_control_device, then the sockets: a device that is not registered or
\* cannot be constructed ends the service.
Start ==
    /\ pc = "start"
    /\ \E constructible \in Constructible :
          IF kind \in Managed(service) \cap constructible
          THEN /\ pc' = "read"
               /\ joystick' = IF kind \in Pygame THEN plugged ELSE 0
          ELSE /\ pc' = "failed"
               /\ UNCHANGED joystick
    /\ UNCHANGED <<fixed, world, loop, ends, muted, buttons, table, removals>>

\* get_pendant_states: the packet for the frontend is the whole table.
Compare ==
    /\ changed' = (previous # table')
    /\ previous' = table'

AfterRead == IF service = "pendant_daemon" THEN "push" ELSE "publish"

\* controller.get_state_table at the head of a pass.
GetStateTable ==
    /\ pc = "read" /\ ~stopping
    /\ \/ UpdatePygame({})
       \/ UpdateEmulated
       \/ kind = "rpi_gpio_device" /\ KeepTable
    /\ PassTime
    /\ Compare
    /\ pc' = AfterRead
    /\ UNCHANGED <<fixed, world, due, ends>>

\* A pass in which some buttons, or the whole device, cannot be read.
GetStateTableFails ==
    /\ pc = "read" /\ ~stopping
    /\ events < MaxEvents
    /\ events' = events + 1
    /\ \/ \E unread \in SUBSET {"SYSTEM_ACTIVE", "E_STOP"} : UpdatePygame(unread)
       \/ kind \in Pygame /\ KeepTable
    /\ PassTime
    /\ Compare
    /\ pc' = AfterRead
    /\ UNCHANGED <<fixed, stopping, held, plugged, listening, due, ends>>

\* MUTANT: a command is pushed only when the switches changed.
PushToServerOnChange ==
    /\ pc = "push"
    /\ toServer' = IF changed /\ Len(toServer) < ServerQueue
                   THEN Append(toServer, Command(table)) ELSE toServer
    /\ pc' = "publish"
    /\ UNCHANGED <<fixed, world, device, loop, server, frontend>>

\* gse_packet_send_timer lasts as long as a pass sleeps, so that it is due in
\* every pass. zmq.NOBLOCK: a command that does not fit is lost.
PushToServer ==
    /\ pc = "push"
    /\ toServer' = IF Len(toServer) < ServerQueue
                   THEN Append(toServer, Command(table)) ELSE toServer
    /\ pc' = "publish"
    /\ UNCHANGED <<fixed, world, device, loop, server, frontend>>

Due == due = 0 \/ changed

\* The pass is over, and with it change_in_pendant_data.
EndPass ==
    /\ pc = "publish"
    /\ due' = IF due = 0 THEN Period - 1 ELSE due - 1
    /\ changed' = FALSE
    /\ pc' = "read"

\* The PUB socket drops what it sends while nobody is subscribed.
PublishToFrontend ==
    /\ EndPass
    /\ frontend' = IF Due /\ listening THEN table ELSE frontend
    /\ UNCHANGED <<fixed, world, device, previous, toServer, server>>

\* SNDHWM is 1: it also drops what a slow subscriber has no room for.
PublishIsDropped ==
    /\ EndPass /\ Due /\ listening
    /\ events < MaxEvents
    /\ events' = events + 1
    /\ UNCHANGED <<fixed, stopping, held, plugged, listening, device, previous, ends>>

\* time_to_stop: the sockets are closed after their linger time.
Stop ==
    /\ pc = "read" /\ stopping
    /\ pc' = "stopped"
    /\ UNCHANGED <<fixed, world, device, loop, ends>>

-----------------------------------------------------------------------------
\* Around the service

Pull ==
    /\ toServer # <<>>
    /\ server' = Head(toServer)
    /\ toServer' = Tail(toServer)
    /\ UNCHANGED <<fixed, pc, world, device, loop, frontend>>

Subscribe ==
    /\ ~listening
    /\ listening' = TRUE
    /\ UNCHANGED <<fixed, pc, device, loop, ends, stopping, held, plugged, events>>

Event(change) ==
    /\ events < MaxEvents
    /\ events' = events + 1
    /\ change
    /\ UNCHANGED <<fixed, pc, loop, toServer, server, joystick, buttons, table>>

Signal == stopping' = TRUE
          /\ UNCHANGED <<held, plugged, listening, removals, muted, frontend>>
Switch == held' \in Held \ {held}
          /\ UNCHANGED <<stopping, plugged, listening, removals, muted, frontend>>
Unplug == /\ plugged # 0
          /\ plugged' = 0
          /\ removals' = IF pc = "start" THEN {} ELSE removals \cup {plugged}
          /\ UNCHANGED <<stopping, held, listening, muted, frontend>>
Plug   == /\ plugged = 0
          /\ plugged' = events + 2
          /\ UNCHANGED <<stopping, held, listening, removals, muted, frontend>>
SetClockBack == muted' = muted + SetBack
          /\ UNCHANGED <<stopping, held, plugged, listening, removals, frontend>>
RestartFrontend == /\ listening
          /\ listening' = FALSE
          /\ frontend' = None
          /\ UNCHANGED <<stopping, held, plugged, removals, muted>>

-----------------------------------------------------------------------------
\* Buttons are made just before the first pass, which may still be within the
\* 50 ms in which they do not change.
Init ==
    /\ service \in Services
    /\ kind \in Kinds
    /\ pc = "start"
    /\ stopping = FALSE
    /\ held \in Held
    /\ plugged \in {0, 1}
    /\ removals = {}
    /\ joystick = 0
    /\ muted \in {0, 1}
    /\ buttons = {}
    /\ table = FallbackTable
    /\ previous = None
    /\ changed = FALSE
    /\ due = 0
    /\ toServer = <<>>
    /\ server = None
    /\ listening = FALSE
    /\ frontend = None
    /\ events = 0

Service == Start \/ GetStateTable \/ GetStateTableFails \/ PushToServer
           \/ PublishToFrontend \/ PublishIsDropped \/ Stop

Next ==
    \/ Service \/ Pull \/ Subscribe
    \/ Event(Signal) \/ Event(Switch) \/ Event(Unplug) \/ Event(Plug)
    \/ Event(SetClockBack) \/ Event(RestartFrontend)

Spec == Init /\ [][Next]_vars

FairSpec == Spec /\ WF_vars(Service) /\ WF_vars(Pull) /\ WF_vars(Subscribe)

-----------------------------------------------------------------------------
\* Properties

States == SUBSET PendantInput
Commands == SUBSET (GSEState \ Spare)

TypeOK ==
    /\ service \in Services /\ kind \in Kinds
    /\ pc \in {"start", "read", "push", "publish", "stopped", "failed"}
    /\ stopping \in BOOLEAN /\ changed \in BOOLEAN /\ listening \in BOOLEAN
    /\ held \in Held /\ buttons \in States /\ table \in States
    /\ plugged \in Nat /\ joystick \in Nat /\ removals \subseteq Nat
    /\ muted \in Nat /\ due \in 0..(Period - 1)
    /\ previous \in States \cup {None} /\ frontend \in States \cup {None}
    /\ toServer \in Seq(Commands) /\ Len(toServer) <= ServerQueue
    /\ server \in Commands \cup {None}
    /\ events \in 0..MaxEvents

\* Whatever the operator holds and whatever the device reads, no command on
\* its way to the middleware or pulled by it asks for what the interlocks
\* forbid.
CommandsAreInterlocked ==
    /\ \A i \in DOMAIN toServer : Interlocked(toServer[i])
    /\ server # None => Interlocked(server)

\* Once the controller stays unplugged, the middleware ends up with the
\* fallback command and keeps it, however full the socket was and whatever the
\* buttons showed last.
UnpluggedFallsBack ==
    (<>[](plugged = 0 /\ kind \in Pygame /\ pc \in {"read", "push", "publish"}))
    => (service = "pendant_daemon" => <>[](server = Command(FallbackTable)))

Steady(h) == held = h /\ plugged # 0 /\ kind \in Pygame
             /\ pc \in {"read", "push", "publish"}

\* Switches that stay as they are get to the middleware and to the frontend,
\* though a packet for either may be lost in a full socket, a clock set back, a
\* button misread and the controller plugged in again on the way, and though
\* the frontend may have subscribed after the last change.
HeldIsObeyed ==
    \A h \in Held :
        (<>[]Steady(h)) =>
            /\ service = "pendant_daemon" =>
                   <>[](server = Command(h \cap Mapped(kind)))
            /\ <>[](frontend = h \cap Mapped(kind))
=============================================================================
