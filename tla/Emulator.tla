------------------------------ MODULE Emulator ------------------------------
(***************************************************************************)
(* device_emulator.py: the main thread stands in for the avionics, writing *)
(* packets to the fake serial device while the middleware's lock file says *)
(* that it listens; a server thread stands in for LabVIEW, publishing a    *)
(* new row of sensor values for the threads that serve its clients.        *)
(*                                                                         *)
(* The lock file (AvSequence models its owner), the reader of the device   *)
(* and the TCP clients are the environment.  The two halves share only the *)
(* stop flag and the end of the process, so a behaviour gives work to one  *)
(* of them: the middleware listens, or clients connect.                    *)
(***************************************************************************)
EXTENDS AvPackets, FiniteSets

CONSTANTS
    Clients,        \* TCP clients of the sensor server
    Phases,         \* the phases at which waves are sampled
    Experimental,   \* the option --experimental
    CorruptFields,  \* the fields that bits are flipped in; none without --corruption
    Uart,           \* the interface is TEST_UART_E5 and not TEST
    Room,           \* packets the device holds before a write blocks
    MaxVersion,     \* rows published
    MaxTurns,       \* times the lock file appears
    MaxFaults       \* failures of the device, the port or a client

ASSUME PhasesAssumption == Phases \subseteq -Steps..Steps
ASSUME EmulatorBounds ==
    /\ Room \in Nat \ {0} /\ MaxVersion \in Nat /\ MaxTurns \in Nat
    /\ MaxFaults \in Nat /\ Experimental \in BOOLEAN /\ Uart \in BOOLEAN

VARIABLES
    focus,      \* the half of the emulator that has work
    running,    \* service_helper's flag: no signal so far
    main,       \* where the main thread is
    batch,      \* the packets of this round still to be looked at
    device,     \* packets written and not read
    lock,       \* the lock file of the avionics exists
    turns,      \* times it appeared
    late,       \* packets written since it went
    server,     \* where the server thread is
    version,    \* labview_data_version, which stands for the row as well
    serving,    \* where the thread of each client is
    taken,      \* the row each of those threads took last
    arrived,    \* the row that came last to each client
    peer,       \* what each client does
    faults

vars == <<focus, running, main, batch, device, lock, turns, late, server, version,
          serving, taken, arrived, peer, faults>>
avionics == <<main, batch, device, late>>
sensors  == <<server, version, serving, taken, arrived>>
world    == <<focus, running, lock, turns, peer, faults>>

-----------------------------------------------------------------------------
\* The main thread

\* A round: every packet is sampled, corrupted and encoded before the first is
\* written.  A value the encoders refuse ends the thread, and only that thread.
Packets ==
    [phase \in Phases |->
        [i \in 1..3 |-> [id |-> i + 2,
                         arguments |-> Arguments(i + 2, phase, Experimental)]]]
Flips(packets, i, name) ==
    {[packets EXCEPT ![i].arguments[name] = value] :
        value \in Corrupted(name, packets[i].arguments[name])}
Flipped(packets) ==
    {packets} \cup
    UNION {UNION {Flips(packets, i, name) :
                     name \in CorruptFields \cap DOMAIN packets[i].arguments} :
              i \in 1..3}

MakePackets ==
    /\ main = "make" /\ running /\ focus = "avionics"
    /\ \E phase \in Phases : \E packets \in Flipped(Packets[phase]) :
          IF \A i \in 1..3 : Encodable(packets[i].arguments)
          THEN main' = "send" /\ batch' = packets
          ELSE main' = "died" /\ UNCHANGED batch
    /\ UNCHANGED <<device, late, sensors, world>>

LookForLockOnce ==                \* MUTANT: only before the first of a round
    /\ main = "send" /\ batch # <<>>
    /\ main' = IF lock \/ Len(batch) < 3 THEN "write" ELSE "send"
    /\ batch' = IF lock \/ Len(batch) < 3 THEN batch ELSE Tail(batch)
    /\ UNCHANGED <<device, late, sensors, world>>

\* The next packet is written only if the lock file exists when it is looked for.
LookForLock ==
    /\ main = "send" /\ batch # <<>>
    /\ main' = IF lock THEN "write" ELSE "send"
    /\ batch' = IF lock THEN batch ELSE Tail(batch)
    /\ UNCHANGED <<device, late, sensors, world>>

\* Random packet loss skips a packet before the lock is looked for.
LosePacket ==
    /\ main = "send" /\ batch # <<>>
    /\ batch' = Tail(batch)
    /\ UNCHANGED <<main, device, late, sensors, world>>

WritePacket ==
    /\ main = "write" /\ Len(device) < Room
    /\ device' = Append(device, Head(batch))
    /\ late' = IF lock THEN 0 ELSE late + 1
    /\ batch' = Tail(batch)
    /\ main' = "send"
    /\ UNCHANGED <<sensors, world>>

\* The device is gone: write_payload logs the error and raises it again.
WriteFails ==
    /\ main = "write" /\ faults < MaxFaults
    /\ main' = "died" /\ batch' = <<>>
    /\ faults' = faults + 1
    /\ UNCHANGED <<focus, device, late, sensors, running, lock, turns, peer>>

\* The round is over; time_to_stop is asked only here.
EndRound ==
    /\ main = "send" /\ batch = <<>>
    /\ main' = "make"
    /\ UNCHANGED <<batch, device, late, sensors, world>>

JoinServer ==
    /\ main = "make" /\ ~running
    /\ main' = "join"
    /\ UNCHANGED <<batch, device, late, sensors, world>>

\* The process ends with its last thread, whether main ended or died.
Exit ==
    /\ main \in {"join", "died"} /\ server = "ended"
    /\ main' = "exited"
    /\ UNCHANGED <<batch, device, late, sensors, world>>

-----------------------------------------------------------------------------
\* The sensor server and the threads of its clients

BindFails ==
    /\ server = "bind" /\ faults < MaxFaults
    /\ server' = "ended" /\ faults' = faults + 1
    /\ UNCHANGED <<focus, avionics, version, serving, taken, arrived, running, lock,
                   turns, peer>>

Bind ==
    /\ server = "bind"
    /\ server' = "publish"
    /\ UNCHANGED <<avionics, version, serving, taken, arrived, world>>

Publish ==
    /\ server = "publish" /\ running
    /\ focus = "sensors" /\ version < MaxVersion
    /\ version' = version + 1
    /\ server' = "accept"
    /\ UNCHANGED <<avionics, serving, taken, arrived, world>>

\* Every client that waits is accepted, then the next row is due.
Accept(c) ==
    /\ server = "accept" /\ running
    /\ peer[c] = "connecting"
    /\ peer' = [peer EXCEPT ![c] = "reading"]
    /\ serving' = [serving EXCEPT ![c] = "wait"]
    /\ UNCHANGED <<focus, avionics, server, version, taken, arrived, running, lock,
                   turns, faults>>

AcceptNone ==
    /\ server = "accept"
    /\ \A c \in Clients : peer[c] # "connecting"
    /\ server' = "publish"
    /\ UNCHANGED <<avionics, version, serving, taken, arrived, world>>

\* The server wakes the waiting threads and closes, then joins every thread.
CloseServer ==
    /\ server \in {"publish", "accept"} /\ ~running
    /\ server' = "join"
    /\ peer' = [c \in Clients |-> IF peer[c] = "connecting" THEN "gone"
                                  ELSE peer[c]]
    /\ UNCHANGED <<focus, avionics, version, serving, taken, arrived, running, lock,
                   turns, faults>>

JoinClients ==
    /\ server = "join"
    /\ \A c \in Clients : serving[c] \in {"none", "ended"}
    /\ server' = "ended"
    /\ UNCHANGED <<avionics, version, serving, taken, arrived, world>>

TakeNextRow(c) ==                 \* MUTANT: only the row after the one taken last
    /\ serving[c] = "wait" /\ running
    /\ version = taken[c] + 1
    /\ taken' = [taken EXCEPT ![c] = version]
    /\ serving' = [serving EXCEPT ![c] = "send"]
    /\ UNCHANGED <<avionics, server, version, arrived, world>>

\* wait_new_labview_payload: a newer row, or the end; the timeout of a second
\* makes up for a notification that was missed.
TakeRow(c) ==
    /\ serving[c] = "wait" /\ running
    /\ version > taken[c]
    /\ taken' = [taken EXCEPT ![c] = version]
    /\ serving' = [serving EXCEPT ![c] = "send"]
    /\ UNCHANGED <<avionics, server, version, arrived, world>>

\* sendall has no timeout: a client that stopped reading holds its thread.
SendRow(c) ==
    /\ serving[c] = "send"
    /\ CASE peer[c] = "reading" ->
               /\ serving' = [serving EXCEPT ![c] = "wait"]
               /\ arrived' = [arrived EXCEPT ![c] = taken[c]]
         [] peer[c] = "gone" ->
               /\ serving' = [serving EXCEPT ![c] = "ended"]
               /\ UNCHANGED arrived
         [] OTHER -> FALSE
    /\ UNCHANGED <<avionics, server, version, taken, world>>

StopServingOnNewRow(c) ==         \* MUTANT: the end is noticed with the next row only
    /\ serving[c] = "wait" /\ ~running /\ version > taken[c]
    /\ serving' = [serving EXCEPT ![c] = "ended"]
    /\ UNCHANGED <<avionics, server, version, taken, arrived, world>>

StopServing(c) ==
    /\ serving[c] = "wait" /\ ~running
    /\ serving' = [serving EXCEPT ![c] = "ended"]
    /\ UNCHANGED <<avionics, server, version, taken, arrived, world>>

-----------------------------------------------------------------------------
\* The environment

Listen ==
    /\ focus = "avionics" /\ ~lock /\ turns < MaxTurns
    /\ lock' = TRUE /\ turns' = turns + 1 /\ late' = 0
    /\ UNCHANGED <<focus, main, batch, device, sensors, running, peer, faults>>

StopListening ==
    /\ lock /\ lock' = FALSE
    /\ UNCHANGED <<focus, avionics, sensors, running, turns, peer, faults>>

Read ==
    /\ device # <<>>
    /\ device' = <<>>
    /\ UNCHANGED <<main, batch, late, sensors, world>>

Connect(c) ==
    /\ focus = "sensors" /\ peer[c] = "none" /\ server \in {"publish", "accept"}
    /\ peer' = [peer EXCEPT ![c] = "connecting"]
    /\ UNCHANGED <<focus, avionics, sensors, running, lock, turns, faults>>

\* A client stalls, goes on reading or leaves.
Behave(c) ==
    /\ peer[c] \in {"reading", "stalled"} /\ faults < MaxFaults
    /\ \E how \in {"stalled", "gone"} \ {peer[c]} :
          peer' = [peer EXCEPT ![c] = how]
    /\ faults' = faults + 1
    /\ UNCHANGED <<focus, avionics, sensors, running, lock, turns>>

Signal ==
    /\ running /\ running' = FALSE
    /\ UNCHANGED <<focus, avionics, sensors, lock, turns, peer, faults>>

-----------------------------------------------------------------------------
Init ==
    /\ focus \in {"avionics", "sensors"}
    /\ running = TRUE
    /\ main = "make" /\ batch = <<>> /\ device = <<>>
    /\ lock = FALSE /\ turns = 0 /\ late = 0
    /\ server = "bind" /\ version = 0
    /\ serving = [c \in Clients |-> "none"]
    /\ taken = [c \in Clients |-> -1]
    /\ arrived = [c \in Clients |-> 0]
    /\ peer = [c \in Clients |-> "none"]
    /\ faults = 0

Main == \/ MakePackets \/ LookForLock \/ LosePacket \/ WritePacket
        \/ WriteFails \/ EndRound \/ JoinServer \/ Exit
Server == \/ Bind \/ BindFails \/ Publish \/ AcceptNone \/ CloseServer
          \/ JoinClients \/ \E c \in Clients : Accept(c)
Serve(c) == TakeRow(c) \/ SendRow(c) \/ StopServing(c)
World == \/ Listen \/ StopListening \/ Read \/ Signal
         \/ \E c \in Clients : Connect(c) \/ Behave(c)

Next == Main \/ Server \/ World \/ \E c \in Clients : Serve(c)

Spec == Init /\ [][Next]_vars

\* Every thread goes on running, and the middleware goes on reading.
FairSpec == /\ Spec
            /\ WF_vars(Main) /\ WF_vars(Server) /\ WF_vars(Read)
            /\ \A c \in Clients : WF_vars(Serve(c))

-----------------------------------------------------------------------------
\* Properties

\* Types; the row a thread took was published, and the row a client got was
\* taken by its thread.
TypeOK ==
    /\ focus \in {"avionics", "sensors"}
    /\ running \in BOOLEAN /\ lock \in BOOLEAN
    /\ main \in {"make", "send", "write", "join", "died", "exited"}
    /\ server \in {"bind", "publish", "accept", "join", "ended"}
    /\ Len(batch) <= 3 /\ Len(device) <= Room
    /\ turns \in 0..MaxTurns /\ faults \in 0..MaxFaults
    /\ version \in 0..MaxVersion /\ late \in Nat
    /\ \A c \in Clients :
          /\ serving[c] \in {"none", "wait", "send", "ended"}
          /\ peer[c] \in {"none", "connecting", "reading", "stalled", "gone"}
          /\ taken[c] \in -1..version
          /\ arrived[c] <= Max({taken[c], 0})

\* One quotient is so many times another one.
IsTimes(quotient, factor, other) ==
    quotient[1] * other[2] = factor * other[1] * quotient[2]

\* What a member says of the argument it comes from.  Accelerations and turn
\* rates have the sign they were meant to have on every axis, but the low range
\* reads twice what was meant.  A quaternion stays a share of the range.  The last
\* two flight states are one.
SaysOf(name, member, argument) ==
    CASE name \in Range(ShortNames) ->
            IsTimes(member,
                    IF name \in {"accel_low_x", "accel_low_y", "accel_low_z"} THEN 2 ELSE 1,
                    <<argument, UnitsSent(name)>>)
      [] name \in Range(QuaternionNames) -> member = <<argument, QuaternionUnits>>
      [] name = "flight_state" -> member = FlightStateNames[IF argument = 7 THEN 7
                                                            ELSE argument + 1]
      [] name \in {"rssi", "snr"} /\ Uart -> member - argument \in -1..1
      [] OTHER -> member = argument

\* What the middleware's parser makes of a packet in the device says what the
\* emulator was to send, by the scales above: no field is shifted, swapped or
\* cut, no axis is turned round, in either form (the text form rounds the signal
\* quality by less than a unit), but for the flight state of the second packet,
\* which is not read.
ParsedIsSent ==
    \A i \in DOMAIN device :
        LET id   == device[i].id
            sent == device[i].arguments
            got  == Parsed(id, IF Uart THEN WireUart(id, sent) ELSE Wire(id, sent))
        IN  /\ DOMAIN got = DOMAIN sent
                              \ (IF id = 4 THEN {"flight_state"} ELSE {})
            /\ \A n \in DOMAIN got : SaysOf(n, got[n], sent[n])

\* The lock file is looked for and the packet is written in two steps: when
\* the middleware stops listening in between, one packet is late, never two.
OneIsLate == late <= 1

\* A client's thread never sends it a row it has, or an older one: the wait
\* ends with a newer row only, also when the notification came early or late.
RowsAreSentOnce ==
    [][\A c \in Clients :
          (serving[c] = "send" /\ serving'[c] = "wait") => arrived'[c] > arrived[c]]_vars

\* A client that goes on reading gets the newest row, for as long as the
\* service runs: rows published while its thread was sending are not missed.
NewestArrives ==
    \A c \in Clients :
        peer[c] = "reading" ~> \/ arrived[c] = MaxVersion
                               \/ peer[c] # "reading" \/ ~running

\* After a signal every thread ends and the process with them, whatever the
\* main thread died of before, unless a client has stopped reading.
StopEndsAll ==
    ~running ~> \/ main = "exited"
                \/ \E c \in Clients : peer[c] = "stalled" /\ serving[c] = "send"

=============================================================================
