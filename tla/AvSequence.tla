------------------------------ MODULE AvSequence ------------------------------
(***************************************************************************)
(* The exchange with the avionics (AV): the main thread transmits a        *)
(* command, locks AvSequenceLock and waits; the reader thread takes what   *)
(* the radio received, unlocks and moves the shared AvSequence.            *)
(*                                                                         *)
(* AvSequenceLock is a mutex, an atomic flag and a time stamp that are     *)
(* never accessed together, and the fields of AvSequence are plain members *)
(* of an object two threads share, so each access is a step of its own.    *)
(* The mutex is locked by main and unlocked by either thread, held or not: *)
(* undefined by the standard, on the platforms the project builds for it   *)
(* leaves the mutex free.  The radio link and the AV itself are external:  *)
(* packets get lost, garbled or delayed past the timeout.                  *)
(***************************************************************************)
EXTENDS Integers

CONSTANTS
  LockTimeout,  \* SEQUENCE_LOCK_TIMEOUT, in ticks
  NoPacket      \* an empty receiver

\* Flight states the sequence tells apart: everything before LAUNCH, LAUNCH,
\* and COAST to LANDED.
Flight == {"GROUND", "LAUNCH", "FLYING"}

\* AV_TO_GCS_DATA_1 carries a byte for the broadcast flag, which may be neither
\* of the two that are known; DATA_2 and DATA_3 do not.  A garbled packet has an
\* AV ID but does not parse.
Type == {"DATA_1", "DATA_2", "DATA_3", "GARBLED"}
Packet ==
  {p \in [type : Type, flight : Flight, broadcast : {"no", "yes", "unknown"}] :
     /\ p.type # "DATA_1" => p.broadcast = "no"
     /\ p.type = "GARBLED" => p.flight = "GROUND"}

\* What the parser may make of a packet: it never sets the flight state of a
\* DATA_2, which is whatever was in the memory of the new object.
Parsed(p) ==
  IF p.type = "DATA_2" THEN {[p EXCEPT !.flight = f] : f \in Flight} ELSE {p}

\* What broadcast_flag() may return.  An unknown byte leaves it unset as well.
BroadcastFlag(p) ==
  CASE p.broadcast = "no"      -> {FALSE}
    [] p.broadcast = "yes"     -> {TRUE}
    [] p.broadcast = "unknown" -> BOOLEAN

ASSUME ConstantsAssumption ==
  /\ LockTimeout \in Nat \ {0}
  /\ NoPacket \notin Packet

\* The difference to the initial TimePoint::min() overflows to a negative
\* duration: it never exceeds the timeout.
NeverLocked == -1

VARIABLES
  mtxHeld, isLocked,               \* av_write_lock_: mutex and flag
  elapsed,                         \* ticks since last_lock_time_, capped
  state, startSending, received,   \* AvSequence
  mpc, avBroadcast,                \* main
  rpc, packet,                     \* input_read_loop
  downlink,                        \* packet waiting in the receiver
  flight, owed, told,              \* AV: flight state, owes a reply, was told to broadcast
  answered                         \* history: received_av called since the last awaited command

lock     == <<mtxHeld, isLocked, elapsed>>
sequence == <<state, startSending, received>>
main     == <<mpc, avBroadcast>>
reader   == <<rpc, packet>>
av       == <<flight, owed, told>>
vars == <<lock, sequence, main, reader, downlink, av, answered>>

Expired == elapsed > LockTimeout

Init ==
  /\ mtxHeld = FALSE /\ isLocked = FALSE /\ elapsed = NeverLocked
  /\ state = "PRE_LAUNCH" /\ startSending = FALSE /\ received = FALSE
  /\ mpc = "loop" /\ avBroadcast = FALSE
  /\ rpc = "read" /\ packet = NoPacket
  /\ downlink = NoPacket
  /\ flight = "GROUND" /\ owed = FALSE /\ told = FALSE
  /\ answered = FALSE

-----------------------------------------------------------------------------
(* The AV and the radio link (external) *)

\* The rocket flies.
AvFlies ==
  /\ \/ flight = "GROUND" /\ flight' = "LAUNCH"
     \/ flight = "LAUNCH" /\ flight' = "FLYING"
  /\ UNCHANGED <<lock, sequence, main, reader, downlink, owed, told, answered>>

\* It answers the command it heard; once told to broadcast it also transmits
\* unasked, with the flag set.  One packet at a time is in the receiver or in
\* the hands of the reader.
Transmits(type, broadcast) ==
  /\ owed \/ told
  /\ downlink = NoPacket /\ packet = NoPacket
  /\ downlink' = [type |-> type, broadcast |-> broadcast,
                  flight |-> IF type = "GARBLED" THEN "GROUND" ELSE flight]
  /\ owed' = FALSE
  /\ UNCHANGED <<lock, sequence, main, reader, flight, told, answered>>

AvTransmits(type) ==
  Transmits(type, IF told /\ type = "DATA_1" THEN "yes" ELSE "no")

\* A DATA_1 whose byte for the flag is neither of the two.
AvTransmitsUnknown == Transmits("DATA_1", "unknown")

\* Its reply is lost on the way.
LinkLoses ==
  /\ owed
  /\ owed' = FALSE
  /\ UNCHANGED <<lock, sequence, main, reader, downlink, flight, told, answered>>

Tick ==
  /\ elapsed # NeverLocked /\ ~Expired
  /\ elapsed' = elapsed + 1
  /\ UNCHANGED <<mtxHeld, isLocked, sequence, main, reader, downlink, av, answered>>

Av == AvFlies \/ (\E type \in Type : AvTransmits(type)) \/ AvTransmitsUnknown \/ LinkLoses

-----------------------------------------------------------------------------
(* main *)

\* MUTANT: the broadcast command is not conditional on the flight.
MainLoopAlwaysBroadcasts ==
  /\ mpc = "loop"
  /\ avBroadcast' = ~received
  /\ mpc' = "switch"
  /\ UNCHANGED <<lock, sequence, reader, downlink, av, answered>>

\* av_broadcast.  Both flags only ever go from false to true, so reading them
\* one after the other gives what reading them together can give.
MainLoop ==
  /\ mpc = "loop"
  /\ avBroadcast' = (startSending /\ ~received)
  /\ mpc' = "switch"
  /\ UNCHANGED <<lock, sequence, reader, downlink, av, answered>>

\* The switch on the state.  Only these three states are ever set.
MainSwitch ==
  /\ mpc = "switch"
  /\ \/ state \in {"PRE_LAUNCH", "ONCE"} /\ mpc' = "poll"
     \/ state = "BURN" /\ avBroadcast /\ mpc' = "tell"
     \/ state = "BURN" /\ ~avBroadcast /\ mpc' = "loop"
  /\ UNCHANGED <<avBroadcast, lock, sequence, reader, downlink, av, answered>>

\* write_data of the command; at "poll" the answer is awaited, at "tell" not.
Transmit ==
  /\ mpc \in {"poll", "tell"}
  /\ mpc' = IF mpc = "poll" THEN "lock" ELSE "loop"
  /\ answered' = (answered /\ mpc = "tell")
  /\ UNCHANGED <<avBroadcast, lock, sequence, reader, downlink, flight>>

TransmitHeard == Transmit /\ owed' = TRUE /\ told' = (told \/ avBroadcast)
TransmitLost  == Transmit /\ UNCHANGED <<owed, told>>

\* AvSequenceLock::lock, one access at a time.
LockMutex ==
  /\ mpc = "lock" /\ ~mtxHeld
  /\ mtxHeld' = TRUE
  /\ mpc' = "lockFlag"
  /\ UNCHANGED <<isLocked, elapsed, avBroadcast, sequence, reader, downlink, av, answered>>

\* MUTANT: the flag is not set.
LockFlagForgotten ==
  /\ mpc = "lockFlag"
  /\ mpc' = "lockStamp"
  /\ UNCHANGED <<mtxHeld, isLocked, elapsed, avBroadcast, sequence, reader, downlink, av, answered>>

LockFlag ==
  /\ mpc = "lockFlag"
  /\ isLocked' = TRUE
  /\ mpc' = "lockStamp"
  /\ UNCHANGED <<mtxHeld, elapsed, avBroadcast, sequence, reader, downlink, av, answered>>

\* MUTANT: the stamp is not taken.
LockStampForgotten ==
  /\ mpc = "lockStamp"
  /\ mpc' = "wait"
  /\ UNCHANGED <<mtxHeld, isLocked, elapsed, avBroadcast, sequence, reader, downlink, av, answered>>

LockStamp ==
  /\ mpc = "lockStamp"
  /\ elapsed' = 0
  /\ mpc' = "wait"
  /\ UNCHANGED <<mtxHeld, isLocked, avBroadcast, sequence, reader, downlink, av, answered>>

\* waiting_for_av: the flag first, then the clock.
WaitFlag ==
  /\ mpc = "wait"
  /\ mpc' = IF isLocked THEN "timed" ELSE "loop"
  /\ UNCHANGED <<avBroadcast, lock, sequence, reader, downlink, av, answered>>

WaitTimed ==
  /\ mpc = "timed"
  /\ mpc' = IF Expired THEN "expireFlag" ELSE "wait"
  /\ UNCHANGED <<avBroadcast, lock, sequence, reader, downlink, av, answered>>

\* The timeout unlocks: flag, then mutex, then the NO RESPONSE warning.
ExpireFlag ==
  /\ mpc = "expireFlag"
  /\ isLocked' = FALSE
  /\ mpc' = "expireMutex"
  /\ UNCHANGED <<mtxHeld, elapsed, avBroadcast, sequence, reader, downlink, av, answered>>

ExpireMutex ==
  /\ mpc = "expireMutex"
  /\ mtxHeld' = FALSE
  /\ mpc' = "loop"
  /\ UNCHANGED <<isLocked, elapsed, avBroadcast, sequence, reader, downlink, av, answered>>

Main == \/ MainLoop \/ MainSwitch \/ TransmitHeard \/ TransmitLost
        \/ LockMutex \/ LockFlag \/ LockStamp
        \/ WaitFlag \/ WaitTimed \/ ExpireFlag \/ ExpireMutex

-----------------------------------------------------------------------------
(* input_read_loop *)

\* A packet is taken from the receiver and parsed.
ReaderTakes ==
  /\ rpc = "read" /\ downlink # NoPacket
  /\ packet' \in Parsed(downlink)
  /\ downlink' = NoPacket
  /\ rpc' = "flag"
  /\ UNCHANGED <<lock, sequence, main, av, answered>>

\* The parsed packet is given up at the end of an iteration.
Handled == rpc' = "read" /\ packet' = NoPacket

\* received_av: a packet that does not parse counts as an answer as well.
ReaderFlag ==
  /\ rpc = "flag"
  /\ isLocked' = FALSE
  /\ answered' = TRUE
  /\ rpc' = "mutex"
  /\ UNCHANGED <<mtxHeld, elapsed, sequence, main, packet, downlink, av>>

ReaderMutex ==
  /\ rpc = "mutex"
  /\ mtxHeld' = FALSE
  /\ IF packet.type = "GARBLED" THEN Handled ELSE rpc' = "state" /\ UNCHANGED packet
  /\ UNCHANGED <<isLocked, elapsed, sequence, main, downlink, av, answered>>

\* post_process_av, of a DATA_2 as well.
ReaderState ==
  /\ rpc = "state"
  /\ state' = IF packet.flight = "LAUNCH" THEN "ONCE" ELSE state
  /\ rpc' = "start"
  /\ UNCHANGED <<lock, startSending, received, main, packet, downlink, av, answered>>

\* Only a DATA_1 has a broadcast flag to act on.
AfterFlight ==
  \E flag \in BroadcastFlag(packet) :
     IF flag THEN rpc' = "received" /\ UNCHANGED packet ELSE Handled

\* MUTANT: the case labels of the flying states are missing.
ReaderStartAtLaunchOnly ==
  /\ rpc = "start"
  /\ startSending' = (packet.flight = "LAUNCH")
  /\ AfterFlight
  /\ UNCHANGED <<lock, state, received, main, downlink, av, answered>>

ReaderStart ==
  /\ rpc = "start"
  /\ startSending' = (startSending \/ packet.flight # "GROUND")
  /\ AfterFlight
  /\ UNCHANGED <<lock, state, received, main, downlink, av, answered>>

ReaderReceived ==
  /\ rpc = "received"
  /\ received' = TRUE
  /\ rpc' = "burn"
  /\ UNCHANGED <<lock, state, startSending, main, packet, downlink, av, answered>>

ReaderBurn ==
  /\ rpc = "burn"
  /\ state' = "BURN"
  /\ Handled
  /\ UNCHANGED <<lock, startSending, received, main, downlink, av, answered>>

Reader == \/ ReaderTakes \/ ReaderFlag \/ ReaderMutex \/ ReaderState \/ ReaderStart
          \/ ReaderReceived \/ ReaderBurn

-----------------------------------------------------------------------------

Next == Av \/ Tick \/ Main \/ Reader

Spec == Init /\ [][Next]_vars

\* Both threads are scheduled and time passes.
ThreadsRun == WF_vars(Main) /\ WF_vars(Reader) /\ WF_vars(Tick)

\* A link that does not lose everything: of commands transmitted again and again
\* some are heard, and of packets due again and again some arrive as DATA_1.
LinkWorks == SF_vars(TransmitHeard) /\ SF_vars(AvTransmits("DATA_1"))

ThreadSpec == Spec /\ ThreadsRun

-----------------------------------------------------------------------------
(* Properties *)

TypeOK ==
  /\ mtxHeld \in BOOLEAN /\ isLocked \in BOOLEAN
  /\ elapsed \in NeverLocked..(LockTimeout + 1)
  /\ state \in {"PRE_LAUNCH", "ONCE", "BURN"}
  /\ startSending \in BOOLEAN /\ received \in BOOLEAN
  /\ mpc \in {"loop", "switch", "poll", "tell", "lock", "lockFlag", "lockStamp",
              "wait", "timed", "expireFlag", "expireMutex"}
  /\ avBroadcast \in BOOLEAN
  /\ rpc \in {"read", "flag", "mutex", "state", "start", "received", "burn"}
  /\ packet \in Packet \cup {NoPacket} /\ downlink \in Packet \cup {NoPacket}
  /\ flight \in Flight /\ owed \in BOOLEAN /\ told \in BOOLEAN
  /\ answered \in BOOLEAN

\* The mutex is never left held with nobody to release it: whenever it is held
\* the flag says so, or a thread is between the flag and the mutex.  main, which
\* locks it again each round, can therefore not deadlock on its own lock.
MutexNotOrphaned ==
  mtxHeld => isLocked \/ mpc \in {"lockFlag", "expireMutex"} \/ rpc = "mutex"

\* The clock is compared only with a stamp lock() has taken, never with the
\* initial TimePoint::min(), whose difference overflows.
StampedBeforeTimed ==
  mpc = "timed" => elapsed # NeverLocked

\* Half-duplex turn taking: after a command that awaits its answer main goes on
\* to transmit only when received_av was called since, or the lock timed out.
TurnsAreTaken ==
  elapsed # NeverLocked /\ mpc \in {"loop", "switch", "poll", "tell"}
    => answered \/ Expired

\* The AV is told to broadcast only when the sequence has decided so, which it
\* does only in flight or on a flight state it has not received; and the
\* sequence takes the AV to broadcast only when the AV was told so, or on a flag
\* it has not received.  It listens only after that.
BroadcastIsEarned ==
  [][/\ told' # told => startSending
     /\ startSending' # startSending => flight # "GROUND" \/ packet.type = "DATA_2"
     /\ received' # received => told \/ packet.broadcast = "unknown"
     /\ state' # state /\ state' = "BURN" => received]_vars

\* The flight state of a DATA_2 moves neither the state nor the decision to
\* broadcast: "IGNORE FLIGHT STATE FROM THIS PACKET" (AV_TO_GCS_DATA_2.hpp:34).
FlightStateIsIgnored ==
  [][state' # state \/ startSending' # startSending => packet.type # "DATA_2"]_vars

\* Without any help of the link or the AV each round of main comes to an end:
\* by an answer, by the timeout, or by both at once.
RoundsEnd ==
  mpc = "poll" ~> mpc = "loop"

Unearned == received /\ ~told
InventsFlight == rpc = "read" /\ rpc' = "flag" /\ packet'.flight # downlink.flight

\* Over a link that does not lose everything a flight is noticed, the AV is told
\* to broadcast, its confirmation arrives and the sequence listens, whatever
\* flight states were read that the AV has not sent; and once there are no more
\* of them, it listens for good.  Only a confirmation the AV has never given can
\* keep the AV from being told.
SettlesInBurn ==
  LinkWorks =>
    /\ flight = "FLYING" ~> ((state = "BURN" /\ told) \/ Unearned)
    /\ <>[][~InventsFlight]_vars => (flight = "FLYING" ~> ([](state = "BURN") \/ Unearned))
=============================================================================
