-------------------------- MODULE AvSequence_proofs --------------------------
(***************************************************************************)
(* Proofs about AvSequence for every timeout and every behaviour of the    *)
(* link and the AV.                                                        *)
(***************************************************************************)
EXTENDS AvSequence, TLAPS

\* While a thread handles a packet there is one.
PacketInv == rpc # "read" => packet \in Packet

\* main compares the clock only after it has taken the stamp.
StampInv == mpc \in {"wait", "timed"} => elapsed # NeverLocked

\* Why a round may end.  From LockFlag on, a cleared flag means that the reader
\* has called received_av since the command; the timeout branch is taken only
\* when the time is up, and only another LockStamp turns the clock back.
TurnInv ==
  /\ mpc \in {"lockStamp", "wait", "timed"} => isLocked \/ answered
  /\ mpc \in {"expireFlag", "expireMutex"} => Expired
  /\ TurnsAreTaken

\* What a packet says has happened, but for the flight state of a DATA_2 and a
\* broadcast byte that is neither of the two.
Honest(p) ==
  p \in Packet => /\ p.flight # "GROUND" => flight # "GROUND" \/ p.type = "DATA_2"
                  /\ p.broadcast = "yes" => told

\* What a thread has decided on rests on what it has read.
CauseInv ==
  /\ Honest(downlink) /\ Honest(packet)
  /\ avBroadcast => startSending
  /\ rpc = "received" => packet.broadcast # "no"
  /\ rpc = "burn" => received

IInv == TypeOK /\ PacketInv /\ MutexNotOrphaned /\ StampInv /\ TurnInv /\ CauseInv

-----------------------------------------------------------------------------

LEMMA InitInv == Init => IInv
  <1> SUFFICES ASSUME Init PROVE IInv
    OBVIOUS
  <1>1. /\ mtxHeld \in BOOLEAN /\ isLocked \in BOOLEAN /\ startSending \in BOOLEAN
        /\ received \in BOOLEAN /\ avBroadcast \in BOOLEAN /\ owed \in BOOLEAN
        /\ told \in BOOLEAN /\ answered \in BOOLEAN
    BY Zenon DEF Init
  <1>2. elapsed \in NeverLocked..(LockTimeout + 1)
    BY ConstantsAssumption DEF Init, NeverLocked
  <1>3. TypeOK
    BY <1>1, <1>2 DEF Init, TypeOK, Flight
  <1>4. PacketInv /\ MutexNotOrphaned /\ StampInv /\ TurnInv
    BY DEF Init, PacketInv, MutexNotOrphaned, StampInv, TurnInv, TurnsAreTaken
  <1>5. CauseInv
    BY ConstantsAssumption DEF Init, CauseInv, Honest
  <1> QED
    BY <1>3, <1>4, <1>5 DEF IInv

\* What the AV may mean by a packet.
Meant(type, broadcast) ==
  /\ type \in Type
  /\ \/ broadcast = "no"
     \/ broadcast = "yes" /\ type = "DATA_1" /\ told
     \/ broadcast = "unknown" /\ type = "DATA_1"

\* A DATA_1 says "yes" only of an AV that was told, and other packets never do.
LEMMA TransmissionMeant ==
  (\E type \in Type : AvTransmits(type)) \/ AvTransmitsUnknown
    => \E type, broadcast : Transmits(type, broadcast) /\ Meant(type, broadcast)
  <1>1. ASSUME NEW type \in Type, AvTransmits(type)
        PROVE  \E t, b : Transmits(t, b) /\ Meant(t, b)
    <2> DEFINE b == IF told /\ type = "DATA_1" THEN "yes" ELSE "no"
    <2>1. Transmits(type, b)
      BY <1>1 DEF AvTransmits
    <2>2. Meant(type, b)
      BY DEF Meant
    <2> QED
      BY <2>1, <2>2
  <1>2. ASSUME AvTransmitsUnknown
        PROVE  \E t, b : Transmits(t, b) /\ Meant(t, b)
    <2>1. Transmits("DATA_1", "unknown") /\ Meant("DATA_1", "unknown")
      BY <1>2 DEF AvTransmitsUnknown, Meant, Type
    <2> QED
      BY <2>1
  <1> QED
    BY <1>1, <1>2

\* The parser makes a packet of a packet and changes only the flight state of a
\* DATA_2.
LEMMA ParsedPacket ==
  ASSUME NEW p \in Packet, NEW q \in Parsed(p)
  PROVE  /\ q \in Packet /\ q.broadcast = p.broadcast /\ q.type = p.type
         /\ q.type # "DATA_2" => q.flight = p.flight
  BY DEF Parsed, Packet, Type, Flight

\* The flag is set only by a byte that says so or by one that is not known.
LEMMA FlagSet ==
  ASSUME NEW p \in Packet, NEW flag \in BroadcastFlag(p), flag
  PROVE  p.broadcast # "no"
  <1>1. SUFFICES ASSUME p.broadcast = "no" PROVE FALSE
    OBVIOUS
  <1>2. BroadcastFlag(p) = {FALSE}
    BY <1>1 DEF BroadcastFlag
  <1> QED
    BY <1>2

\* Variables keep the types the code gives them.
LEMMA TypeStep == TypeOK /\ [Next]_vars => TypeOK'
  <1> SUFFICES ASSUME TypeOK, [Next]_vars PROVE TypeOK'
    OBVIOUS
  <1> USE DEF lock, sequence, main, reader, av
  <1>1. CASE AvFlies
    BY <1>1 DEF AvFlies, Flight, TypeOK
  <1>2. ASSUME NEW type, NEW broadcast, Transmits(type, broadcast),
               Meant(type, broadcast)
        PROVE  TypeOK'
    <2>1. downlink' \in Packet
      BY <1>2 DEF Transmits, Meant, Packet, Type, TypeOK, Flight
    <2>2. owed' \in BOOLEAN
      BY <1>2, Zenon DEF Transmits
    <2> QED
      BY <1>2, <2>1, <2>2 DEF Transmits, TypeOK
  <1>3. CASE LinkLoses
    <2>1. owed' \in BOOLEAN
      BY <1>3, Zenon DEF LinkLoses
    <2> QED
      BY <1>3, <2>1 DEF LinkLoses, TypeOK
  <1>4. CASE Tick
    <2>1. elapsed' \in NeverLocked..(LockTimeout + 1)
      BY <1>4, ConstantsAssumption DEF Tick, Expired, TypeOK, NeverLocked
    <2> QED
      BY <1>4, <2>1 DEF Tick, TypeOK
  <1>5. CASE MainLoop
    <2>1. avBroadcast' \in BOOLEAN
      BY <1>5, Zenon DEF MainLoop, TypeOK
    <2> QED
      BY <1>5, <2>1 DEF MainLoop, TypeOK
  <1>6. CASE MainSwitch
    BY <1>6 DEF MainSwitch, TypeOK
  <1>7. CASE TransmitHeard
    <2>1. owed' \in BOOLEAN /\ told' \in BOOLEAN /\ answered' \in BOOLEAN
      BY <1>7, Zenon DEF TransmitHeard, Transmit, TypeOK
    <2>2. mpc' \in {"lock", "loop"}
      BY <1>7 DEF TransmitHeard, Transmit
    <2> QED
      BY <1>7, <2>1, <2>2 DEF TransmitHeard, Transmit, TypeOK
  <1>8. CASE TransmitLost
    <2>1. owed' \in BOOLEAN /\ told' \in BOOLEAN /\ answered' \in BOOLEAN
      BY <1>8, Zenon DEF TransmitLost, Transmit, TypeOK
    <2>2. mpc' \in {"lock", "loop"}
      BY <1>8 DEF TransmitLost, Transmit
    <2> QED
      BY <1>8, <2>1, <2>2 DEF TransmitLost, Transmit, TypeOK
  <1>9. CASE LockMutex
    <2>1. mtxHeld' \in BOOLEAN
      BY <1>9, Zenon DEF LockMutex, TypeOK
    <2> QED
      BY <1>9, <2>1 DEF LockMutex, TypeOK
  <1>10. CASE LockFlag
    <2>1. isLocked' \in BOOLEAN
      BY <1>10, Zenon DEF LockFlag, TypeOK
    <2> QED
      BY <1>10, <2>1 DEF LockFlag, TypeOK
  <1>11. CASE LockStamp
    <2>1. elapsed' \in NeverLocked..(LockTimeout + 1)
      BY <1>11, ConstantsAssumption DEF LockStamp, NeverLocked
    <2> QED
      BY <1>11, <2>1 DEF LockStamp, TypeOK
  <1>12. CASE WaitFlag
    BY <1>12 DEF WaitFlag, TypeOK
  <1>13. CASE WaitTimed
    BY <1>13 DEF WaitTimed, TypeOK
  <1>14. CASE ExpireFlag
    <2>1. isLocked' \in BOOLEAN
      BY <1>14, Zenon DEF ExpireFlag, TypeOK
    <2> QED
      BY <1>14, <2>1 DEF ExpireFlag, TypeOK
  <1>15. CASE ExpireMutex
    <2>1. mtxHeld' \in BOOLEAN
      BY <1>15, Zenon DEF ExpireMutex, TypeOK
    <2> QED
      BY <1>15, <2>1 DEF ExpireMutex, TypeOK
  <1>16. CASE ReaderTakes
    <2>1. packet' \in Packet
      BY <1>16, ParsedPacket DEF ReaderTakes, TypeOK
    <2> QED
      BY <1>16, <2>1 DEF ReaderTakes, TypeOK
  <1>17. CASE ReaderFlag
    <2>1. isLocked' \in BOOLEAN /\ answered' \in BOOLEAN
      BY <1>17, Zenon DEF ReaderFlag
    <2> QED
      BY <1>17, <2>1 DEF ReaderFlag, TypeOK
  <1>18. CASE ReaderMutex
    <2>1. mtxHeld' \in BOOLEAN
      BY <1>18, Zenon DEF ReaderMutex, TypeOK
    <2> QED
      BY <1>18, <2>1 DEF ReaderMutex, Handled, TypeOK
  <1>19. CASE ReaderState
    BY <1>19 DEF ReaderState, TypeOK
  <1>20. CASE ReaderStart
    <2>1. startSending' \in BOOLEAN
      BY <1>20, Zenon DEF ReaderStart, TypeOK
    <2> QED
      BY <1>20, <2>1 DEF ReaderStart, AfterFlight, Handled, TypeOK
  <1>21. CASE ReaderReceived
    <2>1. received' \in BOOLEAN
      BY <1>21, Zenon DEF ReaderReceived, TypeOK
    <2> QED
      BY <1>21, <2>1 DEF ReaderReceived, TypeOK
  <1>22. CASE ReaderBurn
    BY <1>22 DEF ReaderBurn, Handled, TypeOK
  <1>23. CASE UNCHANGED vars
    BY <1>23 DEF vars, TypeOK
  <1> QED
    BY <1>1, <1>2, <1>3, <1>4, <1>5, <1>6, <1>7, <1>8, <1>9, <1>10, <1>11, <1>12, <1>13, <1>14, <1>15, <1>16, <1>17, <1>18, <1>19, <1>20, <1>21, <1>22, <1>23,
       TransmissionMeant DEF Next, Av, Main, Reader

-----------------------------------------------------------------------------

\* Only the reader touches its program counter and its packet, and it leaves
\* "read" only with a packet from the receiver.
LEMMA PacketStep == TypeOK /\ PacketInv /\ [Next]_vars => PacketInv'
  <1> SUFFICES ASSUME TypeOK, PacketInv, [Next]_vars PROVE PacketInv'
    OBVIOUS
  <1>1. CASE ReaderTakes
    BY <1>1, ParsedPacket DEF ReaderTakes, PacketInv, TypeOK
  <1>2. CASE Reader /\ ~ReaderTakes
    BY <1>2 DEF Reader, ReaderFlag, ReaderMutex, ReaderState, ReaderStart, AfterFlight,
                ReaderReceived, ReaderBurn, Handled, PacketInv
  <1>3. CASE UNCHANGED reader
    BY <1>3 DEF PacketInv, reader
  <1>4. CASE Av \/ Tick
    BY <1>3, <1>4 DEF Av, AvFlies, AvTransmits, AvTransmitsUnknown, Transmits, LinkLoses, Tick
  <1>5. CASE Main
    BY <1>3, <1>5 DEF Main, MainLoop, MainSwitch, TransmitHeard, TransmitLost, Transmit,
                      LockMutex, LockFlag, LockStamp, WaitFlag, WaitTimed,
                      ExpireFlag, ExpireMutex
  <1>6. CASE UNCHANGED vars
    BY <1>3, <1>6 DEF vars
  <1> QED
    BY <1>1, <1>2, <1>4, <1>5, <1>6 DEF Next

\* Whoever clears the flag frees the mutex next, and main sets the flag right
\* after it has locked the mutex.
LEMMA MutexStep == TypeOK /\ MutexNotOrphaned /\ [Next]_vars => MutexNotOrphaned'
  <1> SUFFICES ASSUME TypeOK, MutexNotOrphaned, [Next]_vars PROVE MutexNotOrphaned'
    OBVIOUS
  <1> USE DEF MutexNotOrphaned
  <1>1. CASE Av \/ Tick
    BY <1>1 DEF Av, AvFlies, AvTransmits, AvTransmitsUnknown, Transmits, LinkLoses, Tick, lock, main, reader
  <1>2. CASE MainLoop \/ MainSwitch \/ WaitFlag \/ WaitTimed
    BY <1>2 DEF MainLoop, MainSwitch, WaitFlag, WaitTimed, lock, reader
  <1>3. CASE TransmitHeard \/ TransmitLost
    BY <1>3 DEF TransmitHeard, TransmitLost, Transmit, lock, reader
  <1>4. CASE LockMutex
    BY <1>4 DEF LockMutex
  <1>5. CASE LockFlag
    BY <1>5 DEF LockFlag
  <1>6. CASE LockStamp
    BY <1>6 DEF LockStamp, reader
  <1>7. CASE ExpireFlag
    BY <1>7 DEF ExpireFlag
  <1>8. CASE ExpireMutex
    BY <1>8 DEF ExpireMutex
  <1>9. CASE ReaderFlag
    BY <1>9 DEF ReaderFlag
  <1>10. CASE ReaderMutex
    BY <1>10 DEF ReaderMutex, Handled
  <1>11. CASE ReaderTakes \/ ReaderState \/ ReaderStart \/ ReaderReceived \/ ReaderBurn
    BY <1>11 DEF ReaderTakes, ReaderState, ReaderStart, ReaderReceived, ReaderBurn, lock, main
  <1>12. CASE UNCHANGED vars
    BY <1>12 DEF vars, lock, main, reader
  <1> QED
    BY <1>1, <1>2, <1>3, <1>4, <1>5, <1>6, <1>7, <1>8, <1>9, <1>10, <1>11, <1>12
    DEF Next, Main, Reader

\* The clock keeps running once it has been started.
LEMMA StampStep == TypeOK /\ StampInv /\ [Next]_vars => StampInv'
  <1> SUFFICES ASSUME TypeOK, StampInv, [Next]_vars PROVE StampInv'
    OBVIOUS
  <1> USE DEF StampInv
  <1>1. CASE Tick
    BY <1>1, ConstantsAssumption DEF Tick, Expired, TypeOK, NeverLocked, main
  <1>2. CASE LockStamp
    BY <1>2 DEF LockStamp, NeverLocked
  <1>3. CASE Main /\ ~LockStamp
    BY <1>3 DEF Main, MainLoop, MainSwitch, TransmitHeard, TransmitLost, Transmit, LockMutex,
                LockFlag, WaitFlag, WaitTimed, ExpireFlag, ExpireMutex, lock
  <1>4. CASE Av
    BY <1>4 DEF Av, AvFlies, AvTransmits, AvTransmitsUnknown, Transmits, LinkLoses, lock, main
  <1>5. CASE Reader
    BY <1>5 DEF Reader, ReaderTakes, ReaderFlag, ReaderMutex, ReaderState, ReaderStart,
                ReaderReceived, ReaderBurn, lock, main
  <1>6. CASE UNCHANGED vars
    BY <1>6 DEF vars, lock, main
  <1> QED
    BY <1>1, <1>2, <1>3, <1>4, <1>5, <1>6 DEF Next

\* A round ends only by an answer or by the timeout.
LEMMA TurnStep == TypeOK /\ StampInv /\ TurnInv /\ [Next]_vars => TurnInv'
  <1> SUFFICES ASSUME TypeOK, StampInv, TurnInv, [Next]_vars PROVE TurnInv'
    OBVIOUS
  <1> USE DEF TurnInv, TurnsAreTaken
  <1>1. CASE Tick
    <2>1. Expired => Expired'
      BY <1>1, ConstantsAssumption DEF Tick, Expired, TypeOK
    <2>2. elapsed' # NeverLocked => elapsed # NeverLocked
      BY <1>1 DEF Tick
    <2> QED
      BY <1>1, <2>1, <2>2 DEF Tick, main
  <1>2. CASE UNCHANGED <<isLocked, elapsed, mpc, answered>>
    BY <1>2 DEF Expired
  <1>3. CASE MainLoop
    BY <1>3 DEF MainLoop, Expired, lock
  <1>4. CASE MainSwitch
    BY <1>4 DEF MainSwitch, Expired, lock
  <1>5. CASE TransmitHeard \/ TransmitLost
    BY <1>5 DEF TransmitHeard, TransmitLost, Transmit, Expired, lock
  <1>6. CASE LockMutex
    BY <1>6 DEF LockMutex
  <1>7. CASE LockFlag
    BY <1>7 DEF LockFlag
  <1>8. CASE LockStamp
    BY <1>8 DEF LockStamp
  <1>9. CASE WaitFlag
    BY <1>9 DEF WaitFlag, Expired, lock
  <1>10. CASE WaitTimed
    BY <1>10 DEF WaitTimed, Expired, lock
  <1>11. CASE ExpireFlag
    BY <1>11 DEF ExpireFlag, Expired
  <1>12. CASE ExpireMutex
    BY <1>12 DEF ExpireMutex, Expired
  <1>13. CASE ReaderFlag
    BY <1>13 DEF ReaderFlag, Expired, main
  <1>14. CASE Reader /\ ~ReaderFlag
    BY <1>2, <1>14 DEF Reader, ReaderTakes, ReaderMutex, ReaderState, ReaderStart,
                       ReaderReceived, ReaderBurn, lock, main
  <1>15. CASE Av
    BY <1>2, <1>15 DEF Av, AvFlies, AvTransmits, AvTransmitsUnknown, Transmits, LinkLoses, lock, main
  <1>16. CASE UNCHANGED vars
    BY <1>2, <1>16 DEF vars, lock, main
  <1> QED
    BY <1>1, <1>3, <1>4, <1>5, <1>6, <1>7, <1>8, <1>9, <1>10, <1>11, <1>12, <1>13,
       <1>14, <1>15, <1>16 DEF Next, Main

\* Each link of the chain is set only while the one before it is, and none is
\* ever cleared.
LEMMA CauseStep == TypeOK /\ PacketInv /\ CauseInv /\ [Next]_vars => CauseInv'
  <1> SUFFICES ASSUME TypeOK, PacketInv, CauseInv, [Next]_vars PROVE CauseInv'
    OBVIOUS
  <1> USE DEF CauseInv
  <1>1. CASE AvFlies
    BY <1>1 DEF AvFlies, Honest, sequence, main, reader
  <1>2. ASSUME NEW type, NEW broadcast, Transmits(type, broadcast),
               Meant(type, broadcast)
        PROVE  CauseInv'
    <2>1. Honest(downlink)'
      BY <1>2 DEF Transmits, Meant, Honest
    <2>2. Honest(packet)'
      BY <1>2 DEF Transmits, Honest, reader
    <2> QED
      BY <1>2, <2>1, <2>2 DEF Transmits, sequence, main, reader
  <1>3. CASE UNCHANGED <<sequence, avBroadcast, reader, downlink, flight, told>>
    BY <1>3 DEF Honest, sequence, reader
  <1>4. CASE LinkLoses \/ Tick
    BY <1>3, <1>4 DEF LinkLoses, Tick, main, av
  <1>5. CASE MainLoop
    BY <1>5 DEF MainLoop, Honest, sequence, reader, av
  <1>6. CASE TransmitHeard
    BY <1>6 DEF TransmitHeard, Transmit, Honest, sequence, reader
  <1>7. CASE Main /\ ~MainLoop /\ ~TransmitHeard
    BY <1>3, <1>7 DEF Main, MainSwitch, TransmitLost, Transmit, LockMutex, LockFlag,
                      LockStamp, WaitFlag, WaitTimed, ExpireFlag, ExpireMutex, av
  <1>8. CASE ReaderTakes
    <2>1. downlink \in Packet /\ packet' \in Parsed(downlink)
      BY <1>8 DEF ReaderTakes, TypeOK
    <2>2. Honest(packet)'
      BY <1>8, <2>1, ParsedPacket DEF ReaderTakes, Honest, av
    <2>3. Honest(downlink)'
      BY <1>8, ConstantsAssumption DEF ReaderTakes, Honest
    <2> QED
      BY <1>8, <2>2, <2>3 DEF ReaderTakes, sequence, main
  <1>9. CASE UNCHANGED <<sequence, main, downlink, av>> /\ rpc' # "received" /\ rpc' # "burn"
             /\ packet' \in {packet, NoPacket}
    <2>1. Honest(packet)'
      BY <1>9, ConstantsAssumption DEF Honest, av
    <2>2. Honest(downlink)'
      BY <1>9 DEF Honest, av
    <2> QED
      BY <1>9, <2>1, <2>2 DEF sequence, main
  <1>10. CASE ReaderFlag \/ ReaderMutex
    BY <1>9, <1>10 DEF ReaderFlag, ReaderMutex, Handled
  <1>11. CASE ReaderState
    BY <1>11 DEF ReaderState, Honest, main, av
  <1>12. CASE ReaderStart
    <2>1. packet \in Packet
      BY <1>12 DEF ReaderStart, PacketInv
    <2>2. /\ startSending => startSending'
          /\ UNCHANGED <<downlink, flight, told, avBroadcast, received>>
      BY <1>12 DEF ReaderStart, main, av
    <2>3. PICK flag \in BroadcastFlag(packet) :
             IF flag THEN rpc' = "received" /\ UNCHANGED packet ELSE Handled
      BY <1>12 DEF ReaderStart, AfterFlight
    <2>4. rpc' = "received" => UNCHANGED packet /\ packet.broadcast # "no"
      BY <2>1, <2>3, FlagSet DEF Handled
    <2>5. packet' \in {packet, NoPacket} /\ rpc' # "burn"
      BY <2>3 DEF Handled
    <2>6. Honest(downlink)' /\ Honest(packet)'
      BY <2>2, <2>5, ConstantsAssumption DEF Honest
    <2> QED
      BY <2>2, <2>4, <2>5, <2>6
  <1>13. CASE ReaderReceived
    BY <1>13 DEF ReaderReceived, Honest, main, av
  <1>14. CASE ReaderBurn
    <2>1. Honest(downlink)' /\ Honest(packet)'
      BY <1>14, ConstantsAssumption DEF ReaderBurn, Handled, Honest, av
    <2> QED
      BY <1>14, <2>1 DEF ReaderBurn, Handled, main
  <1>15. CASE UNCHANGED vars
    BY <1>3, <1>15 DEF vars, main, av
  <1> QED
    BY <1>1, <1>2, <1>4, <1>5, <1>6, <1>7, <1>8, <1>10, <1>11, <1>12, <1>13, <1>14, <1>15,
       TransmissionMeant DEF Next, Av, Reader

LEMMA InductiveStep == IInv /\ [Next]_vars => IInv'
  BY TypeStep, PacketStep, MutexStep, StampStep, TurnStep, CauseStep DEF IInv

\* The inductive invariant holds in every reachable state.
LEMMA Invariance == Spec => []IInv
  BY InitInv, InductiveStep, PTL DEF Spec

-----------------------------------------------------------------------------

\* Every variable of the avionics exchange keeps its type.
THEOREM TypeCorrect == Spec => []TypeOK
  BY Invariance, PTL DEF IInv

\* AvSequenceLock is never left locked with nobody about to unlock it, although
\* two threads set its mutex and its flag in separate steps.
THEOREM LockIsReleased == Spec => []MutexNotOrphaned
  BY Invariance, PTL DEF IInv

\* unlock_if_timed_out_ never computes with the initial TimePoint::min().
THEOREM StampBeforeClock == Spec => []StampedBeforeTimed
  <1>1. IInv => StampedBeforeTimed
    BY DEF IInv, StampInv, StampedBeforeTimed
  <1> QED
    BY <1>1, Invariance, PTL

\* main goes on to the next command only after an answer or the timeout.
THEOREM TurnTaking == Spec => []TurnsAreTaken
  <1>1. IInv => TurnsAreTaken
    BY DEF IInv, TurnInv
  <1> QED
    BY <1>1, Invariance, PTL

\* What any step may do to the flags of the broadcast.
Earned ==
  /\ told' # told => startSending
  /\ startSending' # startSending => flight # "GROUND" \/ packet.type = "DATA_2"
  /\ received' # received => told \/ packet.broadcast = "unknown"
  /\ state' # state /\ state' = "BURN" => received

\* Whoever sets a flag has read what earns it, or something the AV has not sent.
LEMMA EarnedStep == IInv /\ [Next]_vars => Earned
  <1> SUFFICES ASSUME IInv, [Next]_vars PROVE Earned
    OBVIOUS
  <1>0. CauseInv /\ PacketInv
    BY DEF IInv
  <1> USE <1>0 DEF CauseInv, Earned
  <1>1. CASE UNCHANGED <<sequence, told>>
    BY <1>1 DEF sequence
  <1>2. CASE Av \/ Tick
    BY <1>1, <1>2 DEF Av, AvFlies, AvTransmits, AvTransmitsUnknown, Transmits, LinkLoses,
                      Tick, av
  <1>3. CASE TransmitHeard
    <2>1. told' # told => startSending
      <3>1. told' = (told \/ avBroadcast) /\ told \in BOOLEAN
        BY <1>3 DEF TransmitHeard, IInv, TypeOK
      <3>2. ~avBroadcast => told' = told
        BY <3>1, Zenon
      <3> QED
        BY <3>2
    <2> QED
      BY <1>3, <2>1 DEF TransmitHeard, Transmit, sequence
  <1>4. CASE Main /\ ~TransmitHeard
    BY <1>1, <1>4 DEF Main, MainLoop, MainSwitch, TransmitLost, Transmit, LockMutex,
                      LockFlag, LockStamp, WaitFlag, WaitTimed, ExpireFlag, ExpireMutex, av
  <1>5. CASE ReaderTakes \/ ReaderFlag \/ ReaderMutex
    BY <1>1, <1>5 DEF ReaderTakes, ReaderFlag, ReaderMutex, av
  <1>6. CASE ReaderState
    BY <1>6 DEF ReaderState, av
  <1>7. CASE ReaderStart
    <2>1. packet \in Packet /\ Honest(packet)
      BY <1>7 DEF ReaderStart, PacketInv
    <2>2. packet.flight # "GROUND" => flight # "GROUND" \/ packet.type = "DATA_2"
      BY <2>1 DEF Honest
    <2>3. /\ startSending' = (startSending \/ packet.flight # "GROUND")
          /\ startSending \in BOOLEAN
      BY <1>7 DEF ReaderStart, IInv, TypeOK
    <2>4. packet.flight = "GROUND" => startSending' = startSending
      BY <2>3, Zenon
    <2> QED
      BY <1>7, <2>2, <2>4 DEF ReaderStart, av
  <1>8. CASE ReaderReceived
    <2>1. packet \in Packet /\ packet.broadcast # "no"
      BY <1>8 DEF ReaderReceived, PacketInv
    <2>2. packet.broadcast = "yes" => told
      BY <2>1 DEF Honest
    <2>3. packet.broadcast \in {"yes", "unknown"}
      BY <2>1 DEF Packet
    <2> QED
      BY <1>8, <2>2, <2>3 DEF ReaderReceived, av
  <1>9. CASE ReaderBurn
    BY <1>9 DEF ReaderBurn, av
  <1>10. CASE UNCHANGED vars
    BY <1>1, <1>10 DEF vars, av
  <1> QED
    BY <1>2, <1>3, <1>4, <1>5, <1>6, <1>7, <1>8, <1>9, <1>10 DEF Next, Reader

\* The AV is told to broadcast only once the sequence has decided so, in flight
\* or on the unset flight state of a DATA_2, and believed to do so only when it
\* was told so or on an unset flag.
THEOREM BroadcastHandshake == Spec => BroadcastIsEarned
  <1>1. IInv /\ [Next]_vars => [Earned]_vars
    BY EarnedStep
  <1>2. Spec => [][Earned]_vars
    BY <1>1, Invariance, PTL DEF Spec
  <1> QED
    BY <1>2 DEF BroadcastIsEarned, Earned
=============================================================================
