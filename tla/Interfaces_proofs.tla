-------------------------- MODULE Interfaces_proofs --------------------------
(***************************************************************************)
(* Proofs about TcpLink for every heartbeat, backoff and timeout and any   *)
(* set of payloads, about LoraRadio for any number of packets and          *)
(* troubles, and about their composition.                                  *)
(***************************************************************************)
EXTENDS Interfaces, Integers, SequenceTheorems, WellFoundedInduction, TLAPS

-----------------------------------------------------------------------------
(* TCP *)

\* What tcp_write holds: the current payload unless a change is pending, and a
\* real payload from the moment it is written on.
DataInv ==
  /\ wpc \notin {"snapshot"} /\ ~changed => data = payload
  /\ wpc \in {"ensure", "connect", "write", "send"} => data # Nothing
  /\ data # Nothing \/ lastPayload # Nothing => payload # Nothing
  /\ wpc = "connect" => ~connected

\* What a working connection carried is what was sent last, or nothing; and the
\* sender rests over one only with the payload it sent last.
CarriedInv ==
  Working => /\ got \in {lastPayload, Nothing}
             /\ wpc \in {"wait", "waiting"} => data = lastPayload

\* The time since the last frame.  On its way to send the thread may be up to
\* two heartbeats late; it starts to wait only within one heartbeat of a frame,
\* because only a send younger than that suppresses another.
SilenceInv ==
  Working /\ lastPayload # Nothing =>
    /\ wpc = "wait" => silence < Heartbeat
    /\ wpc = "waiting" => silence + waitLeft < 2 * Heartbeat
    /\ wpc \in {"snapshot", "ensure", "write"} => silence < 2 * Heartbeat
    /\ silence <= sinceSend \/ sinceSend = 2 * Heartbeat

IInv == TypeOK /\ DataInv /\ CarriedInv /\ SilenceInv /\ NothingAfterTorn

-----------------------------------------------------------------------------

LEMMA BoundIsNat == RecoveryBound \in Nat
  BY ConstantsAssumption DEF RecoveryBound, Greater, Break, Heal

\* Capping keeps a count within its bound.
LEMMA CapType ==
  ASSUME NEW n \in Nat, NEW bound \in Nat
  PROVE  Cap(n, bound) \in 0..bound
  BY DEF Cap

\* What time adds to the silence, it takes from the wait.
LEMMA OneMoreOneLess ==
  ASSUME NEW s \in Int, NEW t \in Int, NEW w \in Int, NEW bound \in Int,
         t <= s + 1, s + w < bound
  PROVE  t + (w - 1) < bound
  OBVIOUS

LEMMA InitInv == Init => IInv
  <1> SUFFICES ASSUME Init PROVE IInv
    OBVIOUS
  <1>1. changed \in BOOLEAN /\ peerUp \in BOOLEAN /\ connected \in BOOLEAN /\ torn \in BOOLEAN
    BY Zenon DEF Init
  <1>2. /\ waitLeft \in 0..Heartbeat /\ busy \in Nat /\ retryIn \in 0..MaxBackoff
        /\ backoff \in InitialBackoff..MaxBackoff /\ sinceSend \in 0..(2 * Heartbeat)
        /\ silence \in 0..(2 * Heartbeat + SendTimeout)
    BY ConstantsAssumption DEF Init
  <1>3. upFor \in 0..(RecoveryBound + 1)
    BY BoundIsNat DEF Init
  <1>4. conn \in {"none", "alive", "dead", "reset"}
    BY DEF Init
  <1>5. TypeOK
    BY <1>1, <1>2, <1>3, <1>4 DEF Init, TypeOK
  <1>6. DataInv /\ CarriedInv /\ SilenceInv
    BY DEF Init, DataInv, CarriedInv, SilenceInv
  <1>7. NothingAfterTorn
    BY DEF Init, NothingAfterTorn
  <1> QED
    BY <1>5, <1>6, <1>7 DEF IInv

\* Variables keep the types the code gives them.
LEMMA TypeStep == TypeOK /\ DataInv /\ [Next]_vars => TypeOK'
  <1> SUFFICES ASSUME TypeOK, DataInv, [Next]_vars PROVE TypeOK'
    OBVIOUS
  <1> USE DEF shared, writer, retry, sent, peer
  <1>1. CASE Change
    <2>1. changed' \in BOOLEAN
      BY <1>1, Zenon DEF Change
    <2>2. upFor' \in 0..(RecoveryBound + 1)
      BY <1>1, BoundIsNat DEF Change, TypeOK
    <2>3. payload' \in Payload
      BY <1>1 DEF Change
    <2> QED
      BY <1>1, <2>1, <2>2, <2>3 DEF Change, TypeOK
  <1>2. CASE PeerCrashes
    <2>1. peerUp' \in BOOLEAN
      BY <1>2, Zenon DEF PeerCrashes
    <2>2. conn' \in {"none", "alive", "dead", "reset"}
      BY <1>2 DEF PeerCrashes, TypeOK
    <2> QED
      BY <1>2, <2>1, <2>2 DEF PeerCrashes, TypeOK
  <1>3. CASE PeerRestarts
    <2>1. peerUp' \in BOOLEAN
      BY <1>3, Zenon DEF PeerRestarts
    <2>2. upFor' \in 0..(RecoveryBound + 1)
      BY <1>3, BoundIsNat DEF PeerRestarts
    <2> QED
      BY <1>3, <2>1, <2>2 DEF PeerRestarts, TypeOK
  <1>4. CASE Tick
    <2>1. waitLeft' \in 0..Heartbeat /\ busy' \in Nat
      BY <1>4, ConstantsAssumption DEF Tick, Blocked, TypeOK
    <2>2. retryIn' \in 0..MaxBackoff
      BY <1>4, ConstantsAssumption DEF Tick, Minus, TypeOK
    <2>3. sinceSend' \in 0..(2 * Heartbeat)
      BY <1>4, ConstantsAssumption, CapType DEF Tick, TypeOK
    <2>4. silence' \in 0..(2 * Heartbeat + SendTimeout)
      BY <1>4, ConstantsAssumption, CapType DEF Tick, TypeOK
    <2>5. upFor' \in 0..(RecoveryBound + 1)
      BY <1>4, BoundIsNat, CapType DEF Tick, TypeOK
    <2> QED
      BY <1>4, <2>1, <2>2, <2>3, <2>4, <2>5 DEF Tick, TypeOK
  <1>5. CASE Snapshot
    <2>1. changed' \in BOOLEAN
      BY <1>5, Zenon DEF Snapshot
    <2> QED
      BY <1>5, <2>1 DEF Snapshot, TypeOK
  <1>6. CASE Wait
    <2>1. waitLeft' \in 0..Heartbeat
      BY <1>6, ConstantsAssumption DEF Wait
    <2> QED
      BY <1>6, <2>1 DEF Wait, TypeOK
  <1>7. CASE Wake
    BY <1>7 DEF Wake, TypeOK
  <1>8. CASE Ensure
    <2>1. wpc' \in {"write", "wait", "connect"}
      BY <1>8 DEF Ensure
    <2>2. busy' \in Nat
      BY <1>8 DEF Ensure
    <2> QED
      BY <1>8, <2>1, <2>2 DEF Ensure, TypeOK
  <1>9. CASE ConnectSucceeds
    <2>1. connected' \in BOOLEAN /\ torn' \in BOOLEAN
      BY <1>9, Zenon DEF ConnectSucceeds
    <2>2. /\ backoff' \in InitialBackoff..MaxBackoff /\ retryIn' \in 0..MaxBackoff
          /\ silence' \in 0..(2 * Heartbeat + SendTimeout)
      BY <1>9, ConstantsAssumption DEF ConnectSucceeds
    <2> QED
      BY <1>9, <2>1, <2>2 DEF ConnectSucceeds, TypeOK
  <1>10. CASE ConnectFails
    <2>1. retryIn' \in 0..MaxBackoff
      BY <1>10, ConstantsAssumption DEF ConnectFails, Minus, TypeOK
    <2>2. backoff' \in InitialBackoff..MaxBackoff
      BY <1>10, ConstantsAssumption DEF ConnectFails, Cap, TypeOK
    <2> QED
      BY <1>10, <2>1, <2>2 DEF ConnectFails, TypeOK
  <1>11. CASE Suppress
    <2>1. wpc' \in {"wait", "send"} /\ busy' \in Nat
      BY <1>11 DEF Suppress
    <2> QED
      BY <1>11, <2>1 DEF Suppress, TypeOK
  <1>12. CASE SendArrives
    <2>1. sinceSend' \in 0..(2 * Heartbeat)
      BY <1>12, ConstantsAssumption, CapType DEF SendArrives, Sent, TypeOK
    <2>2. silence' \in 0..(2 * Heartbeat + SendTimeout)
      BY <1>12, ConstantsAssumption DEF SendArrives
    <2> QED
      BY <1>12, <2>1, <2>2 DEF SendArrives, Sent, TypeOK
  <1>13. CASE SendIsLost
    <2>1. sinceSend' \in 0..(2 * Heartbeat)
      BY <1>13, ConstantsAssumption, CapType DEF SendIsLost, Sent, TypeOK
    <2> QED
      BY <1>13, <2>1 DEF SendIsLost, Sent, TypeOK
  <1>14. CASE SendFails
    <2>1. connected' \in BOOLEAN
      BY <1>14, Zenon DEF SendFails, Disconnect
    <2>2. torn' \in BOOLEAN
      BY <1>14 DEF SendFails, Disconnect, TypeOK
    <2>3. upFor' \in 0..(RecoveryBound + 1)
      BY <1>14, BoundIsNat DEF SendFails, Disconnect, TypeOK
    <2> QED
      BY <1>14, <2>1, <2>2, <2>3 DEF SendFails, Disconnect, TypeOK
  <1>15. CASE UNCHANGED vars
    BY <1>15 DEF vars, TypeOK
  <1> QED
    BY <1>1, <1>2, <1>3, <1>4, <1>5, <1>6, <1>7, <1>8, <1>9, <1>10, <1>11, <1>12,
       <1>13, <1>14, <1>15 DEF Next, Interface

\* tcp_write works on the payload it has just fetched.
LEMMA DataStep == TypeOK /\ DataInv /\ [Next]_vars => DataInv'
  <1> SUFFICES ASSUME TypeOK, DataInv, [Next]_vars PROVE DataInv'
    OBVIOUS
  <1> USE DEF DataInv, shared, writer, retry, sent, peer
  <1>1. CASE Change
    BY <1>1, ConstantsAssumption DEF Change
  <1>2. CASE PeerCrashes \/ PeerRestarts \/ Tick
    BY <1>2 DEF PeerCrashes, PeerRestarts, Tick
  <1>3. CASE Snapshot
    BY <1>3 DEF Snapshot
  <1>4. CASE Wait \/ Wake
    BY <1>4 DEF Wait, Wake
  <1>5. CASE Ensure
    BY <1>5 DEF Ensure
  <1>6. CASE ConnectSucceeds
    BY <1>6 DEF ConnectSucceeds
  <1>7. CASE ConnectFails
    BY <1>7 DEF ConnectFails
  <1>8. CASE Suppress
    BY <1>8 DEF Suppress
  <1>9. CASE SendArrives \/ SendIsLost
    BY <1>9 DEF SendArrives, SendIsLost, Sent
  <1>10. CASE SendFails
    BY <1>10 DEF SendFails, Disconnect
  <1>11. CASE UNCHANGED vars
    BY <1>11 DEF vars
  <1> QED
    BY <1>1, <1>2, <1>3, <1>4, <1>5, <1>6, <1>7, <1>8, <1>9, <1>10, <1>11
    DEF Next, Interface

\* A connection starts empty and carries only what is recorded as sent.
LEMMA CarriedStep == TypeOK /\ DataInv /\ CarriedInv /\ [Next]_vars => CarriedInv'
  <1> SUFFICES ASSUME TypeOK, DataInv, CarriedInv, [Next]_vars PROVE CarriedInv'
    OBVIOUS
  <1> USE DEF CarriedInv, Working, shared, writer, retry, sent, peer
  <1>1. CASE Change \/ PeerCrashes \/ PeerRestarts
    BY <1>1 DEF Change, PeerCrashes, PeerRestarts
  <1>2. CASE Tick
    BY <1>2 DEF Tick
  <1>3. CASE Snapshot
    BY <1>3 DEF Snapshot, DataInv
  <1>4. CASE Wait \/ Wake
    BY <1>4 DEF Wait, Wake
  <1>5. CASE Ensure
    BY <1>5 DEF Ensure
  <1>6. CASE ConnectSucceeds
    BY <1>6 DEF ConnectSucceeds
  <1>7. CASE ConnectFails
    BY <1>7 DEF ConnectFails, DataInv
  <1>8. CASE Suppress
    BY <1>8 DEF Suppress
  <1>9. CASE SendArrives
    BY <1>9 DEF SendArrives, Sent
  <1>10. CASE SendIsLost
    BY <1>10 DEF SendIsLost
  <1>11. CASE SendFails
    BY <1>11 DEF SendFails, Disconnect
  <1>12. CASE UNCHANGED vars
    BY <1>12 DEF vars
  <1> QED
    BY <1>1, <1>2, <1>3, <1>4, <1>5, <1>6, <1>7, <1>8, <1>9, <1>10, <1>11, <1>12
    DEF Next, Interface

\* The argument of the heartbeat: a suppressed frame is one heartbeat old at
\* most, and the wait that follows takes at most another one.
LEMMA SilenceStep ==
  TypeOK /\ DataInv /\ CarriedInv /\ SilenceInv /\ [Next]_vars => SilenceInv'
  <1> SUFFICES ASSUME TypeOK, DataInv, CarriedInv, SilenceInv, [Next]_vars
               PROVE  SilenceInv'
    OBVIOUS
  <1> USE DEF SilenceInv, Working, shared, writer, retry, sent, peer
  <1>0. /\ silence \in Nat /\ sinceSend \in 0..(2 * Heartbeat) /\ waitLeft \in 0..Heartbeat
        /\ Heartbeat \in Nat \ {0} /\ SendTimeout \in Nat \ {0}
    BY ConstantsAssumption DEF TypeOK
  <1>1. CASE Change \/ PeerCrashes \/ PeerRestarts
    BY <1>1 DEF Change, PeerCrashes, PeerRestarts
  <1>2. CASE Tick
    <2> SUFFICES ASSUME Working, lastPayload # Nothing PROVE SilenceInv'
      BY <1>2 DEF Tick
    <2>1. /\ silence <= sinceSend \/ sinceSend = 2 * Heartbeat
          /\ wpc = "waiting" => silence + waitLeft < 2 * Heartbeat
      OBVIOUS
    <2>2. sinceSend' = IF sinceSend + 1 < 2 * Heartbeat THEN sinceSend + 1 ELSE 2 * Heartbeat
      BY <1>2 DEF Tick, Cap
    <2>3. silence' \in Nat /\ silence' <= silence + 1
      BY <1>0, <1>2 DEF Tick, Cap
    <2>4. silence' <= sinceSend' \/ sinceSend' = 2 * Heartbeat
      <3> HIDE DEF SilenceInv, Working
      <3>1. CASE sinceSend = 2 * Heartbeat
        BY <1>0, <2>2, <3>1
      <3>2. CASE silence <= sinceSend
        BY <1>0, <2>2, <2>3, <3>2
      <3> QED
        BY <2>1, <3>1, <3>2
    <2>5. CASE wpc = "waiting"
      <3>1. waitLeft' = waitLeft - 1 /\ waitLeft > 0 /\ wpc' = "waiting"
        BY <1>2, <2>5 DEF Tick, Blocked
      <3>2. silence' + waitLeft' < 2 * Heartbeat
        <4> HIDE DEF SilenceInv, Working
        <4>1. silence + waitLeft < 2 * Heartbeat
          BY <2>1, <2>5
        <4>2. silence \in Int /\ waitLeft \in Int /\ silence' \in Int /\ 2 * Heartbeat \in Int
          BY <1>0, <2>3
        <4>3. silence' <= silence + 1
          BY <2>3
        <4>4. silence' + (waitLeft - 1) < 2 * Heartbeat
          BY <4>1, <4>2, <4>3, OneMoreOneLess
        <4> QED
          BY <3>1, <4>4
      <3> QED
        BY <2>4, <3>1, <3>2
    <2>6. CASE wpc # "waiting"
      <3>1. wpc' \in {"connect", "send"}
        BY <1>2, <2>6 DEF Tick, Blocked
      <3> QED
        BY <2>4, <3>1
    <2> QED
      BY <2>5, <2>6
  <1>3. CASE Snapshot
    BY <1>3 DEF Snapshot, DataInv
  <1>4. CASE Wait
    BY <1>0, <1>4 DEF Wait
  <1>5. CASE Wake
    BY <1>0, <1>5 DEF Wake
  <1>6. CASE Ensure
    BY <1>6 DEF Ensure
  <1>7. CASE ConnectSucceeds
    BY <1>0, <1>7 DEF ConnectSucceeds
  <1>8. CASE ConnectFails
    BY <1>8 DEF ConnectFails, DataInv
  <1>9. CASE Suppress
    BY <1>0, <1>9 DEF Suppress
  <1>10. CASE SendArrives
    <2>1. sinceSend' \in 0..(2 * Heartbeat)
      BY <1>10, ConstantsAssumption, CapType DEF SendArrives, Sent, TypeOK
    <2>2. silence' = 0 /\ wpc' = "wait"
      BY <1>10 DEF SendArrives, Sent
    <2> QED
      BY <1>0, <2>1, <2>2
  <1>11. CASE SendIsLost
    BY <1>11 DEF SendIsLost
  <1>12. CASE SendFails
    BY <1>12 DEF SendFails, Disconnect
  <1>13. CASE UNCHANGED vars
    BY <1>13 DEF vars
  <1> QED
    BY <1>1, <1>2, <1>3, <1>4, <1>5, <1>6, <1>7, <1>8, <1>9, <1>10, <1>11, <1>12, <1>13
    DEF Next, Interface

\* A frame is cut short only by the failure that closes its connection.
LEMMA TornStep == NothingAfterTorn /\ [Next]_vars => NothingAfterTorn'
  <1> SUFFICES ASSUME NothingAfterTorn, [Next]_vars PROVE NothingAfterTorn'
    OBVIOUS
  <1> USE DEF NothingAfterTorn, peer
  <1>1. CASE ConnectSucceeds
    BY <1>1 DEF ConnectSucceeds
  <1>2. CASE SendFails
    BY <1>2 DEF SendFails, Disconnect
  <1>3. CASE Change \/ PeerCrashes \/ PeerRestarts \/ Tick \/ Snapshot \/ Wait \/ Wake
    BY <1>3 DEF Change, PeerCrashes, PeerRestarts, Tick, Snapshot, Wait, Wake
  <1>4. CASE Ensure \/ ConnectFails \/ Suppress \/ SendArrives \/ SendIsLost
    BY <1>4 DEF Ensure, ConnectFails, Suppress, SendArrives, SendIsLost, Sent
  <1>5. CASE UNCHANGED vars
    BY <1>5 DEF vars
  <1> QED
    BY <1>1, <1>2, <1>3, <1>4, <1>5 DEF Next, Interface

LEMMA InductiveStep == IInv /\ [Next]_vars => IInv'
  BY TypeStep, DataStep, CarriedStep, SilenceStep, TornStep DEF IInv

\* The inductive invariant holds in every reachable state.
LEMMA Invariance == Spec => []IInv
  BY InitInv, InductiveStep, PTL DEF Spec

-----------------------------------------------------------------------------

\* Every variable of the TCP link keeps its type; the backoff stays within
\* MAX_TCP_RETRY_BACKOFF.
THEOREM TypeCorrect == Spec => []TypeOK
  BY Invariance, PTL DEF IInv

\* On a working connection the peer gets a frame within two heartbeats.
THEOREM HeartbeatTheorem == Spec => []HeartbeatIsKept
  <1>1. IInv => HeartbeatIsKept
    <2> SUFFICES ASSUME IInv, Working, lastPayload # Nothing, wpc # "send"
                 PROVE  silence < 2 * Heartbeat
      BY DEF HeartbeatIsKept
    <2>1. /\ silence \in Nat /\ waitLeft \in 0..Heartbeat /\ Heartbeat \in Nat \ {0}
          /\ wpc \in {"snapshot", "ensure", "connect", "write", "wait", "waiting"}
      BY ConstantsAssumption DEF IInv, TypeOK
    <2>2. wpc # "connect"
      BY DEF IInv, DataInv, Working
    <2> QED
      BY <2>1, <2>2 DEF IInv, SilenceInv
  <1> QED
    BY <1>1, Invariance, PTL

\* A sender at rest over a working connection owes the peer nothing but the
\* first frame of a fresh connection.
THEOREM PeerTheorem == Spec => []PeerIsCurrent
  <1>1. IInv => PeerIsCurrent
    BY DEF IInv, DataInv, CarriedInv, PeerIsCurrent
  <1> QED
    BY <1>1, Invariance, PTL

\* write_data never continues a connection on which a frame was cut short.
THEOREM TornTheorem == Spec => []NothingAfterTorn
  BY Invariance, PTL DEF IInv

-----------------------------------------------------------------------------

\* What the state of the connection says of itself: our end is connected exactly
\* while the other end remembers one, nothing is put off while it is, and an
\* attempt or a send lasts no longer than it may.
LinkFacts ==
  /\ connected <=> conn # "none"
  /\ connected => retryIn = 0
  /\ conn = "alive" => peerUp
  /\ wpc \in {"write", "send"} => connected
  /\ wpc = "connect" => ~connected /\ busy <= MaxConnect
  /\ wpc = "send" => busy <= SendTimeout

\* The ticks of the present wait; the ticks to the next send that is not
\* suppressed; and the ticks to the next attempt to connect.
Idle == IF wpc = "wait" THEN Heartbeat ELSE IF wpc = "waiting" THEN waitLeft ELSE 0
Unsent == IF sinceSend < Heartbeat THEN 2 * Heartbeat - 1 - sinceSend ELSE Idle
Unretried == IF retryIn > 0 THEN retryIn + Heartbeat - 1 ELSE Idle

\* The ticks to a working connection, at most, if the peer stays.
Remaining ==
  IF conn = "none" THEN IF wpc = "connect" THEN MaxConnect - busy ELSE Unretried + MaxConnect
  ELSE IF conn = "reset" THEN IF wpc = "send" THEN Heal - busy ELSE Unsent + Heal
  ELSE IF wpc = "send" THEN (Break - busy) + Heal ELSE (Unsent + Break) + Heal

\* While the peer stays, the time left and the time passed are within the bound.
Recovering == peerUp /\ payload # Nothing /\ conn # "alive" => upFor + Remaining <= RecoveryBound

\* The inductive invariant.
LinkInv == TypeOK /\ DataInv /\ LinkFacts /\ Recovering

\* The numbers.
LEMMA LinkNumbers ==
  /\ Break \in Nat /\ Heal \in Nat /\ RecoveryBound \in Nat
  /\ Break >= 2 * Heartbeat - 1 /\ Break >= SendTimeout + Heartbeat
  /\ Heal = SendTimeout + Heartbeat + MaxConnect
  /\ RecoveryBound >= 2 * Heartbeat - 1 + Break + Heal
  /\ RecoveryBound >= MaxConnect + Heartbeat + (MaxBackoff - 1)
  /\ RecoveryBound >= MaxConnect + Heartbeat + MaxConnect
  BY ConstantsAssumption DEF RecoveryBound, Greater, Break, Heal

\* The ticks to a working connection are never above the bound.
LEMMA RemainingBound == TypeOK /\ LinkFacts => Remaining \in Nat /\ Remaining <= RecoveryBound
<1> SUFFICES ASSUME TypeOK, LinkFacts PROVE Remaining \in Nat /\ Remaining <= RecoveryBound
  OBVIOUS
<1>t. /\ waitLeft \in Nat /\ waitLeft <= Heartbeat /\ busy \in Nat /\ retryIn \in Nat
      /\ retryIn <= MaxBackoff /\ sinceSend \in Nat
  BY ConstantsAssumption DEF TypeOK
<1>1. Idle \in Nat /\ Idle <= Heartbeat
  BY <1>t, ConstantsAssumption DEF Idle
<1> HIDE DEF Idle
<1>2. Unsent \in Nat /\ Unsent <= 2 * Heartbeat - 1
  BY <1>t, <1>1, ConstantsAssumption DEF Unsent
<1>3. Unretried \in Nat /\ (Unretried <= Heartbeat \/ Unretried <= (MaxBackoff - 1) + Heartbeat)
  BY <1>t, <1>1, ConstantsAssumption DEF Unretried
<1> HIDE DEF Unsent, Unretried
<1>4. CASE conn = "none"
  BY <1>t, <1>3, <1>4, LinkNumbers, ConstantsAssumption DEF Remaining, LinkFacts
<1>5. CASE conn = "reset"
  BY <1>t, <1>2, <1>5, LinkNumbers, ConstantsAssumption DEF Remaining, LinkFacts
<1>6. CASE conn \notin {"none", "reset"}
  BY <1>t, <1>2, <1>6, LinkNumbers, ConstantsAssumption DEF Remaining, LinkFacts
<1> QED
  BY <1>4, <1>5, <1>6

\* No step of the link falsifies these.
LEMMA FactsStep == LinkFacts /\ TypeOK /\ [Next]_vars => LinkFacts'
<1> SUFFICES ASSUME LinkFacts, TypeOK, [Next]_vars PROVE LinkFacts'
  OBVIOUS
<1> USE DEF LinkFacts, shared, writer, retry, sent, peer
<1>1. CASE Change
  BY <1>1 DEF Change
<1>2. CASE PeerCrashes
  BY <1>2 DEF PeerCrashes
<1>3. CASE PeerRestarts
  BY <1>3 DEF PeerRestarts
<1>4. CASE Tick
  <2>1. connected => retryIn' = 0
    BY <1>4 DEF Tick, Minus
  <2>2. wpc = "connect" => busy' <= MaxConnect
    BY <1>4, ConstantsAssumption DEF Tick, Blocked, TypeOK
  <2>3. wpc = "send" => busy' <= SendTimeout
    BY <1>4, ConstantsAssumption DEF Tick, Blocked, TypeOK
  <2>4. UNCHANGED <<connected, conn, peerUp, wpc>>
    BY <1>4 DEF Tick
  <2> QED
    BY <2>1, <2>2, <2>3, <2>4
<1>5. CASE Snapshot \/ Wait \/ Wake
  BY <1>5 DEF Snapshot, Wait, Wake
<1>6. CASE Ensure
  BY <1>6, ConstantsAssumption DEF Ensure, TypeOK
<1>7. CASE ConnectSucceeds
  BY <1>7 DEF ConnectSucceeds
<1>8. CASE ConnectFails
  BY <1>8 DEF ConnectFails
<1>9. CASE Suppress
  BY <1>9, ConstantsAssumption DEF Suppress
<1>10. CASE SendArrives \/ SendIsLost
  BY <1>10 DEF SendArrives, SendIsLost, Sent
<1>11. CASE SendFails
  BY <1>11 DEF SendFails, Disconnect
<1>12. CASE UNCHANGED vars
  BY <1>12 DEF vars
<1> QED
  BY <1>1, <1>2, <1>3, <1>4, <1>5, <1>6, <1>7, <1>8, <1>9, <1>10, <1>11, <1>12
  DEF Next, Interface

\* A step that takes no time and leaves no more to do.
LEMMA NoLater ==
  ASSUME NEW u \in Int, NEW v \in Int, NEW r \in Int, NEW t \in Int, NEW b \in Int,
         u + r <= b, v <= u, t <= r
  PROVE  v + t <= b
  OBVIOUS

\* A tick that leaves a tick less.
LEMMA Sooner ==
  ASSUME NEW u \in Int, NEW v \in Int, NEW r \in Int, NEW t \in Int, NEW b \in Int,
         u + r <= b, v <= u + 1, t + 1 <= r
  PROVE  v + t <= b
  OBVIOUS

\* What begins now is within the bound, whatever is left.
LEMMA AtOnce == \A v, t, b \in Int : v = 0 /\ t <= b => v + t <= b
  OBVIOUS

\* One less is one less in a sum.
LEMMA OneLess ==
  \A x, y, z \in Int :
    x + 1 <= y => /\ (x + z) + 1 <= y + z
                  /\ \A w \in Int : ((x + z) + w) + 1 <= (y + z) + w
  OBVIOUS

\* What follows within the time left is within the bound.
LEMMA Within == \A u, v, t, b \in Int : v <= u /\ u + t <= b => v + t <= b
  OBVIOUS

\* Each step leaves less to do by the time it takes, or starts the count again.
LEMMA RecoveringStep ==
  ASSUME LinkInv, TypeOK', LinkFacts', [Next]_vars
  PROVE  Recovering'
<1> SUFFICES ASSUME peerUp', payload' # Nothing, conn' # "alive"
             PROVE  upFor' + Remaining' <= RecoveryBound
  BY DEF Recovering
<1>t. /\ TypeOK /\ DataInv /\ LinkFacts
      /\ upFor \in Int /\ upFor' \in Int /\ RecoveryBound \in Int
      /\ waitLeft \in Nat /\ waitLeft <= Heartbeat /\ busy \in Nat
      /\ retryIn \in Nat /\ retryIn <= MaxBackoff /\ sinceSend \in Nat
      /\ conn \in {"none", "alive", "dead", "reset"}
  BY LinkNumbers, ConstantsAssumption DEF LinkInv, TypeOK
<1>c. Heartbeat \in Nat \ {0} /\ MaxConnect \in Nat /\ SendTimeout \in Nat \ {0}
      /\ Break \in Nat /\ Heal \in Nat /\ Heal = SendTimeout + Heartbeat + MaxConnect
      /\ Break >= 2 * Heartbeat - 1 /\ Break >= SendTimeout + Heartbeat
  BY LinkNumbers, ConstantsAssumption
<1>r. Remaining \in Int
  BY <1>t, RemainingBound
<1>b. Remaining' \in Int /\ Remaining' <= RecoveryBound
  <2>1. (TypeOK /\ LinkFacts => Remaining \in Nat /\ Remaining <= RecoveryBound)'
    BY RemainingBound, PTL
  <2>2. Remaining' \in Nat /\ Remaining' <= RecoveryBound
    BY <2>1
  <2> QED
    BY <2>2
<1>0. ASSUME upFor' = 0 PROVE upFor' + Remaining' <= RecoveryBound
  BY <1>t, <1>0, <1>b, AtOnce, Zenon
<1>n. ASSUME upFor' = upFor, peerUp' = peerUp, payload' = payload, conn # "alive",
             Remaining' <= Remaining
      PROVE  upFor' + Remaining' <= RecoveryBound
  <2>1. upFor + Remaining <= RecoveryBound
    BY <1>n DEF LinkInv, Recovering
  <2>2. upFor' <= upFor
    BY <1>t, <1>n
  <2> QED
    BY <1>t, <1>r, <1>b, <1>n, <2>1, <2>2, NoLater, Zenon
<1> USE DEF shared, writer, retry, sent, peer
<1>1. CASE Change
  <2>1. CASE payload = Nothing
    BY <1>0, <1>1, <2>1 DEF Change
  <2>2. CASE payload # Nothing
    <3>1. UNCHANGED <<wpc, waitLeft, busy, retryIn, sinceSend, conn, peerUp, upFor>>
      BY <1>1, <2>2 DEF Change
    <3>2. Remaining' = Remaining
      BY <3>1, Zenon DEF Remaining, Idle, Unsent, Unretried
    <3>3. upFor + Remaining <= RecoveryBound
      BY <2>2, <3>1 DEF LinkInv, Recovering
    <3> QED
      BY <3>1, <3>2, <3>3
  <2> QED
    BY <2>1, <2>2
<1>2. ~PeerCrashes
  BY DEF PeerCrashes
<1>3. CASE PeerRestarts
  BY <1>0, <1>3 DEF PeerRestarts
<1>4. CASE Tick
  <2>1. /\ UNCHANGED <<payload, wpc, peerUp, conn>>
        /\ waitLeft' = (IF wpc = "waiting" THEN waitLeft - 1 ELSE waitLeft)
        /\ busy' = (IF wpc = "waiting" THEN busy ELSE busy + 1)
        /\ retryIn' = (IF retryIn > 1 THEN retryIn - 1 ELSE 0)
        /\ sinceSend' = (IF sinceSend + 1 < 2 * Heartbeat THEN sinceSend + 1 ELSE 2 * Heartbeat)
        /\ \/ wpc = "waiting" /\ waitLeft > 0
           \/ wpc = "connect" /\ busy < MaxConnect
           \/ wpc = "send" /\ busy < SendTimeout
    BY <1>4 DEF Tick, Blocked, Minus, Cap
  <2>2. Remaining' + 1 <= Remaining
    <3>1. CASE wpc = "waiting"
      <4>1. Unsent' + 1 <= Unsent /\ Unsent \in Int /\ Unsent' \in Int
        BY <1>t, <1>c, <2>1, <3>1 DEF Unsent, Idle
      <4>2. Unretried' + 1 <= Unretried /\ Unretried \in Int /\ Unretried' \in Int
        BY <1>t, <1>c, <2>1, <3>1 DEF Unretried, Idle
      <4> HIDE DEF Unsent, Unretried
      <4>3. wpc' = wpc /\ conn' = conn
        BY <2>1
      <4>4. MaxConnect \in Int /\ Heal \in Int /\ Break \in Int
        BY <1>c
      <4>5. CASE conn = "none"
        <5>1. Remaining = Unretried + MaxConnect /\ Remaining' = Unretried' + MaxConnect
          BY <3>1, <4>3, <4>5 DEF Remaining
        <5> QED
          BY <4>2, <4>4, <5>1, OneLess, Zenon
      <4>6. CASE conn = "reset"
        <5>1. Remaining = Unsent + Heal /\ Remaining' = Unsent' + Heal
          BY <3>1, <4>3, <4>6 DEF Remaining
        <5> QED
          BY <4>1, <4>4, <5>1, OneLess, Zenon
      <4>7. CASE conn \notin {"none", "reset"}
        <5>1. Remaining = (Unsent + Break) + Heal /\ Remaining' = (Unsent' + Break) + Heal
          BY <3>1, <4>3, <4>7 DEF Remaining
        <5> QED
          BY <4>1, <4>4, <5>1, OneLess, Zenon
      <4> QED
        BY <4>5, <4>6, <4>7
    <3>2. CASE wpc \in {"connect", "send"}
      <4>1. wpc' = wpc /\ conn' = conn /\ busy' = busy + 1
        BY <2>1, <3>2
      <4>2. conn = "none" <=> wpc = "connect"
        BY <1>t, <3>2 DEF LinkFacts
      <4> QED
        BY <1>t, <1>c, <3>2, <4>1, <4>2 DEF Remaining
    <3> QED
      BY <2>1, <3>1, <3>2
  <2>3. upFor' <= upFor + 1
    BY <1>4, <1>t DEF Tick, Cap
  <2>4. upFor + Remaining <= RecoveryBound
    BY <2>1 DEF LinkInv, Recovering
  <2> QED
    BY <1>t, <1>r, <1>b, <2>2, <2>3, <2>4, Sooner, Zenon
<1>5. CASE Snapshot
  <2>1. UNCHANGED <<payload, upFor, peerUp, conn, waitLeft, busy, retryIn, sinceSend>>
        /\ wpc = "snapshot" /\ wpc' = "ensure"
    BY <1>5 DEF Snapshot
  <2>2. Remaining' = Remaining
    BY <2>1 DEF Remaining, Idle, Unsent, Unretried
  <2>3. Remaining' <= Remaining
    BY <1>r, <2>2
  <2> QED
    BY <1>n, <2>1, <2>3
<1>6. CASE Wait
  <2>1. UNCHANGED <<payload, upFor, peerUp, conn, busy, retryIn, sinceSend>>
        /\ wpc = "wait" /\ wpc' = "waiting" /\ waitLeft' = Heartbeat
    BY <1>6 DEF Wait
  <2>2. Remaining' = Remaining
    BY <2>1 DEF Remaining, Idle, Unsent, Unretried
  <2>3. Remaining' <= Remaining
    BY <1>r, <2>2
  <2> QED
    BY <1>n, <2>1, <2>3
<1>7. CASE Wake
  <2>1. UNCHANGED <<payload, upFor, peerUp, conn, waitLeft, busy, retryIn, sinceSend>>
        /\ wpc = "waiting" /\ wpc' = "snapshot"
    BY <1>7 DEF Wake
  <2>2. Remaining' <= Remaining
    BY <1>t, <1>c, <2>1 DEF Remaining, Idle, Unsent, Unretried
  <2> QED
    BY <1>n, <2>1, <2>2
<1>8. CASE Ensure
  <2>1. UNCHANGED <<payload, upFor, peerUp, conn, waitLeft, retryIn, sinceSend>>
        /\ wpc = "ensure" /\ busy' = 0
        /\ \/ connected /\ wpc' = "write"
           \/ ~connected /\ retryIn > 0 /\ wpc' = "wait"
           \/ ~connected /\ retryIn = 0 /\ wpc' = "connect"
    <3>1. UNCHANGED <<payload, upFor, peerUp, conn, waitLeft, retryIn, sinceSend>>
          /\ wpc = "ensure" /\ busy' = 0
      BY <1>8 DEF Ensure
    <3>2. connected => wpc' = "write"
      BY <1>8 DEF Ensure
    <3>3. ~connected /\ retryIn > 0 => wpc' = "wait"
      BY <1>8 DEF Ensure
    <3>4. ~connected /\ ~(retryIn > 0) => wpc' = "connect"
      BY <1>8 DEF Ensure
    <3>5. ~(retryIn > 0) => retryIn = 0
      BY <1>t
    <3> QED
      BY <3>1, <3>2, <3>3, <3>4, <3>5, Zenon
  <2>2. connected <=> conn # "none"
    BY <1>t DEF LinkFacts
  <2>3. Remaining' <= Remaining
    BY <1>t, <1>c, <2>1, <2>2 DEF Remaining, Idle, Unsent, Unretried
  <2> QED
    BY <1>n, <2>1, <2>3
<1>9. ~ConnectSucceeds
  BY DEF ConnectSucceeds
<1>10. CASE ConnectFails
  <2>1. /\ conn' = conn /\ wpc = "connect" /\ wpc' = "wait" /\ upFor' = upFor /\ upFor <= busy
        /\ retryIn' = (IF backoff > busy THEN backoff - busy ELSE 0)
    BY <1>10 DEF ConnectFails, Minus
  <2>2. conn = "none" /\ busy <= MaxConnect /\ backoff \in Nat /\ backoff <= MaxBackoff
    BY <1>t, <2>1, ConstantsAssumption DEF LinkFacts, TypeOK
  <2>3. Remaining' = (IF backoff > busy THEN (backoff - busy) + Heartbeat - 1 ELSE Heartbeat) + MaxConnect
    BY <1>t, <2>1, <2>2 DEF Remaining, Unretried, Idle
  <2>4. busy + Remaining' <= RecoveryBound
    BY <1>t, <1>c, <2>2, <2>3, LinkNumbers, ConstantsAssumption
  <2>5. upFor' <= busy /\ busy \in Int
    BY <1>t, <2>1
  <2>6. upFor' \in Int /\ Remaining' \in Int /\ RecoveryBound \in Int
    BY <1>t, <1>b
  <2> QED
    BY <2>4, <2>5, <2>6, Within, Zenon
<1>11. CASE Suppress
  <2>1. UNCHANGED <<payload, upFor, peerUp, conn, waitLeft, retryIn, sinceSend>>
        /\ wpc = "write" /\ busy' = 0
        /\ \/ wpc' = "wait" /\ sinceSend < Heartbeat
           \/ wpc' = "send"
    BY <1>11 DEF Suppress
  <2>2. conn # "none"
    BY <1>t, <2>1 DEF LinkFacts
  <2>3. Remaining' <= Remaining
    BY <1>t, <1>c, <2>1, <2>2 DEF Remaining, Idle, Unsent
  <2> QED
    BY <1>n, <2>1, <2>3
<1>12. ~SendArrives
  BY DEF SendArrives
<1>13. CASE SendIsLost
  <2>1. /\ UNCHANGED <<payload, upFor, peerUp>> /\ conn = "dead" /\ conn' = "reset"
        /\ wpc = "send" /\ wpc' = "wait"
        /\ sinceSend' = (IF busy < 2 * Heartbeat THEN busy ELSE 2 * Heartbeat)
    BY <1>13 DEF SendIsLost, Sent, Cap
  <2>2. busy <= SendTimeout
    BY <1>t, <2>1 DEF LinkFacts
  <2>3. Remaining' <= Remaining
    BY <1>t, <1>c, <2>1, <2>2 DEF Remaining, Idle, Unsent
  <2> QED
    BY <1>n, <2>1, <2>3
<1>14. CASE SendFails
  <2>1. /\ UNCHANGED <<payload, peerUp, retryIn>> /\ conn' = "none" /\ wpc = "send" /\ wpc' = "wait"
        /\ (conn = "reset" \/ busy = SendTimeout)
    BY <1>14 DEF SendFails, Disconnect
  <2>2. CASE conn = "alive"
    BY <1>0, <1>14, <2>2 DEF SendFails
  <2>3. CASE conn # "alive"
    <3>1. upFor' = upFor
      BY <1>14, <2>3 DEF SendFails
    <3>2. busy <= SendTimeout /\ conn # "none" /\ retryIn = 0
      BY <1>t, <2>1 DEF LinkFacts
    <3>3. Remaining' <= Remaining
      BY <1>t, <1>c, <2>1, <2>3, <3>2 DEF Remaining, Idle, Unretried
    <3> QED
      BY <1>n, <2>1, <2>3, <3>1, <3>3
  <2> QED
    BY <2>2, <2>3
<1>15. CASE UNCHANGED vars
  <2>1. UNCHANGED <<payload, upFor, peerUp, conn, wpc, waitLeft, busy, retryIn, sinceSend>>
    BY <1>15 DEF vars
  <2>2. Remaining' = Remaining
    BY <2>1, Zenon DEF Remaining, Idle, Unsent, Unretried
  <2>3. Remaining' <= Remaining
    BY <1>r, <2>2
  <2> QED
    BY <1>n, <2>1, <2>3
<1> QED
  BY <1>1, <1>2, <1>3, <1>4, <1>5, <1>6, <1>7, <1>8, <1>9, <1>10, <1>11, <1>12,
     <1>13, <1>14, <1>15 DEF Next, Interface

\* A peer that is up again is found within RecoveryBound, for every heartbeat,
\* backoff and timeout and however long connect blocks.
THEOREM RecoveryTheorem == Spec => []RecoversInTime
<1>1. Init => LinkInv
  <2> SUFFICES ASSUME Init PROVE LinkInv
    OBVIOUS
  <2>1. TypeOK /\ DataInv
    BY InitInv DEF IInv
  <2>2. LinkFacts
    BY DEF Init, LinkFacts
  <2>3. Remaining \in Nat /\ Remaining <= RecoveryBound
    BY <2>1, <2>2, RemainingBound
  <2>4. Recovering
    BY <2>3 DEF Init, Recovering
  <2> QED
    BY <2>1, <2>2, <2>4 DEF LinkInv
<1>2. LinkInv /\ [Next]_vars => LinkInv'
  BY TypeStep, DataStep, FactsStep, RecoveringStep DEF LinkInv
<1>3. LinkInv => RecoversInTime
  <2> SUFFICES ASSUME LinkInv, peerUp, payload # Nothing, upFor > RecoveryBound, ~Working PROVE FALSE
    BY DEF RecoversInTime
  <2>1. conn # "alive"
    BY DEF LinkInv, LinkFacts, Working
  <2>2. Remaining \in Nat /\ RecoveryBound \in Nat /\ upFor \in Nat
    BY RemainingBound, LinkNumbers DEF LinkInv, TypeOK
  <2>3. upFor + Remaining <= RecoveryBound
    BY <2>1 DEF LinkInv, Recovering
  <2> HIDE DEF Remaining
  <2> QED
    BY <2>2, <2>3
<1> QED
  BY <1>1, <1>2, <1>3, PTL DEF Spec

-----------------------------------------------------------------------------
(* LoRa: whether the E5 listens depends on what it was told last. *)

\* All that is ever sent to a module.
Commands == {Listen, Transmit} \cup {Setup["UART_E5"][i] : i \in 1..4}
                               \cup {Setup["UART_FEATHER"][i] : i \in 1..13}

\* Of the last command, whether done or not: the modem state says whether it
\* was the order to listen.
ListenInv ==
  /\ device \in {"UART_E5", "UART_FEATHER"}
  /\ receiving \in BOOLEAN /\ refused \in BOOLEAN
  /\ asked \in Seq(Commands)
  /\ device = "UART_E5" =>
       /\ (task = "read" => modem = "RXLRPKT")
       /\ (modem = "RXLRPKT" /\ asked # <<>> => Last(asked) = Listen)
       /\ (modem = "RXLRPKT" => receiving \/ refused \/ asked # <<>>)
  /\ device = "UART_FEATHER" => (receiving \/ asked # <<>>)
  /\ task = "setup" => step \in 1..Len(Setup[device])

\* at_setup of the E5 has 4 commands, that of the Feather 13.
LEMMA SetupLength == Len(Setup["UART_E5"]) = 4 /\ Len(Setup["UART_FEATHER"]) = 13
  BY DEF Setup

\* A command of at_setup.
LEMMA SetupCommands ==
  ASSUME NEW d \in {"UART_E5", "UART_FEATHER"}, NEW i \in 1..Len(Setup[d])
  PROVE  Setup[d][i] \in Commands
  <1>1. CASE d = "UART_E5"
    BY <1>1, SetupLength DEF Commands
  <1>2. CASE d = "UART_FEATHER"
    BY <1>2, SetupLength DEF Commands
  <1> QED
    BY <1>1, <1>2

\* The orders of read_data and write_data.
LEMMA OrderedCommands == Listen \in Commands /\ Transmit \in Commands
  BY DEF Commands

\* The last of a sequence is what was appended.
LEMMA LastAppended ==
  ASSUME NEW s \in Seq(Commands), NEW c \in Commands
  PROVE  /\ Append(s, c) \in Seq(Commands) /\ Append(s, c) # <<>>
         /\ Last(Append(s, c)) = c
  BY DEF Last

\* Without its first element a sequence has the same last one, if it had two.
LEMMA LastOfTail ==
  ASSUME NEW s \in Seq(Commands), s # <<>>
  PROVE  /\ Tail(s) \in Seq(Commands)
         /\ Tail(s) # <<>> => Last(Tail(s)) = Last(s)
         /\ Tail(s) = <<>> => Last(s) = Head(s)
  BY DEF Last

\* A command sent to the module.
LEMMA Sending ==
  ASSUME ListenInv, NEW c \in Commands, Send(c),
         UNCHANGED <<device, receiving, step>>, refused' \in BOOLEAN,
         task' = "setup" => task = "setup",
         device = "UART_E5" /\ task' = "read" => c = Listen
  PROVE  ListenInv'
  <1>1. /\ asked' = Append(asked, c)
        /\ modem' = IF device = "UART_E5" /\ c = Listen THEN "RXLRPKT" ELSE "NOT_CONTINUOUS"
    BY DEF Send
  <1>2. asked \in Seq(Commands)
    BY DEF ListenInv
  <1>3. asked' \in Seq(Commands) /\ asked' # <<>> /\ Last(asked') = c
    BY <1>1, <1>2, LastAppended
  <1>4. /\ device' \in {"UART_E5", "UART_FEATHER"}
        /\ receiving' \in BOOLEAN /\ refused' \in BOOLEAN
    BY Zenon DEF ListenInv
  <1>5. task' = "setup" => step' \in 1..Len(Setup[device'])
    BY DEF ListenInv
  <1>6. device' = "UART_E5" =>
          /\ (task' = "read" => modem' = "RXLRPKT")
          /\ (modem' = "RXLRPKT" => c = Listen)
    BY <1>1
  <1> QED
    BY <1>3, <1>4, <1>5, <1>6 DEF ListenInv

\* The module gets through with a command.
LEMMA Answering ==
  ASSUME ListenInv, Obey \/ Refuse
  PROVE  ListenInv'
<1>1. asked # <<>> /\ asked' = Tail(asked) /\ UNCHANGED <<device, task, modem>>
  BY DEF Obey, Refuse
<1>2. /\ asked' \in Seq(Commands)
      /\ asked' # <<>> => Last(asked') = Last(asked)
      /\ asked' = <<>> => Last(asked) = Head(asked)
  BY <1>1, LastOfTail DEF ListenInv
<1>3. CASE Obey
  BY <1>1, <1>2, <1>3 DEF ListenInv, Obey
<1>4. CASE Refuse
  BY <1>1, <1>2, <1>4 DEF ListenInv, Refuse
<1> QED
  BY <1>3, <1>4

\* A step that asks nothing of the module and does not begin a read.
LEMMA Otherwise ==
  ASSUME ListenInv, UNCHANGED <<device, receiving, refused, asked, modem>>,
         task' = "read" => task = "read",
         task' = "setup" => step' \in 1..Len(Setup[device])
  PROVE  ListenInv'
  BY DEF ListenInv

\* The end of a command begins no read, and at_setup stays within its commands.
LEMMA EndOfCommand ==
  ASSUME ListenInv, NEW ok, End(ok), UNCHANGED device
  PROVE  /\ task' = "read" => task = "read"
         /\ task' = "setup" => step' \in 1..Len(Setup[device])
  <1>1. Len(Setup["UART_E5"]) \in Nat /\ Len(Setup["UART_FEATHER"]) \in Nat
    BY SetupLength
  <1>2. Len(Setup["UART_FEATHER"]) >= 4
    BY SetupLength
  <1>3. CASE task = "setup" /\ device = "UART_E5"
    BY <1>1, <1>3 DEF ListenInv, End
  <1>4. CASE task = "setup" /\ device = "UART_FEATHER"
    BY <1>1, <1>2, <1>4 DEF ListenInv, End
  <1>5. CASE task # "setup"
    BY <1>5 DEF ListenInv, End
  <1> QED
    BY <1>3, <1>4, <1>5 DEF ListenInv

\* A module that has just been opened: the setup is ahead.
LEMMA ListenInit == LoraInit => ListenInv
  <1> SUFFICES ASSUME LoraInit PROVE ListenInv
    OBVIOUS
  <1>1. receiving \in BOOLEAN /\ refused \in BOOLEAN
    BY Zenon DEF LoraInit
  <1>2. device = "UART_FEATHER" => receiving
    BY DEF LoraInit
  <1>3. step \in 1..Len(Setup[device])
    <2>1. CASE device = "UART_E5"
      BY <2>1, SetupLength DEF LoraInit
    <2>2. CASE device = "UART_FEATHER"
      BY <2>2, SetupLength DEF LoraInit
    <2> QED
      BY <2>1, <2>2 DEF LoraInit
  <1> QED
    BY <1>1, <1>2, <1>3 DEF LoraInit, ListenInv

\* One step per action of the driver and of the module.
LEMMA ListenStep == ListenInv /\ [LoraNext]_loraVars => ListenInv'
  <1> SUFFICES ASSUME ListenInv, [LoraNext]_loraVars PROVE ListenInv'
    OBVIOUS
  <1>0. task = "setup" => step \in 1..Len(Setup[device])
    BY DEF ListenInv
  <1>1. CASE Hear
    BY <1>0, <1>1, Otherwise DEF Hear
  <1>2. CASE BeginTransmission
    <2>1. receiving' \in BOOLEAN /\ refused' \in BOOLEAN
      BY <1>2, Zenon DEF BeginTransmission, ListenInv
    <2> QED
      BY <1>2, <2>1 DEF BeginTransmission, ListenInv
  <1>3. CASE Obey \/ Refuse
    BY <1>3, Answering
  <1>4. CASE SetUp
    <2>1. Setup[device][step] \in Commands
      BY <1>4, SetupCommands DEF SetUp, ListenInv
    <2>2. refused' \in BOOLEAN
      BY <1>4, Zenon DEF SetUp, ListenInv
    <2>3. Send(Setup[device][step]) /\ UNCHANGED <<device, receiving, step>>
          /\ task' = "setup" /\ task = "setup"
      BY <1>4 DEF SetUp
    <2> QED
      BY <2>1, <2>2, <2>3, Sending
  <1>5. CASE Poll
    <2>1. /\ UNCHANGED <<device, receiving, refused, asked, modem>>
          /\ UNCHANGED <<task, step>> \/ End(TRUE) \/ End(FALSE)
      <3>1. CASE PollE5
        BY <3>1 DEF PollE5, module
      <3>2. CASE PollFeather
        <4>1. \E ok \in BOOLEAN : UNCHANGED <<task, step>> \/ End(ok)
          BY <3>2 DEF PollFeather
        <4>2. UNCHANGED <<task, step>> \/ End(TRUE) \/ End(FALSE)
          BY <4>1
        <4> QED
          BY <3>2, <4>2 DEF PollFeather, module
      <3> QED
        BY <1>5, <3>1, <3>2 DEF Poll
    <2> QED
      BY <1>0, <2>1, EndOfCommand, Otherwise
  <1>6. CASE Timeout
    BY <1>6, EndOfCommand, Otherwise DEF Timeout
  <1>7. CASE StartRead
    <2>1. refused' \in BOOLEAN
      BY <1>7, Zenon DEF StartRead, ListenInv
    <2>2. CASE Send(Listen)
      BY <1>7, <2>1, <2>2, OrderedCommands, Sending DEF StartRead
    <2>3. CASE /\ device = "UART_FEATHER" \/ modem = "RXLRPKT"
               /\ UNCHANGED <<asked, modem>>
      <3>1. UNCHANGED <<device, receiving, refused, asked, modem>> /\ task' = "read"
        BY <1>7, <2>3 DEF StartRead
      <3> QED
        BY <2>3, <3>1 DEF ListenInv
    <2> QED
      BY <1>7, <2>2, <2>3 DEF StartRead
  <1>8. CASE Read
    BY <1>0, <1>8, Otherwise DEF Read, ReadE5, ReadFeather, module
  <1>9. CASE StartWrite
    <2>1. refused' \in BOOLEAN
      BY <1>9, Zenon DEF StartWrite
    <2> QED
      BY <1>9, <2>1, OrderedCommands, Sending DEF StartWrite
  <1>10. CASE Failed \/ UNCHANGED loraVars
    <2>1. UNCHANGED loraVars
      BY <1>10 DEF Failed
    <2> QED
      BY <1>0, <2>1, Otherwise DEF loraVars, module
  <1> QED
    BY <1>1, <1>2, <1>3, <1>4, <1>5, <1>6, <1>7, <1>8, <1>9, <1>10 DEF LoraNext, Module

\* While read_data waits, the module listens, or is about to, or has refused
\* since the last transmission.
THEOREM Listens == LoraSpec => []ListensUnlessRefused
<1>1. ListenInv => ListensUnlessRefused
  BY DEF ListenInv, ListensUnlessRefused
<1> QED
  BY <1>1, ListenInit, ListenStep, PTL DEF LoraSpec

-----------------------------------------------------------------------------
(* Lines and what is filtered from them. *)

\* A set of numbers has a least one.
LEMMA Least ==
  ASSUME NEW T \in SUBSET Nat, T # {}
  PROVE  \E m \in T : \A k \in T : m <= k
<1> DEFINE R == OpToRel(<, Nat)
<1>1. \A x, y \in Nat : <<y, x>> \in R <=> y < x
  BY DEF OpToRel
<1>2. IsWellFoundedOn(R, Nat)
  BY NatLessThanWellFounded, Zenon
<1> HIDE DEF R
<1>3. PICK x \in T : \A y \in T : ~(<<y, x>> \in R)
  BY <1>2, WFMin, Zenon
<1>4. ASSUME NEW y \in T PROVE x <= y
  <2>1. x \in Nat /\ y \in Nat
    OBVIOUS
  <2>2. ~(y < x)
    BY <2>1, <1>1, <1>3
  <2> QED
    BY <2>1, <2>2
<1> QED
  BY <1>4

\* Induction, with a set of numbers in place of a predicate.
LEMMA AllNumbers ==
  ASSUME NEW T, 0 \in T, \A n \in Nat : n \in T => n + 1 \in T
  PROVE  Nat \subseteq T
<1> SUFFICES ASSUME NEW n \in Nat, n \notin T PROVE FALSE
  OBVIOUS
<1> DEFINE U == {k \in Nat : k \notin T}
<1>1. U \in SUBSET Nat /\ U # {}
  OBVIOUS
<1>2. PICK m \in U : \A k \in U : m <= k
  <2> HIDE DEF U
  <2> QED
    BY <1>1, Least
<1>3. m # 0 /\ m - 1 \in Nat /\ m - 1 \notin U
  BY <1>2
<1> QED
  BY <1>2, <1>3

\* A set of numbers with a bound has a greatest one.
LEMMA Greatest ==
  ASSUME NEW n \in Nat, NEW T \in SUBSET (1..n), T # {}
  PROVE  /\ Max(T) \in T
         /\ \A k \in T : k <= Max(T)
<1> DEFINE U == {n - k : k \in T}
<1>1. U \in SUBSET Nat /\ U # {}
  OBVIOUS
<1>2. PICK m \in U : \A k \in U : m <= k
  <2> HIDE DEF U
  <2> QED
    BY <1>1, Least
<1>3. n - m \in T /\ \A k \in T : n - m >= k
  BY <1>2
<1>4. \E x \in T : \A y \in T : x >= y
  BY <1>3
<1>5. Max(T) \in T /\ \A y \in T : Max(T) >= y
  BY <1>4, Zenon DEF Max
<1> QED
  BY <1>5

\* The lines that cross the serial port.
Line == [type : {"signal", "payload"}, n : Nat]
        \cup [type : {"answer"}, what : Commands \cup {"OK", "ERROR"}]

\* The numbers of the packets among the first i lines, for each i to n.
UpTo(lines, n, f) ==
  f = [i \in 0..n |->
         IF i = 0 THEN <<>>
         ELSE IF IsPayload(lines[i]) THEN Append(f[i - 1], lines[i].n) ELSE f[i - 1]]

\* What the function says of each line.
LEMMA UpToStep ==
  ASSUME NEW s, NEW n \in Nat, NEW f, UpTo(s, n, f)
  PROVE  /\ f[0] = <<>>
         /\ \A i \in 1..n : f[i] = IF IsPayload(s[i]) THEN Append(f[i - 1], s[i].n)
                                                      ELSE f[i - 1]
<1>1. \A i \in 0..n : f[i] = IF i = 0 THEN <<>>
                              ELSE IF IsPayload(s[i]) THEN Append(f[i - 1], s[i].n)
                                                      ELSE f[i - 1]
  BY DEF UpTo
<1>2. 0 \in 0..n /\ \A i \in 1..n : i \in 0..n /\ i # 0
  OBVIOUS
<1> HIDE DEF UpTo
<1> QED
  BY <1>1, <1>2

\* With one line more.
LEMMA UpToLast ==
  ASSUME NEW s, NEW n \in Nat, NEW f, UpTo(s, n + 1, f)
  PROVE  f[n + 1] = IF IsPayload(s[n + 1]) THEN Append(f[n], s[n + 1].n) ELSE f[n]
<1>1. n + 1 \in Nat /\ n + 1 \in 1..(n + 1) /\ (n + 1) - 1 = n
  OBVIOUS
<1>2. f[n + 1] = IF IsPayload(s[n + 1]) THEN Append(f[(n + 1) - 1], s[n + 1].n)
                                        ELSE f[(n + 1) - 1]
  BY <1>1, UpToStep
<1> QED
  BY <1>1, <1>2

\* It exists: by induction on the number of lines.
LEMMA UpToExists ==
  ASSUME NEW s \in Seq(Line)
  PROVE  /\ \E f : UpTo(s, Len(s), f)
<1> DEFINE T == {n \in Nat : \E f : UpTo(s, n, f)}
<1>1. 0 \in T
  <2>1. UpTo(s, 0, [i \in 0..0 |-> <<>>])
    BY DEF UpTo
  <2> QED
    BY <2>1
<1>2. ASSUME NEW n \in Nat, n \in T PROVE n + 1 \in T
  <2>1. PICK f : UpTo(s, n, f)
    BY <1>2
  <2> DEFINE last == IF IsPayload(s[n + 1]) THEN Append(f[n], s[n + 1].n) ELSE f[n]
             g == [i \in 0..(n + 1) |-> IF i = n + 1 THEN last ELSE f[i]]
  <2>2. ASSUME NEW i \in 0..(n + 1)
        PROVE  g[i] = IF i = 0 THEN <<>>
                      ELSE IF IsPayload(s[i]) THEN Append(g[i - 1], s[i].n) ELSE g[i - 1]
    <3>1. CASE i = n + 1
      <4>1. g[i] = last /\ g[i - 1] = f[n]
        BY <3>1
      <4> QED
        BY <3>1, <4>1
    <3>2. CASE i = 0
      BY <2>1, <3>2 DEF UpTo
    <3>3. CASE i \in 1..n
      <4>1. g[i] = f[i] /\ g[i - 1] = f[i - 1]
        BY <3>3
      <4>2. f[i] = IF IsPayload(s[i]) THEN Append(f[i - 1], s[i].n) ELSE f[i - 1]
        BY <2>1, <3>3, UpToStep
      <4> QED
        BY <3>3, <4>1, <4>2
    <3> QED
      BY <3>1, <3>2, <3>3
  <2>3. UpTo(s, n + 1, g)
    <3>1. g = [i \in 0..(n + 1) |-> g[i]]
      OBVIOUS
    <3>2. [i \in 0..(n + 1) |-> g[i]]
           = [i \in 0..(n + 1) |->
               IF i = 0 THEN <<>>
               ELSE IF IsPayload(s[i]) THEN Append(g[i - 1], s[i].n) ELSE g[i - 1]]
      <4> HIDE DEF g
      <4> QED
        BY <2>2, Zenon
    <3> HIDE DEF g
    <3> QED
      BY <3>1, <3>2, Zenon DEF UpTo
  <2> QED
    BY <2>3
<1>3. Nat \subseteq T
  <2> HIDE DEF T
  <2> QED
    BY <1>1, <1>2, AllNumbers
<1> QED
  BY <1>3, LenProperties

\* Numbers is its last value.
LEMMA NumbersUpTo ==
  ASSUME NEW s \in Seq(Line)
  PROVE  \E f : UpTo(s, Len(s), f) /\ Numbers(s) = f[Len(s)]
<1> DEFINE f == CHOOSE g : UpTo(s, Len(s), g)
<1>1. UpTo(s, Len(s), f)
  BY UpToExists
<1>2. Numbers(s) = f[Len(s)]
  BY DEF Numbers, UpTo
<1> QED
  BY <1>1, <1>2

\* Of two sequences with a common beginning.
LEMMA UpToAgree ==
  ASSUME NEW s \in Seq(Line), NEW t \in Seq(Line), NEW m \in Nat,
         m <= Len(s), m <= Len(t), \A i \in 1..m : s[i] = t[i],
         NEW f, NEW g, UpTo(s, Len(s), f), UpTo(t, Len(t), g)
  PROVE  f[m] = g[m]
<1> DEFINE T == {n \in Nat : n <= m => f[n] = g[n]}
<1>0. Len(s) \in Nat /\ Len(t) \in Nat
  OBVIOUS
<1>1. 0 \in T
  BY <1>0, UpToStep
<1>2. ASSUME NEW n \in Nat, n \in T PROVE n + 1 \in T
  <2> SUFFICES ASSUME n + 1 <= m PROVE f[n + 1] = g[n + 1]
    OBVIOUS
  <2>1. /\ n + 1 \in 1..m /\ n + 1 \in 1..Len(s) /\ n + 1 \in 1..Len(t)
        /\ f[n] = g[n] /\ n + 1 - 1 = n
    BY <1>0, <1>2
  <2>2. f[n + 1] = IF IsPayload(s[n + 1]) THEN Append(f[n + 1 - 1], s[n + 1].n) ELSE f[n + 1 - 1]
    BY <1>0, <2>1, UpToStep
  <2>3. g[n + 1] = IF IsPayload(t[n + 1]) THEN Append(g[n + 1 - 1], t[n + 1].n) ELSE g[n + 1 - 1]
    BY <1>0, <2>1, UpToStep
  <2> QED
    BY <2>1, <2>2, <2>3
<1>3. Nat \subseteq T
  <2> HIDE DEF T
  <2> QED
    BY <1>1, <1>2, AllNumbers
<1> QED
  BY <1>3

\* No lines, no packets.
LEMMA NumbersOfNone == Numbers(<<>>) = <<>>
<1>1. <<>> \in Seq(Line) /\ Len(<<>>) = 0
  OBVIOUS
<1>2. PICK f : UpTo(<<>>, 0, f) /\ Numbers(<<>>) = f[0]
  BY <1>1, NumbersUpTo
<1> QED
  BY <1>2 DEF UpTo

\* One line more is one packet more, or none.
LEMMA NumbersAppend ==
  ASSUME NEW s \in Seq(Line), NEW l \in Line
  PROVE  Numbers(Append(s, l)) =
           IF IsPayload(l) THEN Append(Numbers(s), l.n) ELSE Numbers(s)
<1> DEFINE t == Append(s, l)
           n == Len(s)
<1>1. t \in Seq(Line) /\ Len(t) = n + 1 /\ n \in Nat /\ t[n + 1] = l /\ \A i \in 1..n : s[i] = t[i]
  BY AppendProperties
<1>2. PICK f : UpTo(s, n, f) /\ Numbers(s) = f[n]
  BY NumbersUpTo
<1>3. PICK g : UpTo(t, n + 1, g) /\ Numbers(t) = g[n + 1]
  BY <1>1, NumbersUpTo
<1> HIDE DEF t, n
<1>4. g[n] = f[n]
  BY <1>1, <1>2, <1>3, UpToAgree DEF n
<1>5. g[n + 1] = IF IsPayload(t[n + 1]) THEN Append(g[n], t[n + 1].n) ELSE g[n]
  BY <1>1, <1>3, UpToLast
<1> QED
  BY <1>1, <1>2, <1>3, <1>4, <1>5 DEF t

\* One line more.
LEMMA OneMore ==
  ASSUME NEW S, NEW s \in Seq(S), NEW m \in 1..Len(s), NEW n \in (m - 1)..(Len(s) - 1)
  PROVE  /\ SubSeq(s, m, n) \in Seq(S) /\ s[n + 1] \in S
         /\ SubSeq(s, m, n + 1) = Append(SubSeq(s, m, n), s[n + 1])
<1>1. /\ Len(s) \in Nat /\ m \in Int /\ n \in Int
      /\ n + 1 \in m..Len(s) /\ n + 1 \in 1..Len(s) /\ (n + 1) - 1 = n
  OBVIOUS
<1>2. \A i \in m..n : s[i] \in S
  BY <1>1
<1>3. SubSeq(s, m, n) \in Seq(S)
  BY <1>1, <1>2, SubSeqProperties
<1>4. s[n + 1] \in S
  BY <1>1, ElementOfSeq
<1>5. SubSeq(s, m, n + 1) = SubSeq(s, m, (n + 1) - 1) \o <<s[n + 1]>>
  BY <1>1, SubSeqRecursiveSecond
<1>6. SubSeq(s, m, n + 1) = SubSeq(s, m, n) \o <<s[n + 1]>>
  BY <1>1, <1>5
<1> QED
  BY <1>3, <1>4, <1>6, AppendIsConcat

\* Appending to the second of two sequences.
LEMMA AppendToConcat ==
  ASSUME NEW x \in Seq(Nat), NEW y \in Seq(Nat), NEW e \in Nat
  PROVE  Append(x \o y, e) = x \o Append(y, e)
<1>1. x \o y \in Seq(Nat) /\ <<e>> \in Seq(Nat)
  BY ConcatProperties
<1>2. Append(x \o y, e) = (x \o y) \o <<e>> /\ Append(y, e) = y \o <<e>>
  BY <1>1, AppendIsConcat
<1>3. (x \o y) \o <<e>> = x \o (y \o <<e>>)
  BY <1>1, ConcatAssociative
<1> QED
  BY <1>2, <1>3, Zenon

\* Packets are numbers.
LEMMA NumbersType ==
  ASSUME NEW s \in Seq(Line)
  PROVE  Numbers(s) \in Seq(Nat)
<1> DEFINE T == {n \in Nat : n <= Len(s) => Numbers(SubSeq(s, 1, n)) \in Seq(Nat)}
<1>1. 0 \in T
  <2>1. SubSeq(s, 1, 0) = <<>>
    BY SubSeqEmpty
  <2>2. <<>> \in Seq(Nat)
    OBVIOUS
  <2>3. Numbers(SubSeq(s, 1, 0)) \in Seq(Nat)
    BY <2>1, <2>2, NumbersOfNone, Zenon
  <2>4. 0 \in Nat
    OBVIOUS
  <2> QED
    BY <2>3, <2>4, Zenon
<1>2. ASSUME NEW n \in Nat, n \in T PROVE n + 1 \in T
  <2> SUFFICES ASSUME n + 1 <= Len(s) PROVE Numbers(SubSeq(s, 1, n + 1)) \in Seq(Nat)
    OBVIOUS
  <2>1. 1 \in 1..Len(s) /\ n \in (1 - 1)..(Len(s) - 1) /\ Numbers(SubSeq(s, 1, n)) \in Seq(Nat)
    BY <1>2, LenProperties
  <2> HIDE DEF T
  <2>2. /\ SubSeq(s, 1, n) \in Seq(Line) /\ s[n + 1] \in Line
        /\ SubSeq(s, 1, n + 1) = Append(SubSeq(s, 1, n), s[n + 1])
    BY <2>1, OneMore
  <2>3. IsPayload(s[n + 1]) => s[n + 1].n \in Nat
    BY <2>2 DEF Line, IsPayload
  <2>4. \/ Numbers(SubSeq(s, 1, n + 1)) = Numbers(SubSeq(s, 1, n))
        \/ /\ IsPayload(s[n + 1])
           /\ Numbers(SubSeq(s, 1, n + 1)) = Append(Numbers(SubSeq(s, 1, n)), s[n + 1].n)
    BY <2>2, NumbersAppend
  <2>5. IsPayload(s[n + 1]) => Append(Numbers(SubSeq(s, 1, n)), s[n + 1].n) \in Seq(Nat)
    BY <2>1, <2>3, AppendProperties
  <2> QED
    BY <2>1, <2>4, <2>5, Zenon
<1>3. Nat \subseteq T
  <2> HIDE DEF T
  <2> QED
    BY <1>1, <1>2, AllNumbers
<1>4. Len(s) \in Nat /\ Len(s) <= Len(s) /\ SubSeq(s, 1, Len(s)) = s
  BY LenProperties, SubSeqFull
<1>5. Len(s) \in T
  BY <1>3, <1>4, Zenon
<1> QED
  BY <1>4, <1>5, Zenon

\* The packets of a sequence of lines are those of its beginning and those of the
\* rest.
LEMMA NumbersSplit ==
  ASSUME NEW s \in Seq(Line), NEW k \in 0..Len(s)
  PROVE  /\ SubSeq(s, 1, k) \in Seq(Line) /\ SubSeq(s, k + 1, Len(s)) \in Seq(Line)
         /\ Numbers(s) = Numbers(SubSeq(s, 1, k)) \o Numbers(SubSeq(s, k + 1, Len(s)))
<1> DEFINE T == {n \in Nat : k + n <= Len(s) =>
                   Numbers(SubSeq(s, 1, k + n)) =
                     Numbers(SubSeq(s, 1, k)) \o Numbers(SubSeq(s, k + 1, k + n))}
<1>0. /\ Len(s) \in Nat /\ k \in Nat /\ Len(s) - k \in Nat /\ k + (Len(s) - k) = Len(s)
      /\ Len(s) <= Len(s)
      /\ \A i \in 1..Len(s) : s[i] \in Line
  BY LenProperties, ElementOfSeq
<1>p. SubSeq(s, 1, k) \in Seq(Line) /\ SubSeq(s, k + 1, Len(s)) \in Seq(Line)
  BY <1>0, SubSeqProperties
<1>q. Numbers(SubSeq(s, 1, k)) \in Seq(Nat)
  BY <1>p, NumbersType
<1>1. 0 \in T
  <2>1. SubSeq(s, k + 1, k) = <<>>
    BY <1>0, SubSeqEmpty
  <2>2. Numbers(SubSeq(s, 1, k)) \o <<>> = Numbers(SubSeq(s, 1, k))
    BY <1>q, ConcatEmptySeq
  <2>3. k + 0 = k
    BY <1>0
  <2> QED
    BY <2>1, <2>2, <2>3, NumbersOfNone
<1>2. ASSUME NEW n \in Nat, n \in T PROVE n + 1 \in T
  <2> SUFFICES ASSUME k + (n + 1) <= Len(s)
               PROVE  Numbers(SubSeq(s, 1, k + (n + 1))) =
                        Numbers(SubSeq(s, 1, k)) \o Numbers(SubSeq(s, k + 1, k + (n + 1)))
    OBVIOUS
  <2> DEFINE m == k + n
  <2>1. /\ 1 \in 1..Len(s) /\ m \in (1 - 1)..(Len(s) - 1)
        /\ k + 1 \in 1..Len(s) /\ m \in ((k + 1) - 1)..(Len(s) - 1)
        /\ k + (n + 1) = m + 1
    BY <1>0
  <2>2. Numbers(SubSeq(s, 1, m)) = Numbers(SubSeq(s, 1, k)) \o Numbers(SubSeq(s, k + 1, m))
    BY <1>0, <1>2
  <2> HIDE DEF T, m
  <2>3. /\ SubSeq(s, 1, m) \in Seq(Line) /\ s[m + 1] \in Line
        /\ SubSeq(s, 1, m + 1) = Append(SubSeq(s, 1, m), s[m + 1])
    BY <2>1, OneMore
  <2>4. /\ SubSeq(s, k + 1, m) \in Seq(Line)
        /\ SubSeq(s, k + 1, m + 1) = Append(SubSeq(s, k + 1, m), s[m + 1])
    BY <2>1, OneMore
  <2>5. Numbers(SubSeq(s, k + 1, m)) \in Seq(Nat)
    BY <2>4, NumbersType
  <2>6. CASE IsPayload(s[m + 1])
    <3>1. s[m + 1].n \in Nat
      BY <2>3, <2>6 DEF Line, IsPayload
    <3>2. /\ Numbers(SubSeq(s, 1, m + 1)) = Append(Numbers(SubSeq(s, 1, m)), s[m + 1].n)
          /\ Numbers(SubSeq(s, k + 1, m + 1)) = Append(Numbers(SubSeq(s, k + 1, m)), s[m + 1].n)
      BY <2>3, <2>4, <2>6, NumbersAppend
    <3>3. Append(Numbers(SubSeq(s, 1, k)) \o Numbers(SubSeq(s, k + 1, m)), s[m + 1].n) =
            Numbers(SubSeq(s, 1, k)) \o Append(Numbers(SubSeq(s, k + 1, m)), s[m + 1].n)
      BY <1>q, <2>5, <3>1, AppendToConcat
    <3> QED
      BY <2>1, <2>2, <3>2, <3>3, Zenon
  <2>7. CASE ~IsPayload(s[m + 1])
    <3>1. /\ Numbers(SubSeq(s, 1, m + 1)) = Numbers(SubSeq(s, 1, m))
          /\ Numbers(SubSeq(s, k + 1, m + 1)) = Numbers(SubSeq(s, k + 1, m))
      BY <2>3, <2>4, <2>7, NumbersAppend
    <3> QED
      BY <2>1, <2>2, <3>1
  <2> QED
    BY <2>6, <2>7
<1>3. Nat \subseteq T
  <2> HIDE DEF T
  <2> QED
    BY <1>1, <1>2, AllNumbers
<1>4. Len(s) - k \in T
  <2> HIDE DEF T
  <2> QED
    BY <1>0, <1>3
<1>5. Numbers(SubSeq(s, 1, Len(s))) =
        Numbers(SubSeq(s, 1, k)) \o Numbers(SubSeq(s, k + 1, Len(s)))
  BY <1>0, <1>4, Zenon
<1>6. SubSeq(s, 1, Len(s)) = s
  BY SubSeqFull
<1> QED
  BY <1>p, <1>5, <1>6, Zenon

-----------------------------------------------------------------------------
(* LoRa: what is read. *)

\* What the driver has still to look at: the lines of the E5, the packets of the
\* Feather.
Stream == buffer \o line
Queue == packets \o Numbers(line)

\* Packets come in the order they were received, each behind its own signal.
InOrder(s, h) ==
  /\ \A i \in 1..Len(s) : IsPayload(s[i]) => s[i].n <= h
  /\ \A i, j \in 1..Len(s) : i < j /\ IsPayload(s[i]) /\ IsPayload(s[j]) => s[i].n < s[j].n
  /\ \A i \in 1..Len(s) : i > 1 /\ IsPayload(s[i]) =>
       IsSignal(s[i - 1]) /\ s[i - 1].n = s[i].n

\* None of them has been read.
Unread(s, r) ==
  \A i \in 1..Len(r), j \in 1..Len(s) : IsPayload(s[j]) => r[i].n < s[j].n

\* The newest packet is the end of the line or has been read, unless a command
\* may have taken it.
NewestInv ==
  undisturbed =>
    /\ asked = <<>> /\ waiting = Nobody
    /\ line # <<>> => IsPayload(line[Len(line)]) /\ line[Len(line)].n = heard
    /\ line = <<>> => /\ buffer = <<>> /\ read # <<>>
                      /\ read[Len(read)].n = heard

\* The types of what ReadsWhatItHeard is about.
LoraTypeInv ==
  /\ heard \in Nat
  /\ line \in Seq(Line) /\ buffer \in Seq(Line) /\ packets \in Seq(Nat)
  /\ read \in Seq([n : Nat, signal : Nat])
  /\ modem \in {"RXLRPKT", "NOT_CONTINUOUS"}
  /\ step \in 1..Len(Setup[device]) + 1
  /\ device = "UART_E5" => packets = <<>>
  /\ device = "UART_FEATHER" => buffer = <<>>

\* The E5: what it has read is older than what is on its way.
E5Inv ==
  device = "UART_E5" =>
    /\ InOrder(Stream, heard) /\ Unread(Stream, read) /\ NewestInv
    /\ \A i \in 1..Len(read) : read[i].n <= heard
    /\ \A i, j \in 1..Len(read) : i < j => read[i].n < read[j].n

\* The Feather: what it has read and what is on its way is all that was heard.
FeatherInv ==
  device = "UART_FEATHER" =>
    /\ Len(read) + Len(Queue) = heard
    /\ \A i \in 1..Len(Queue) : Queue[i] = Len(read) + i
    /\ \A i \in 1..Len(read) : read[i].n = i

\* A signal strength is that of its own packet, or none.
OwnSignal == \A i \in 1..Len(read) : read[i].signal \in {0, read[i].n}

\* The inductive invariant.
ReadInv == ListenInv /\ LoraTypeInv /\ E5Inv /\ FeatherInv /\ OwnSignal

-----------------------------------------------------------------------------

\* What is taken from the line, and what is left.
LEMMA Taking ==
  ASSUME line \in Seq(Line), NEW n \in 0..Len(line), NEW lines,
         lines = SubSeq(line, 1, n), Take(lines)
  PROVE  /\ lines \in Seq(Line) /\ line' \in Seq(Line)
         /\ line = lines \o line'
         /\ Len(lines) = n /\ Len(line') = Len(line) - n
         /\ \A i \in 1..Len(line') : line'[i] = line[i + n]
         /\ Numbers(lines) \in Seq(Nat) /\ Numbers(line') \in Seq(Nat)
         /\ Numbers(line) = Numbers(lines) \o Numbers(line')
<1>1. /\ Len(line) \in Nat /\ n \in Nat /\ n <= Len(line)
      /\ \A i \in 1..Len(line) : line[i] \in Line
  BY LenProperties, ElementOfSeq
<1>2. lines \in Seq(Line) /\ Len(lines) = n
  BY <1>1, SubSeqProperties
<1>3. line' = SubSeq(line, n + 1, Len(line))
  BY <1>2 DEF Take
<1>4. /\ line' \in Seq(Line) /\ Len(line') = Len(line) - n
      /\ \A i \in 1..Len(line') : line'[i] = line[i + n]
  BY <1>1, <1>3, SubSeqProperties
<1>5. Numbers(line) = Numbers(lines) \o Numbers(line')
  BY <1>3, NumbersSplit
<1>6. line = lines \o line'
  <2>1. lines \o line' \in Seq(Line) /\ Len(lines \o line') = Len(line)
    BY <1>1, <1>2, <1>4, ConcatProperties
  <2>2. ASSUME NEW i \in 1..Len(line) PROVE line[i] = (lines \o line')[i]
    BY <1>1, <1>2, <1>4
  <2> QED
    BY <2>1, <2>2, SeqEqual
<1> QED
  BY <1>2, <1>4, <1>5, <1>6, NumbersType

\* A poll takes some of the lines, or none if there are none.
LEMMA Polled ==
  ASSUME line \in Seq(Line), NEW lines \in IF line = <<>> THEN {<<>>} ELSE Arrivals
  PROVE  \E n \in 0..Len(line) : lines = SubSeq(line, 1, n)
<1>1. Len(line) \in Nat
  OBVIOUS
<1>2. CASE line = <<>>
  <2>1. SubSeq(line, 1, 0) = <<>>
    BY SubSeqEmpty
  <2> QED
    BY <1>1, <1>2, <2>1
<1>3. CASE line # <<>>
  BY <1>1, <1>3 DEF Arrivals
<1> QED
  BY <1>2, <1>3

\* What holds of a stream holds of its end.
LEMMA Ends ==
  ASSUME NEW s \in Seq(Line), NEW t \in Seq(Line), NEW k \in Nat, Len(s) = Len(t) + k,
         \A i \in 1..Len(t) : t[i] = s[i + k],
         NEW h, NEW r, InOrder(s, h), Unread(s, r)
  PROVE  InOrder(t, h) /\ Unread(t, r)
<1>1. Len(t) \in Nat /\ Len(s) \in Nat
  OBVIOUS
<1>2. ASSUME NEW i \in 1..Len(t) PROVE i + k \in 1..Len(s) /\ t[i] = s[i + k]
  BY <1>1
<1>3. ASSUME NEW i \in 1..Len(t), IsPayload(t[i]) PROVE t[i].n <= h
  BY <1>2, <1>3 DEF InOrder
<1>4. ASSUME NEW i \in 1..Len(t), NEW j \in 1..Len(t), i < j, IsPayload(t[i]), IsPayload(t[j])
      PROVE  t[i].n < t[j].n
  <2>1. i + k < j + k
    BY <1>1, <1>4
  <2> QED
    BY <1>2, <1>4, <2>1 DEF InOrder
<1>5. ASSUME NEW i \in 1..Len(t), i > 1, IsPayload(t[i])
      PROVE  IsSignal(t[i - 1]) /\ t[i - 1].n = t[i].n
  <2>1. i - 1 \in 1..Len(t) /\ (i - 1) + k = (i + k) - 1 /\ i + k > 1
    BY <1>1, <1>5
  <2>2. t[i - 1] = s[(i + k) - 1] /\ t[i] = s[i + k] /\ i + k \in 1..Len(s)
    BY <1>2, <2>1
  <2> QED
    BY <1>5, <2>1, <2>2 DEF InOrder
<1>6. Unread(t, r)
  BY <1>2 DEF Unread
<1> QED
  BY <1>3, <1>4, <1>5, <1>6 DEF InOrder

\* The driver drops some of the lines it has, and the rest of the line stays.
LEMMA Dropping ==
  ASSUME NEW all \in Seq(Line), NEW rest \in Seq(Line), NEW k \in 0..Len(all),
         NEW h, NEW r, InOrder(all \o rest, h), Unread(all \o rest, r)
  PROVE  /\ SubSeq(all, k + 1, Len(all)) \in Seq(Line)
         /\ InOrder(SubSeq(all, k + 1, Len(all)) \o rest, h)
         /\ Unread(SubSeq(all, k + 1, Len(all)) \o rest, r)
<1> DEFINE left == SubSeq(all, k + 1, Len(all))
           s == all \o rest
           t == left \o rest
<1>1. /\ Len(all) \in Nat /\ Len(rest) \in Nat /\ k \in Nat /\ k <= Len(all)
      /\ \A i \in 1..Len(all) : all[i] \in Line
  BY LenProperties, ElementOfSeq
<1>2. /\ left \in Seq(Line) /\ Len(left) = Len(all) - k
      /\ \A i \in 1..Len(left) : left[i] = all[i + k]
  BY <1>1, SubSeqProperties
<1>3. /\ s \in Seq(Line) /\ Len(s) = Len(all) + Len(rest)
      /\ \A i \in 1..(Len(all) + Len(rest)) :
           s[i] = IF i <= Len(all) THEN all[i] ELSE rest[i - Len(all)]
  BY ConcatProperties
<1> HIDE DEF left
<1>4. /\ t \in Seq(Line) /\ Len(t) = Len(left) + Len(rest)
      /\ \A i \in 1..(Len(left) + Len(rest)) :
           t[i] = IF i <= Len(left) THEN left[i] ELSE rest[i - Len(left)]
  BY <1>2, ConcatProperties
<1> HIDE DEF s, t
<1>5. Len(s) = Len(t) + k
  BY <1>1, <1>2, <1>3, <1>4
<1>6. ASSUME NEW i \in 1..Len(t) PROVE t[i] = s[i + k]
  <2>1. i + k \in 1..(Len(all) + Len(rest)) /\ i \in 1..(Len(left) + Len(rest))
    BY <1>1, <1>2, <1>4
  <2>2. CASE i <= Len(left)
    <3>1. i \in 1..Len(left) /\ i + k <= Len(all)
      BY <1>1, <1>2, <2>2
    <3>2. t[i] = left[i] /\ s[i + k] = all[i + k]
      BY <1>3, <1>4, <2>1, <2>2, <3>1
    <3> QED
      BY <1>2, <3>1, <3>2
  <2>3. CASE ~(i <= Len(left))
    <3>1. i - Len(left) = (i + k) - Len(all) /\ ~(i + k <= Len(all))
      BY <1>1, <1>2, <2>3
    <3> QED
      BY <1>3, <1>4, <2>1, <2>3, <3>1
  <2> QED
    BY <2>2, <2>3
<1>7. InOrder(s, h) /\ Unread(s, r)
  BY DEF s
<1>8. InOrder(t, h) /\ Unread(t, r)
  BY <1>1, <1>3, <1>4, <1>5, <1>6, <1>7, Ends
<1> QED
  BY <1>2, <1>8 DEF t, left

\* An answer at the end changes nothing.
LEMMA Answered ==
  ASSUME NEW s \in Seq(Line), NEW t \in Seq(Line), Len(t) = Len(s) + 1,
         \A i \in 1..Len(s) : t[i] = s[i], ~IsPayload(t[Len(s) + 1]),
         NEW h, NEW r, InOrder(s, h), Unread(s, r)
  PROVE  InOrder(t, h) /\ Unread(t, r)
<1>1. Len(s) \in Nat
  OBVIOUS
<1>2. ASSUME NEW i \in 1..Len(t), IsPayload(t[i]) PROVE i \in 1..Len(s) /\ t[i] = s[i]
  <2>1. i # Len(s) + 1
    BY <1>2
  <2> QED
    BY <1>1, <2>1
<1>3. ASSUME NEW i \in 1..Len(t), i > 1, IsPayload(t[i])
      PROVE  IsSignal(t[i - 1]) /\ t[i - 1].n = t[i].n
  <2>1. i \in 1..Len(s) /\ i - 1 \in 1..Len(s)
    BY <1>1, <1>2, <1>3
  <2> QED
    BY <1>3, <2>1 DEF InOrder
<1>4. \A i \in 1..Len(t) : IsPayload(t[i]) => t[i].n <= h
  BY <1>2 DEF InOrder
<1>5. \A i, j \in 1..Len(t) : i < j /\ IsPayload(t[i]) /\ IsPayload(t[j]) => t[i].n < t[j].n
  BY <1>2 DEF InOrder
<1>6. Unread(t, r)
  BY <1>2 DEF Unread
<1> QED
  BY <1>3, <1>4, <1>5, <1>6 DEF InOrder

\* A packet at the end is the newest.
LEMMA HeardLast ==
  ASSUME NEW h \in Nat, NEW s \in Seq(Line), NEW t \in Seq(Line), Len(t) = Len(s) + 2,
         \A i \in 1..Len(s) : t[i] = s[i],
         IsSignal(t[Len(s) + 1]), t[Len(s) + 1].n = h + 1,
         IsPayload(t[Len(s) + 2]), t[Len(s) + 2].n = h + 1,
         NEW r \in Seq([n : Nat, signal : Nat]), \A i \in 1..Len(r) : r[i].n <= h,
         InOrder(s, h), Unread(s, r)
  PROVE  InOrder(t, h + 1) /\ Unread(t, r)
<1>1. /\ Len(s) \in Nat /\ Len(r) \in Nat
      /\ \A i \in 1..Len(r) : r[i].n \in Nat
      /\ \A i \in 1..Len(s) : IsPayload(s[i]) => s[i].n \in Nat
  <2>1. Len(s) \in Nat /\ Len(r) \in Nat
    BY LenProperties
  <2>2. \A i \in 1..Len(r) : r[i] \in [n : Nat, signal : Nat]
    BY ElementOfSeq
  <2>3. \A i \in 1..Len(s) : s[i] \in Line
    BY ElementOfSeq
  <2>4. \A i \in 1..Len(s) : IsPayload(s[i]) => s[i].n \in Nat
    BY <2>3 DEF Line, IsPayload
  <2> QED
    BY <2>1, <2>2, <2>4
<1>2. ~IsPayload(t[Len(s) + 1])
  BY DEF IsPayload, IsSignal
<1>3. ASSUME NEW i \in 1..Len(t), IsPayload(t[i])
      PROVE  \/ i = Len(s) + 2
             \/ i \in 1..Len(s) /\ t[i] = s[i] /\ s[i].n <= h /\ s[i].n \in Nat
  <2>1. i # Len(s) + 1
    BY <1>2, <1>3
  <2>2. i = Len(s) + 2 \/ i \in 1..Len(s)
    <3>1. \A a \in Nat : \A b \in 1..(a + 2) : b = a + 1 \/ b = a + 2 \/ b \in 1..a
      OBVIOUS
    <3>2. i \in 1..(Len(s) + 2)
      OBVIOUS
    <3> QED
      BY <1>1, <2>1, <3>1, <3>2, Zenon
  <2> QED
    BY <1>1, <1>3, <2>2 DEF InOrder
<1>4. ASSUME NEW i \in 1..Len(t), i > 1, IsPayload(t[i])
      PROVE  IsSignal(t[i - 1]) /\ t[i - 1].n = t[i].n
  <2>1. CASE i = Len(s) + 2
    <3>1. i - 1 = Len(s) + 1
      BY <1>1, <2>1
    <3> QED
      BY <2>1, <3>1
  <2>2. CASE i \in 1..Len(s)
    <3>1. i - 1 \in 1..Len(s)
      BY <1>1, <1>4, <2>2
    <3> QED
      BY <1>4, <2>2, <3>1 DEF InOrder
  <2> QED
    BY <1>3, <1>4, <2>1, <2>2
<1>5. \A i \in 1..Len(t) : IsPayload(t[i]) => t[i].n <= h + 1
  BY <1>1, <1>3
<1>6. ASSUME NEW i \in 1..Len(t), NEW j \in 1..Len(t), i < j, IsPayload(t[i]), IsPayload(t[j])
      PROVE  t[i].n < t[j].n
  <2>1. i \in 1..Len(s) /\ t[i] = s[i] /\ s[i].n <= h /\ s[i].n \in Nat
    BY <1>1, <1>3, <1>6
  <2>2. CASE j = Len(s) + 2
    BY <2>1, <2>2
  <2>3. CASE j \in 1..Len(s)
    BY <1>6, <2>1, <2>3 DEF InOrder
  <2> QED
    BY <1>3, <1>6, <2>2, <2>3
<1>7. ASSUME NEW i \in 1..Len(r), NEW j \in 1..Len(t), IsPayload(t[j]) PROVE r[i].n < t[j].n
  <2>1. CASE j = Len(s) + 2
    BY <1>1, <2>1
  <2>2. CASE j \in 1..Len(s)
    BY <1>7, <2>2 DEF Unread
  <2> QED
    BY <1>3, <1>7, <2>1, <2>2
<1> QED
  BY <1>4, <1>5, <1>6, <1>7 DEF InOrder, Unread

\* What is read of a stream in order is its last packet, with its own signal or
\* none.
LEMMA Parsed ==
  ASSUME NEW s \in Seq(Line), NEW h, InOrder(s, h), \E i \in DOMAIN s : IsPayload(s[i])
  PROVE  /\ Parse(s) \in [n : Nat, signal : Nat]
         /\ Parse(s).signal \in {0, Parse(s).n}
         /\ \E p \in 1..Len(s) : /\ IsPayload(s[p]) /\ Parse(s).n = s[p].n
                                 /\ \A i \in 1..Len(s) : IsPayload(s[i]) => i <= p
<1> DEFINE P == {i \in 1..Len(s) : IsPayload(s[i])}
           p == Max(P)
<1>0. Len(s) \in Nat /\ DOMAIN s = 1..Len(s) /\ \A i \in 1..Len(s) : s[i] \in Line
  BY LenProperties, ElementOfSeq
<1>1. P \in SUBSET (1..Len(s)) /\ P # {}
  BY <1>0
<1>2. p \in P /\ \A i \in P : i <= p
  <2> HIDE DEF P
  <2> QED
    BY <1>0, <1>1, Greatest
<1>3. SelectLastInSeq(s, IsPayload) = p
  <2>1. SelectLastInSeq(s, IsPayload) = IF P # {} THEN Max(P) ELSE 0
    BY Zenon DEF SelectLastInSeq
  <2> HIDE DEF P
  <2> QED
    BY <1>1, <2>1
<1> DEFINE Q == {i \in 1..p : IsSignal(s[i])}
           q == SelectLastInSubSeq(s, 1, p, IsSignal)
<1>4. q = IF Q # {} THEN Max(Q) ELSE 0
  BY Zenon DEF SelectLastInSubSeq
<1>5. Parse(s) = [n |-> s[p].n, signal |-> IF q = 0 THEN 0 ELSE s[q].n]
  BY <1>3, Zenon DEF Parse
<1> HIDE DEF q, p
<1>6. p \in 1..Len(s) /\ IsPayload(s[p]) /\ \A i \in 1..Len(s) : IsPayload(s[i]) => i <= p
  BY <1>2
<1>7. s[p].n \in Nat
  BY <1>0, <1>6 DEF Line, IsPayload
<1>8. CASE p = 1
  <2>1. Q = {}
    BY <1>6, <1>8 DEF IsPayload, IsSignal
  <2>2. q = 0
    <3> HIDE DEF Q
    <3> QED
      BY <1>4, <2>1
  <2> HIDE DEF P, Q
  <2> QED
    BY <1>5, <1>6, <1>7, <2>2
<1>9. CASE p # 1
  <2>1. p \in Nat /\ p - 1 \in 1..p /\ p > 1
    BY <1>0, <1>6, <1>9
  <2>2. IsSignal(s[p - 1]) /\ s[p - 1].n = s[p].n
    BY <1>6, <2>1 DEF InOrder
  <2>3. p - 1 \in Q /\ p \notin Q /\ Q \in SUBSET (1..p)
    BY <1>6, <2>1, <2>2 DEF IsPayload, IsSignal
  <2> HIDE DEF P, Q
  <2>4. Q # {} /\ Max(Q) \in Q /\ p - 1 <= Max(Q)
    BY <2>1, <2>3, Greatest
  <2>5. Max(Q) \in 1..p /\ Max(Q) # p
    BY <2>3, <2>4
  <2>6. q = p - 1 /\ q # 0
    BY <1>4, <2>1, <2>4, <2>5
  <2> QED
    BY <1>5, <1>6, <1>7, <2>2, <2>6
<1> QED
  BY <1>8, <1>9


\* A step that moves no line.
LEMMA NothingMoves ==
  ASSUME ReadInv, UNCHANGED <<device, heard, line, buffer, packets, read, undisturbed>>,
         undisturbed => UNCHANGED <<asked, waiting>>,
         modem' \in {"RXLRPKT", "NOT_CONTINUOUS"}, step' \in 1..Len(Setup[device]) + 1
  PROVE  LoraTypeInv' /\ E5Inv' /\ FeatherInv' /\ OwnSignal'
<1>1. LoraTypeInv' /\ OwnSignal'
  BY DEF ReadInv, LoraTypeInv, OwnSignal
<1>2. E5Inv'
  BY DEF ReadInv, E5Inv, NewestInv, Stream
<1>3. FeatherInv'
  BY DEF ReadInv, FeatherInv, Queue
<1> QED
  BY <1>1, <1>2, <1>3

\* The types of what is in transit.
LEMMA Sequences ==
  ASSUME LoraTypeInv
  PROVE  /\ Len(line) \in Nat /\ Len(buffer) \in Nat /\ Len(packets) \in Nat /\ Len(read) \in Nat
         /\ Numbers(line) \in Seq(Nat) /\ Len(Numbers(line)) \in Nat
         /\ Stream \in Seq(Line) /\ Len(Stream) = Len(buffer) + Len(line)
         /\ Queue \in Seq(Nat) /\ Len(Queue) = Len(packets) + Len(Numbers(line))
         /\ \A i \in 1..Len(read) : read[i] \in [n : Nat, signal : Nat]
<1>1. /\ line \in Seq(Line) /\ buffer \in Seq(Line) /\ packets \in Seq(Nat)
      /\ read \in Seq([n : Nat, signal : Nat])
  BY DEF LoraTypeInv
<1>2. Numbers(line) \in Seq(Nat)
  BY <1>1, NumbersType
<1>3. Stream \in Seq(Line) /\ Len(Stream) = Len(buffer) + Len(line)
  BY <1>1, ConcatProperties DEF Stream
<1>4. Queue \in Seq(Nat) /\ Len(Queue) = Len(packets) + Len(Numbers(line))
  BY <1>1, <1>2, ConcatProperties DEF Queue
<1> QED
  BY <1>1, <1>2, <1>3, <1>4, LenProperties, ElementOfSeq

\* A packet is received.
LEMMA HearReads ==
  ASSUME ReadInv, Hear
  PROVE  LoraTypeInv' /\ E5Inv' /\ FeatherInv' /\ OwnSignal'
<1>t. LoraTypeInv /\ E5Inv /\ FeatherInv /\ OwnSignal /\ device \in {"UART_E5", "UART_FEATHER"}
  BY DEF ReadInv, ListenInv
<1>h. /\ heard \in Nat /\ heard' = heard + 1 /\ line \in Seq(Line) /\ buffer \in Seq(Line)
      /\ packets \in Seq(Nat) /\ read \in Seq([n : Nat, signal : Nat])
      /\ UNCHANGED <<device, step, modem, buffer, packets, read, asked, waiting>>
      /\ line' = line \o Received(heard + 1)
      /\ undisturbed' = (asked = <<>> /\ waiting = Nobody)
  BY <1>t DEF Hear, LoraTypeInv
<1> DEFINE sig == [type |-> "signal", n |-> heard + 1]
           pay == [type |-> "payload", n |-> heard + 1]
<1>l. sig \in Line /\ pay \in Line /\ IsSignal(sig) /\ IsPayload(pay) /\ sig.n = heard + 1 /\ pay.n = heard + 1
  BY <1>h DEF Line, IsSignal, IsPayload
<1> HIDE DEF sig, pay
<1>n. Len(line) \in Nat /\ Len(buffer) \in Nat
  BY <1>t, Sequences
<1>1. CASE device = "UART_E5"
  <2>1. line' = line \o <<sig, pay>> /\ <<sig, pay>> \in Seq(Line) /\ Len(<<sig, pay>>) = 2
    BY <1>1, <1>h, <1>l DEF Received, sig, pay
  <2>2. /\ line' \in Seq(Line) /\ Len(line') = Len(line) + 2
        /\ \A i \in 1..Len(line) : line'[i] = line[i]
        /\ line'[Len(line) + 1] = sig /\ line'[Len(line) + 2] = pay
    <3>1. /\ line' \in Seq(Line) /\ Len(line') = Len(line) + Len(<<sig, pay>>)
          /\ \A i \in 1..(Len(line) + Len(<<sig, pay>>)) :
               line'[i] = IF i <= Len(line) THEN line[i] ELSE <<sig, pay>>[i - Len(line)]
      <4> DEFINE pair == <<sig, pay>>
      <4>1. pair \in Seq(Line) /\ line' = line \o pair
        BY <2>1
      <4> HIDE DEF pair
      <4>2. /\ line' \in Seq(Line) /\ Len(line') = Len(line) + Len(pair)
            /\ \A i \in 1..(Len(line) + Len(pair)) :
                 line'[i] = IF i <= Len(line) THEN line[i] ELSE pair[i - Len(line)]
        BY <1>h, <4>1, ConcatProperties
      <4> QED
        BY <4>2 DEF pair
    <3>2. /\ Len(line) + 1 \in 1..(Len(line) + 2) /\ (Len(line) + 1) - Len(line) = 1
          /\ Len(line) + 2 \in 1..(Len(line) + 2) /\ (Len(line) + 2) - Len(line) = 2
          /\ ~(Len(line) + 1 <= Len(line)) /\ ~(Len(line) + 2 <= Len(line))
      BY <1>n
    <3>3. \A i \in 1..Len(line) : line'[i] = line[i]
      BY <1>n, <2>1, <3>1
    <3> QED
      BY <2>1, <3>1, <3>2, <3>3
  <2>3. /\ Stream' = buffer \o line' /\ Stream' \in Seq(Line)
        /\ Len(Stream') = Len(buffer) + Len(line')
        /\ \A i \in 1..(Len(buffer) + Len(line')) :
             Stream'[i] = IF i <= Len(buffer) THEN buffer[i] ELSE line'[i - Len(buffer)]
    BY <1>h, <2>2, ConcatProperties DEF Stream
  <2>4. /\ Stream \in Seq(Line) /\ Len(Stream) = Len(buffer) + Len(line)
        /\ \A i \in 1..(Len(buffer) + Len(line)) :
             Stream[i] = IF i <= Len(buffer) THEN buffer[i] ELSE line[i - Len(buffer)]
    BY <1>h, ConcatProperties DEF Stream
  <2>5. Len(Stream') = Len(Stream) + 2
    BY <1>n, <2>2, <2>3, <2>4
  <2>6. ASSUME NEW i \in 1..Len(Stream) PROVE Stream'[i] = Stream[i]
    <3>1. i \in 1..(Len(buffer) + Len(line)) /\ i \in 1..(Len(buffer) + Len(line'))
      BY <1>n, <2>2, <2>4
    <3>2. CASE i <= Len(buffer)
      BY <2>3, <2>4, <3>1, <3>2
    <3>3. CASE ~(i <= Len(buffer))
      <4>1. i - Len(buffer) \in 1..Len(line)
        BY <1>n, <3>1, <3>3
      <4> QED
        BY <2>2, <2>3, <2>4, <3>1, <3>3, <4>1
    <3> QED
      BY <3>2, <3>3
  <2>7. Stream'[Len(Stream) + 1] = sig /\ Stream'[Len(Stream) + 2] = pay
    <3>1. /\ Len(Stream) + 1 \in 1..(Len(buffer) + Len(line')) /\ ~(Len(Stream) + 1 <= Len(buffer))
          /\ (Len(Stream) + 1) - Len(buffer) = Len(line) + 1
          /\ Len(Stream) + 2 \in 1..(Len(buffer) + Len(line')) /\ ~(Len(Stream) + 2 <= Len(buffer))
          /\ (Len(Stream) + 2) - Len(buffer) = Len(line) + 2
      BY <1>n, <2>2, <2>4
    <3> QED
      BY <2>2, <2>3, <3>1
  <2>8. /\ InOrder(Stream, heard) /\ Unread(Stream, read)
        /\ \A i \in 1..Len(read) : read[i].n <= heard
        /\ \A i, j \in 1..Len(read) : i < j => read[i].n < read[j].n
    BY <1>1, <1>t DEF E5Inv
  <2>9. InOrder(Stream', heard + 1) /\ Unread(Stream', read)
    BY <1>h, <1>l, <2>3, <2>4, <2>5, <2>6, <2>7, <2>8, HeardLast
  <2>10. NewestInv'
    <3>1. line' # <<>> /\ line'[Len(line')] = pay
      BY <1>n, <2>2
    <3> QED
      BY <1>h, <1>l, <3>1 DEF NewestInv
  <2>11. \A i \in 1..Len(read) : read[i].n <= heard + 1
    <3>1. \A i \in 1..Len(read) : read[i].n \in Nat
      BY <1>t, Sequences
    <3> QED
      BY <1>h, <2>8, <3>1
  <2>12. E5Inv'
    BY <1>h, <2>8, <2>9, <2>10, <2>11 DEF E5Inv
  <2> QED
    BY <1>1, <1>h, <1>t, <2>2, <2>12 DEF LoraTypeInv, FeatherInv, OwnSignal
<1>2. CASE device = "UART_FEATHER"
  <2>1. line' = line \o <<pay>>
    BY <1>2, <1>h DEF Received, pay
  <2>2. line' = Append(line, pay) /\ line' \in Seq(Line)
    <3>1. Append(line, pay) \in Seq(Line)
      BY <1>h, <1>l, AppendProperties
    <3>2. Append(line, pay) = line \o <<pay>>
      BY <1>h, <1>l, AppendIsConcat
    <3> QED
      BY <2>1, <3>1, <3>2
  <2>3. Numbers(line') = Append(Numbers(line), heard + 1)
    BY <1>h, <1>l, <2>2, NumbersAppend
  <2>4. Queue' = packets \o Append(Numbers(line), heard + 1)
    BY <1>h, <2>3 DEF Queue
  <2>5. Numbers(line) \in Seq(Nat) /\ Queue \in Seq(Nat) /\ heard + 1 \in Nat
    BY <1>h, <1>t, Sequences
  <2>6. Queue' = Append(Queue, heard + 1)
    BY <1>h, <2>4, <2>5, AppendToConcat DEF Queue
  <2>7. /\ Len(Queue) \in Nat /\ Len(Queue') = Len(Queue) + 1
        /\ \A i \in 1..Len(Queue) : Queue'[i] = Queue[i]
        /\ Queue'[Len(Queue) + 1] = heard + 1
    BY <2>5, <2>6, AppendProperties
  <2>8. /\ Len(read) + Len(Queue) = heard /\ Len(read) \in Nat
        /\ \A i \in 1..Len(Queue) : Queue[i] = Len(read) + i
        /\ \A i \in 1..Len(read) : read[i].n = i
    BY <1>2, <1>t, Sequences DEF FeatherInv
  <2>9. ASSUME NEW i \in 1..Len(Queue') PROVE Queue'[i] = Len(read) + i
    <3>1. CASE i \in 1..Len(Queue)
      BY <2>7, <2>8, <3>1
    <3>2. CASE i = Len(Queue) + 1
      BY <2>7, <2>8, <3>2
    <3> QED
      BY <2>7, <3>1, <3>2
  <2>10. FeatherInv'
    <3>1. Len(read) + Len(Queue') = heard'
      BY <1>h, <2>7, <2>8
    <3> QED
      BY <1>h, <2>8, <2>9, <3>1 DEF FeatherInv
  <2> QED
    BY <1>2, <1>h, <1>t, <2>2, <2>10 DEF LoraTypeInv, E5Inv, OwnSignal
<1> QED
  BY <1>1, <1>2, <1>t

\* An answer of the module is none of the packets.
LEMMA AnswerReads ==
  ASSUME ReadInv, Obey \/ Refuse
  PROVE  LoraTypeInv' /\ E5Inv' /\ FeatherInv' /\ OwnSignal'
<1>t. LoraTypeInv /\ E5Inv /\ FeatherInv /\ OwnSignal /\ device \in {"UART_E5", "UART_FEATHER"}
      /\ asked \in Seq(Commands)
  BY DEF ReadInv, ListenInv
<1>h. /\ heard \in Nat /\ line \in Seq(Line) /\ buffer \in Seq(Line)
      /\ packets \in Seq(Nat) /\ read \in Seq([n : Nat, signal : Nat])
      /\ UNCHANGED <<device, heard, step, modem, buffer, packets, read, waiting, undisturbed>>
      /\ asked # <<>>
  BY <1>t DEF Obey, Refuse, LoraTypeInv
<1>1. \E l \in Line : ~IsPayload(l) /\ line' \in {line, Append(line, l)}
  <2>1. CASE Obey
    <3>1. Head(asked) \in Commands
      BY <1>t, <1>h
    <3>2. Answer(Head(asked)) \in Commands \cup {"OK", "ERROR"}
      BY <3>1 DEF Answer
    <3>3. Said(Answer(Head(asked))) \in Line /\ ~IsPayload(Said(Answer(Head(asked))))
      BY <3>2 DEF Said, Line, IsPayload
    <3> QED
      BY <2>1, <3>3 DEF Obey
  <2>2. CASE Refuse
    <3>1. Said("ERROR") \in Line /\ ~IsPayload(Said("ERROR"))
      BY DEF Said, Line, IsPayload
    <3> QED
      BY <2>2, <3>1 DEF Refuse
  <2> QED
    BY <2>1, <2>2
<1>2. CASE line' = line
  BY <1>h, <1>t, <1>2 DEF LoraTypeInv, OwnSignal, E5Inv, FeatherInv, NewestInv, Stream, Queue
<1>3. ASSUME NEW l \in Line, ~IsPayload(l), line' = Append(line, l)
      PROVE  LoraTypeInv' /\ E5Inv' /\ FeatherInv' /\ OwnSignal'
  <2>1. /\ line' \in Seq(Line) /\ Len(line') = Len(line) + 1 /\ Len(line) \in Nat
        /\ Len(buffer) \in Nat
        /\ \A i \in 1..Len(line) : line'[i] = line[i]
        /\ line'[Len(line) + 1] = l
    BY <1>h, <1>3, AppendProperties
  <2>2. LoraTypeInv' /\ OwnSignal'
    BY <1>h, <1>t, <2>1 DEF LoraTypeInv, OwnSignal
  <2>3. ASSUME device = "UART_E5" PROVE E5Inv'
    <3>1. /\ Stream' = buffer \o line' /\ Stream' \in Seq(Line)
          /\ Len(Stream') = Len(buffer) + Len(line')
          /\ \A i \in 1..(Len(buffer) + Len(line')) :
               Stream'[i] = IF i <= Len(buffer) THEN buffer[i] ELSE line'[i - Len(buffer)]
      <4>1. Stream' = buffer \o line'
        BY <1>h DEF Stream
      <4>2. ASSUME NEW x \in Seq(Line)
            PROVE  /\ buffer \o x \in Seq(Line) /\ Len(buffer \o x) = Len(buffer) + Len(x)
                   /\ \A i \in 1..(Len(buffer) + Len(x)) :
                        (buffer \o x)[i] = IF i <= Len(buffer) THEN buffer[i]
                                          ELSE x[i - Len(buffer)]
        BY <1>h, ConcatProperties
      <4> QED
        BY <2>1, <4>1, <4>2, Zenon
    <3>2. /\ Stream \in Seq(Line) /\ Len(Stream) = Len(buffer) + Len(line)
          /\ \A i \in 1..(Len(buffer) + Len(line)) :
               Stream[i] = IF i <= Len(buffer) THEN buffer[i] ELSE line[i - Len(buffer)]
      BY <1>h, ConcatProperties DEF Stream
    <3>3. Len(Stream') = Len(Stream) + 1
      BY <2>1, <3>1, <3>2
    <3>4. ASSUME NEW i \in 1..Len(Stream) PROVE Stream'[i] = Stream[i]
      <4>1. i \in 1..(Len(buffer) + Len(line)) /\ i \in 1..(Len(buffer) + Len(line'))
        BY <2>1, <3>2
      <4>2. CASE i <= Len(buffer)
        BY <3>1, <3>2, <4>1, <4>2
      <4>3. CASE ~(i <= Len(buffer))
        <5>1. i - Len(buffer) \in 1..Len(line)
          BY <2>1, <4>1, <4>3
        <5> QED
          BY <2>1, <3>1, <3>2, <4>1, <4>3, <5>1
      <4> QED
        BY <4>2, <4>3
    <3>5. Stream'[Len(Stream) + 1] = l
      <4>1. /\ Len(Stream) + 1 \in 1..(Len(buffer) + Len(line')) /\ ~(Len(Stream) + 1 <= Len(buffer))
            /\ (Len(Stream) + 1) - Len(buffer) = Len(line) + 1
        BY <2>1, <3>2
      <4> QED
        BY <2>1, <3>1, <4>1
    <3>6. InOrder(Stream, heard) /\ Unread(Stream, read)
      BY <1>t, <2>3 DEF E5Inv
    <3>7. InOrder(Stream', heard) /\ Unread(Stream', read)
      BY <1>3, <3>1, <3>2, <3>3, <3>4, <3>5, <3>6, Answered
    <3> QED
      BY <1>h, <1>t, <3>7 DEF E5Inv, NewestInv
  <2>4. FeatherInv'
    <3>1. Numbers(line') = Numbers(line)
      BY <1>h, <1>3, NumbersAppend
    <3>2. Queue' = Queue
      BY <1>h, <3>1 DEF Queue
    <3> QED
      BY <1>h, <1>t, <3>2 DEF FeatherInv
  <2> QED
    BY <1>h, <2>2, <2>3, <2>4 DEF E5Inv
<1> QED
  BY <1>1, <1>2, <1>3


\* The E5 drops lines it has taken, from the oldest on.
LEMMA StreamEnds ==
  ASSUME ReadInv, device = "UART_E5", NEW all \in Seq(Line), NEW k \in 0..Len(all),
         Stream = all \o line', line' \in Seq(Line), buffer' = SubSeq(all, k + 1, Len(all))
  PROVE  buffer' \in Seq(Line) /\ InOrder(Stream', heard) /\ Unread(Stream', read)
<1>1. InOrder(all \o line', heard) /\ Unread(all \o line', read)
  BY DEF ReadInv, E5Inv
<1>2. /\ SubSeq(all, k + 1, Len(all)) \in Seq(Line)
      /\ InOrder(SubSeq(all, k + 1, Len(all)) \o line', heard)
      /\ Unread(SubSeq(all, k + 1, Len(all)) \o line', read)
  BY <1>1, Dropping
<1>3. Stream' = SubSeq(all, k + 1, Len(all)) \o line'
  BY DEF Stream
<1> QED
  BY <1>2, <1>3

\* All that it has taken.
LEMMA StreamIsLine ==
  ASSUME ReadInv, device = "UART_E5", NEW all \in Seq(Line),
         Stream = all \o line', line' \in Seq(Line), buffer' = <<>>
  PROVE  /\ buffer' \in Seq(Line) /\ Stream' = line'
         /\ InOrder(Stream', heard) /\ Unread(Stream', read)
<1>1. Len(all) \in Nat
  OBVIOUS
<1>2. Len(all) \in 0..Len(all) /\ buffer' = SubSeq(all, Len(all) + 1, Len(all))
  BY <1>1, SubSeqEmpty
<1>3. Stream' = line'
  BY ConcatEmptySeq DEF Stream
<1> QED
  BY <1>2, <1>3, StreamEnds

\* A step of the driver that clears the buffer, or has none.
LEMMA BufferCleared ==
  ASSUME ReadInv, UNCHANGED <<device, heard, line, packets, read>>, buffer' = <<>>,
         undisturbed' => FALSE,
         modem' \in {"RXLRPKT", "NOT_CONTINUOUS"}, step' \in 1..Len(Setup[device]) + 1
  PROVE  LoraTypeInv' /\ E5Inv' /\ FeatherInv' /\ OwnSignal'
<1>t. /\ LoraTypeInv /\ E5Inv /\ FeatherInv /\ OwnSignal
      /\ line \in Seq(Line) /\ buffer \in Seq(Line)
  BY DEF ReadInv, LoraTypeInv
<1>1. <<>> \in Seq(Line)
  OBVIOUS
<1>2. LoraTypeInv' /\ OwnSignal'
  BY <1>t, <1>1 DEF LoraTypeInv, OwnSignal
<1>3. FeatherInv'
  BY <1>t DEF FeatherInv, Queue
<1>4. ASSUME device = "UART_E5" PROVE InOrder(Stream', heard) /\ Unread(Stream', read)
  <2>1. Stream = buffer \o line'
    BY DEF Stream
  <2> QED
    BY <1>t, <1>4, <2>1, StreamIsLine
<1>5. E5Inv'
  BY <1>t, <1>4 DEF E5Inv, NewestInv
<1> QED
  BY <1>2, <1>3, <1>5

\* The end of a command leaves at_setup at one of its commands or behind the last.
LEMMA StepType ==
  ASSUME ReadInv, NEW ok, End(ok)
  PROVE  step' \in 1..Len(Setup[device]) + 1
<1>1. Len(Setup["UART_E5"]) = 4 /\ Len(Setup["UART_FEATHER"]) = 13
  BY SetupLength
<1>2. step \in 1..Len(Setup[device]) + 1 /\ (task = "setup" => step \in 1..Len(Setup[device]))
  BY DEF ReadInv, LoraTypeInv, ListenInv
<1>3. CASE task = "setup" /\ device = "UART_E5"
  BY <1>1, <1>2, <1>3 DEF End
<1>4. CASE task = "setup" /\ device = "UART_FEATHER"
  <2>1. Len(Setup[device]) = 13 /\ step \in 1..13
    BY <1>1, <1>2, <1>4
  <2>2. step' \in {step, step + 1, 4}
    BY <1>4 DEF End
  <2> QED
    BY <2>1, <2>2
<1>5. CASE task # "setup"
  BY <1>2, <1>5 DEF End
<1> QED
  BY <1>3, <1>4, <1>5 DEF ReadInv, ListenInv

\* A command is sent.
LEMMA SendReads ==
  ASSUME ReadInv, NEW c, Send(c), UNCHANGED <<device, heard, line, packets, read, step>>
  PROVE  LoraTypeInv' /\ E5Inv' /\ FeatherInv' /\ OwnSignal'
<1>1. buffer' = <<>> /\ undisturbed' = FALSE /\ modem' \in {"RXLRPKT", "NOT_CONTINUOUS"}
  BY DEF Send
<1>2. step' \in 1..Len(Setup[device]) + 1
  BY DEF ReadInv, LoraTypeInv
<1> QED
  BY <1>1, <1>2, BufferCleared

\* An answer is waited for in vain.
LEMMA TimeoutReads ==
  ASSUME ReadInv, Timeout
  PROVE  LoraTypeInv' /\ E5Inv' /\ FeatherInv' /\ OwnSignal'
<1>1. /\ buffer' = <<>> /\ modem' \in {"RXLRPKT", "NOT_CONTINUOUS"}
      /\ UNCHANGED <<device, heard, line, packets, read, undisturbed>>
  BY DEF Timeout, ReadInv, LoraTypeInv
<1>2. step' \in 1..Len(Setup[device]) + 1
  BY StepType DEF Timeout
<1>3. undisturbed' => device = "UART_FEATHER"
  BY <1>1 DEF Timeout, ReadInv, E5Inv, NewestInv, ListenInv
<1>4. CASE device = "UART_FEATHER"
  <2>1. buffer = <<>> /\ OwnSignal /\ FeatherInv /\ LoraTypeInv
    BY <1>4 DEF ReadInv, LoraTypeInv
  <2> QED
    BY <1>1, <1>2, <1>4, <2>1 DEF LoraTypeInv, E5Inv, FeatherInv, OwnSignal, Queue
<1>5. CASE device # "UART_FEATHER"
  BY <1>1, <1>2, <1>3, <1>5, BufferCleared
<1> QED
  BY <1>4, <1>5

\* A poll of at_send_command.
LEMMA PollE5Reads ==
  ASSUME ReadInv, PollE5
  PROVE  LoraTypeInv' /\ E5Inv' /\ FeatherInv' /\ OwnSignal'
<1>t. /\ LoraTypeInv /\ E5Inv /\ FeatherInv /\ OwnSignal
      /\ line \in Seq(Line) /\ buffer \in Seq(Line)
      /\ modem \in {"RXLRPKT", "NOT_CONTINUOUS"} /\ step \in 1..Len(Setup[device]) + 1
  BY DEF ReadInv, LoraTypeInv
<1>d. /\ device = "UART_E5" /\ waiting # Nobody
      /\ UNCHANGED <<device, heard, modem, packets, read, undisturbed>>
  BY DEF PollE5, module
<1>u. ~undisturbed
  BY <1>t, <1>d DEF E5Inv, NewestInv
<1>1. PICK lines \in Arrivals :
        LET all == buffer \o lines
            answer == Said(Answer(waiting))
            error == Said("ERROR")
        IN  /\ Take(lines)
            /\ \/ /\ Contains(all, answer)
                  /\ buffer' = SubSeq(all, SelectInSeq(all, LAMBDA l : l = answer) + 1, Len(all))
                  /\ End(TRUE)
               \/ /\ ~Contains(all, answer) /\ Contains(all, error)
                  /\ buffer' = <<>>
                  /\ End(FALSE)
               \/ /\ ~Contains(all, answer) /\ ~Contains(all, error)
                  /\ buffer' = all
                  /\ UNCHANGED <<task, waiting, step>>
  BY DEF PollE5
<1> DEFINE all == buffer \o lines
           I == {i \in 1..Len(all) : all[i] = Said(Answer(waiting))}
<1>2. PICK n \in 1..Len(line) : lines = SubSeq(line, 1, n)
  BY DEF Arrivals
<1>3. lines \in Seq(Line) /\ line' \in Seq(Line) /\ line = lines \o line'
  <2>1. n \in 0..Len(line)
    OBVIOUS
  <2> QED
    BY <1>t, <1>1, <1>2, <2>1, Taking
<1>4. all \in Seq(Line) /\ Len(all) \in Nat
  BY <1>t, <1>3, ConcatProperties, LenProperties
<1>5. Stream = all \o line'
  BY <1>t, <1>3, ConcatAssociative DEF Stream
<1>6. \E k \in 0..Len(all) : buffer' = SubSeq(all, k + 1, Len(all))
  <2>1. CASE /\ Contains(all, Said(Answer(waiting)))
             /\ buffer' = SubSeq(all, SelectInSeq(all, LAMBDA l : l = Said(Answer(waiting))) + 1,
                                 Len(all))
    <3>1. I # {} /\ I \in SUBSET Nat /\ I \in SUBSET (1..Len(all))
      BY <2>1 DEF Contains
    <3>2. SelectInSeq(all, LAMBDA l : l = Said(Answer(waiting))) = IF I # {} THEN Min(I) ELSE 0
      BY Zenon DEF SelectInSeq
    <3> HIDE DEF I
    <3>3. \E x \in I : \A y \in I : x <= y
      BY <3>1, Least
    <3>4. Min(I) \in I
      BY <3>3, Zenon DEF Min
    <3>5. Min(I) \in 0..Len(all)
      <4>1. Min(I) \in 1..Len(all)
        BY <3>1, <3>4
      <4> QED
        BY <1>4, <4>1
    <3> QED
      BY <2>1, <3>1, <3>2, <3>5, Zenon
  <2>2. CASE buffer' = <<>>
    <3>1. SubSeq(all, Len(all) + 1, Len(all)) = <<>> /\ Len(all) \in 0..Len(all)
      BY <1>4, SubSeqEmpty
    <3> QED
      BY <2>2, <3>1, Zenon
  <2>3. CASE buffer' = all
    <3>1. SubSeq(all, 0 + 1, Len(all)) = all /\ 0 \in 0..Len(all)
      BY <1>4, SubSeqFull
    <3> QED
      BY <2>3, <3>1, Zenon
  <2> QED
    BY <1>1, <2>1, <2>2, <2>3, Zenon
<1>7. step' \in 1..Len(Setup[device]) + 1
  <2>1. End(TRUE) \/ End(FALSE) \/ step' = step
    BY <1>1
  <2> QED
    BY <1>t, <2>1, StepType
<1> HIDE DEF all
<1>8. buffer' \in Seq(Line) /\ InOrder(Stream', heard) /\ Unread(Stream', read)
  BY <1>d, <1>3, <1>4, <1>5, <1>6, StreamEnds
<1> QED
  BY <1>t, <1>d, <1>u, <1>3, <1>7, <1>8
  DEF LoraTypeInv, E5Inv, FeatherInv, OwnSignal, NewestInv

\* Concatenation is associative.
LEMMA InThree ==
  ASSUME NEW S, NEW x \in Seq(S), NEW y \in Seq(S), NEW z \in Seq(S)
  PROVE  (x \o y) \o z = x \o (y \o z)
  BY ConcatAssociative

\* Three sequences of packets.
LEMMA PacketsInThree ==
  ASSUME NEW x \in Seq(Nat), NEW y \in Seq(Nat), NEW z \in Seq(Nat)
  PROVE  (x \o y) \o z = x \o (y \o z)
<1> DEFINE S == Nat
<1>1. x \in Seq(S) /\ y \in Seq(S) /\ z \in Seq(S)
  OBVIOUS
<1> HIDE DEF S
<1> QED
  BY <1>1, InThree

\* Three sequences of lines.
LEMMA LinesInThree ==
  ASSUME NEW x \in Seq(Line), NEW y \in Seq(Line), NEW z \in Seq(Line)
  PROVE  (x \o y) \o z = x \o (y \o z)
  BY InThree

\* The packets a poll of the Feather takes join those it has.
LEMMA PollFeatherReads ==
  ASSUME ReadInv, PollFeather
  PROVE  LoraTypeInv' /\ E5Inv' /\ FeatherInv' /\ OwnSignal'
<1>t. /\ LoraTypeInv /\ E5Inv /\ FeatherInv /\ OwnSignal
      /\ line \in Seq(Line) /\ packets \in Seq(Nat)
      /\ modem \in {"RXLRPKT", "NOT_CONTINUOUS"} /\ step \in 1..Len(Setup[device]) + 1
  BY DEF ReadInv, LoraTypeInv
<1>d. /\ device = "UART_FEATHER"
      /\ UNCHANGED <<device, heard, modem, buffer, read>>
  BY DEF PollFeather, module
<1>1. PICK lines \in Arrivals :
        /\ Take(lines) /\ Keep(lines)
        /\ \/ UNCHANGED <<task, waiting, step>>
           \/ \E ok \in BOOLEAN : End(ok)
  BY DEF PollFeather
<1>2. PICK n \in 1..Len(line) : lines = SubSeq(line, 1, n)
  BY DEF Arrivals
<1>3. /\ line' \in Seq(Line)
      /\ Numbers(lines) \in Seq(Nat) /\ Numbers(line') \in Seq(Nat)
      /\ Numbers(line) = Numbers(lines) \o Numbers(line')
  <2>1. n \in 0..Len(line)
    OBVIOUS
  <2> QED
    BY <1>t, <1>1, <1>2, <2>1, Taking
<1>4. packets' = packets \o Numbers(lines) /\ packets' \in Seq(Nat)
  BY <1>t, <1>1, <1>3, ConcatProperties DEF Keep
<1>5. Queue' = Queue
  <2>1. Queue' = (packets \o Numbers(lines)) \o Numbers(line')
    BY <1>4 DEF Queue
  <2>2. (packets \o Numbers(lines)) \o Numbers(line') = packets \o (Numbers(lines) \o Numbers(line'))
    BY <1>t, <1>3, PacketsInThree
  <2> QED
    BY <1>3, <2>1, <2>2 DEF Queue
<1>6. step' \in 1..Len(Setup[device]) + 1
  <2>1. step' = step \/ \E ok \in BOOLEAN : End(ok)
    BY <1>1
  <2> QED
    BY <1>t, <2>1, StepType
<1> QED
  BY <1>t, <1>d, <1>3, <1>4, <1>5, <1>6
  DEF LoraTypeInv, E5Inv, FeatherInv, OwnSignal

\* read_data of the Feather returns the packet that has waited longest.
LEMMA ReadFeatherReads ==
  ASSUME ReadInv, ReadFeather
  PROVE  LoraTypeInv' /\ E5Inv' /\ FeatherInv' /\ OwnSignal'
<1>t. /\ LoraTypeInv /\ E5Inv /\ FeatherInv /\ OwnSignal
      /\ line \in Seq(Line) /\ packets \in Seq(Nat) /\ read \in Seq([n : Nat, signal : Nat])
      /\ heard \in Nat
  BY DEF ReadInv, LoraTypeInv
<1>d. /\ device = "UART_FEATHER"
      /\ UNCHANGED <<device, heard, modem, buffer, step>>
  BY DEF ReadFeather, module
<1>1. PICK lines \in IF line = <<>> THEN {<<>>} ELSE Arrivals :
        LET all == packets \o Numbers(lines)
        IN  /\ Take(lines)
            /\ \/ all = <<>> /\ UNCHANGED <<packets, read>>
               \/ /\ all # <<>>
                  /\ read' = Append(read, [n |-> Head(all), signal |-> Head(all)])
                  /\ packets' = Tail(all)
  BY DEF ReadFeather
<1>2. PICK n \in 0..Len(line) : lines = SubSeq(line, 1, n)
  BY <1>t, Polled
<1>3. /\ line' \in Seq(Line)
      /\ Numbers(lines) \in Seq(Nat) /\ Numbers(line') \in Seq(Nat)
      /\ Numbers(line) = Numbers(lines) \o Numbers(line')
  BY <1>t, <1>1, <1>2, Taking
<1> DEFINE all == packets \o Numbers(lines)
           rest == Numbers(line')
<1>4. all \in Seq(Nat) /\ rest \in Seq(Nat) /\ Queue' = packets' \o rest
  BY <1>t, <1>3, ConcatProperties DEF Queue
<1>5. Queue = all \o rest
  <2>1. Queue = packets \o (Numbers(lines) \o Numbers(line'))
    BY <1>3 DEF Queue
  <2> QED
    BY <1>t, <1>3, <2>1, PacketsInThree
<1>6. /\ Len(read) + Len(Queue) = heard
      /\ \A i \in 1..Len(Queue) : Queue[i] = Len(read) + i
      /\ \A i \in 1..Len(read) : read[i].n = i
  BY <1>t, <1>d DEF FeatherInv
<1>7. CASE all = <<>> /\ UNCHANGED <<packets, read>>
  <2>1. packets = <<>>
    BY <1>t, <1>3, <1>7, ConcatEqualIffEmpty
  <2>2. Queue' = Queue
    BY <1>4, <1>5, <1>7, <2>1
  <2> QED
    BY <1>t, <1>d, <1>3, <1>7, <2>2 DEF LoraTypeInv, E5Inv, FeatherInv, OwnSignal
<1>8. CASE /\ all # <<>>
           /\ read' = Append(read, [n |-> Head(all), signal |-> Head(all)])
           /\ packets' = Tail(all)
  <2> HIDE DEF all, rest
  <2> DEFINE newest == [n |-> Head(all), signal |-> Head(all)]
  <2>1. /\ Head(all) = all[1] /\ Head(all) \in Nat /\ Tail(all) \in Seq(Nat)
        /\ Len(all) \in Nat /\ Len(all) >= 1 /\ Len(Tail(all)) = Len(all) - 1
        /\ \A i \in 1..Len(Tail(all)) : Tail(all)[i] = all[i + 1]
        /\ Len(rest) \in Nat
    BY <1>4, <1>8, HeadTailProperties, EmptySeq, LenProperties
  <2>2. /\ Queue \in Seq(Nat) /\ Len(Queue) = Len(all) + Len(rest)
        /\ \A i \in 1..(Len(all) + Len(rest)) :
             Queue[i] = IF i <= Len(all) THEN all[i] ELSE rest[i - Len(all)]
    BY <1>4, <1>5, ConcatProperties
  <2>3. Queue' = Tail(all) \o rest
    BY <1>4, <1>8
  <2>4. /\ Len(Queue') = Len(Tail(all)) + Len(rest)
        /\ \A i \in 1..(Len(Tail(all)) + Len(rest)) :
             Queue'[i] = IF i <= Len(Tail(all)) THEN Tail(all)[i] ELSE rest[i - Len(Tail(all))]
    BY <1>4, <2>1, <2>3, ConcatProperties
  <2>5. /\ newest \in [n : Nat, signal : Nat]
        /\ read' \in Seq([n : Nat, signal : Nat]) /\ Len(read') = Len(read) + 1
        /\ Len(read) \in Nat
        /\ \A i \in 1..Len(read) : read'[i] = read[i]
        /\ read'[Len(read) + 1] = newest
    BY <1>t, <1>8, <2>1, AppendProperties
  <2>6. Head(all) = Len(read) + 1
    <3>1. 1 \in 1..(Len(all) + Len(rest)) /\ 1 <= Len(all)
      BY <2>1
    <3> QED
      BY <1>6, <2>1, <2>2, <3>1
  <2>7. Len(read') + Len(Queue') = heard
    <3>1. \A a, b, c \in Nat : (a + 1) + ((b - 1) + c) = a + (b + c)
      OBVIOUS
    <3>2. /\ Len(read') + Len(Queue') = (Len(read) + 1) + ((Len(all) - 1) + Len(rest))
          /\ Len(read) + (Len(all) + Len(rest)) = heard
      <4>1. Len(Queue') = (Len(all) - 1) + Len(rest)
        BY <2>1, <2>4
      <4>2. Len(read') = Len(read) + 1
        BY <2>5
      <4>3. Len(read) + Len(Queue) = heard /\ Len(Queue) = Len(all) + Len(rest)
        BY <1>6, <2>2
      <4> QED
        BY <4>1, <4>2, <4>3
    <3> QED
      BY <2>1, <2>5, <3>1, <3>2
  <2>8. ASSUME NEW i \in 1..Len(Queue') PROVE Queue'[i] = Len(read') + i
    <3>1. /\ i \in 1..(Len(Tail(all)) + Len(rest)) /\ i + 1 \in 1..(Len(all) + Len(rest))
          /\ i \in Nat
      BY <2>1, <2>4
    <3>2. Queue[i + 1] = Len(read) + (i + 1)
      BY <1>6, <2>2, <3>1
    <3>3. Queue'[i] = Queue[i + 1]
      <4>1. CASE i <= Len(Tail(all))
        <5>1. i + 1 <= Len(all) /\ i \in 1..Len(Tail(all))
          BY <2>1, <3>1, <4>1
        <5>2. Queue'[i] = Tail(all)[i]
          BY <2>4, <3>1, <4>1
        <5>3. Queue[i + 1] = all[i + 1]
          BY <2>2, <3>1, <5>1
        <5> QED
          BY <2>1, <5>1, <5>2, <5>3
      <4>2. CASE ~(i <= Len(Tail(all)))
        <5>1. ~(i + 1 <= Len(all)) /\ i - Len(Tail(all)) = (i + 1) - Len(all)
          BY <2>1, <3>1, <4>2
        <5>2. Queue'[i] = rest[i - Len(Tail(all))]
          BY <2>4, <3>1, <4>2
        <5>3. Queue[i + 1] = rest[(i + 1) - Len(all)]
          BY <2>2, <3>1, <5>1
        <5> QED
          BY <5>1, <5>2, <5>3
      <4> QED
        BY <4>1, <4>2
    <3> QED
      BY <2>5, <3>1, <3>2, <3>3
  <2>9. ASSUME NEW i \in 1..Len(read')
        PROVE  read'[i].n = i /\ read'[i].signal \in {0, read'[i].n}
    <3>1. CASE i \in 1..Len(read)
      BY <1>6, <1>t, <2>5, <3>1 DEF OwnSignal
    <3>2. CASE i = Len(read) + 1
      BY <2>5, <2>6, <3>2
    <3> QED
      BY <2>5, <3>1, <3>2
  <2> QED
    BY <1>t, <1>d, <1>3, <1>8, <2>1, <2>5, <2>7, <2>8, <2>9
    DEF LoraTypeInv, E5Inv, FeatherInv, OwnSignal
<1> QED
  BY <1>1, <1>7, <1>8

\* read_data of the E5 returns the newest packet of what has arrived.
LEMMA ReadE5Reads ==
  ASSUME ReadInv, ReadE5
  PROVE  LoraTypeInv' /\ E5Inv' /\ FeatherInv' /\ OwnSignal'
<1>t. /\ LoraTypeInv /\ E5Inv /\ FeatherInv /\ OwnSignal
      /\ line \in Seq(Line) /\ buffer \in Seq(Line) /\ read \in Seq([n : Nat, signal : Nat])
      /\ heard \in Nat
  BY DEF ReadInv, LoraTypeInv
<1>d. /\ device = "UART_E5" /\ buffer' = <<>> /\ waiting = Nobody
      /\ UNCHANGED <<device, heard, modem, packets, step, asked, waiting, undisturbed>>
  BY DEF ReadE5, module
<1>1. PICK lines \in IF line = <<>> THEN {<<>>} ELSE Arrivals :
        LET all == buffer \o lines
        IN  /\ Take(lines)
            /\ read' = IF \E i \in DOMAIN all : IsPayload(all[i])
                         THEN Append(read, Parse(all)) ELSE read
  BY DEF ReadE5
<1>2. PICK n \in 0..Len(line) : lines = SubSeq(line, 1, n)
  BY <1>t, Polled
<1>3. /\ lines \in Seq(Line) /\ line' \in Seq(Line) /\ line = lines \o line'
      /\ Len(lines) = n /\ Len(line') = Len(line) - n
      /\ \A i \in 1..Len(line') : line'[i] = line[i + n]
  BY <1>t, <1>1, <1>2, Taking
<1> DEFINE all == buffer \o lines
<1>4. /\ all \in Seq(Line) /\ Len(all) \in Nat /\ Len(all) = Len(buffer) + Len(lines)
      /\ \A i \in 1..(Len(buffer) + Len(lines)) :
           all[i] = IF i <= Len(buffer) THEN buffer[i] ELSE lines[i - Len(buffer)]
  BY <1>t, <1>3, ConcatProperties, LenProperties
<1>5. Stream = all \o line'
  <2>1. Stream = buffer \o (lines \o line')
    BY <1>3 DEF Stream
  <2>2. (buffer \o lines) \o line' = buffer \o (lines \o line')
    BY <1>t, <1>3, LinesInThree
  <2> QED
    BY <2>1, <2>2
<1>r. read' = IF \E i \in DOMAIN all : IsPayload(all[i]) THEN Append(read, Parse(all)) ELSE read
  BY <1>1
<1> HIDE DEF all
<1>6. Stream' = line' /\ InOrder(line', heard) /\ Unread(line', read)
  BY <1>d, <1>3, <1>4, <1>5, StreamIsLine
<1>s. /\ Stream \in Seq(Line) /\ Len(Stream) = Len(all) + Len(line') /\ Len(line') \in Nat
      /\ \A i \in 1..(Len(all) + Len(line')) :
           Stream[i] = IF i <= Len(all) THEN all[i] ELSE line'[i - Len(all)]
      /\ InOrder(Stream, heard) /\ Unread(Stream, read)
      /\ Len(line) \in Nat /\ Len(read) \in Nat /\ Len(buffer) \in Nat
      /\ NewestInv
      /\ \A i \in 1..Len(read) : read[i].n <= heard
      /\ \A i, j \in 1..Len(read) : i < j => read[i].n < read[j].n
  <2>1. /\ Stream \in Seq(Line) /\ Len(Stream) = Len(all) + Len(line')
        /\ \A i \in 1..(Len(all) + Len(line')) :
             Stream[i] = IF i <= Len(all) THEN all[i] ELSE line'[i - Len(all)]
    <3>1. all \in Seq(Line) /\ line' \in Seq(Line)
      BY <1>3, <1>4
    <3>2. /\ all \o line' \in Seq(Line) /\ Len(all \o line') = Len(all) + Len(line')
          /\ \A i \in 1..(Len(all) + Len(line')) :
               (all \o line')[i] = IF i <= Len(all) THEN all[i] ELSE line'[i - Len(all)]
      BY <3>1, ConcatProperties
    <3> QED
      BY <1>5, <3>2
  <2>2. /\ InOrder(Stream, heard) /\ Unread(Stream, read) /\ NewestInv
        /\ \A i \in 1..Len(read) : read[i].n <= heard
        /\ \A i, j \in 1..Len(read) : i < j => read[i].n < read[j].n
    BY <1>t, <1>d DEF E5Inv
  <2> QED
    BY <1>t, <1>3, <2>1, <2>2, LenProperties
<1>7. CASE ~(\E i \in DOMAIN all : IsPayload(all[i]))
  <2>1. read' = read
    BY <1>r, <1>7
  <2>2. NewestInv'
    <3> SUFFICES ASSUME undisturbed PROVE NewestInv'
      BY <1>d DEF NewestInv
    <3>1. CASE line' # <<>>
      <4>1. /\ Len(line') \in 1..Len(line') /\ Len(line') + n = Len(line) /\ Len(line) # 0
        BY <1>3, <1>s, <3>1
      <4>2. line'[Len(line')] = line[Len(line)] /\ line # <<>>
        BY <1>3, <4>1
      <4> QED
        BY <1>d, <1>s, <3>1, <4>2 DEF NewestInv
    <3>2. CASE line' = <<>> /\ line # <<>>
      <4>1. n = Len(line) /\ Len(lines) = Len(line) /\ Len(line) >= 1
        BY <1>3, <1>s, <3>2
      <4>2. lines[Len(line)] = line[Len(line)]
        BY <1>2, <4>1, SubSeqFull, <1>t
      <4>3. /\ Len(all) \in 1..(Len(buffer) + Len(lines)) /\ ~(Len(all) <= Len(buffer))
            /\ Len(all) - Len(buffer) = Len(line) /\ Len(all) \in DOMAIN all
        BY <1>4, <1>s, <4>1, LenProperties
      <4>4. all[Len(all)] = line[Len(line)]
        BY <1>4, <4>2, <4>3
      <4>5. IsPayload(line[Len(line)])
        BY <1>s, <3>2 DEF NewestInv
      <4> QED
        BY <1>7, <4>3, <4>4, <4>5
    <3>3. CASE line' = <<>> /\ line = <<>>
      BY <1>d, <1>s, <2>1, <3>3 DEF NewestInv
    <3> QED
      BY <3>1, <3>2, <3>3
  <2>3. E5Inv'
    BY <1>d, <1>6, <1>s, <2>1, <2>2 DEF E5Inv
  <2> QED
    BY <1>t, <1>d, <1>3, <2>1, <2>3 DEF LoraTypeInv, FeatherInv, OwnSignal
<1>8. CASE \E i \in DOMAIN all : IsPayload(all[i])
  <2>1. InOrder(all, heard)
    <3>1. \A i \in 1..Len(all) : all[i] = Stream[i] /\ i \in 1..Len(Stream)
      BY <1>4, <1>s
    <3>2. \A i \in 1..Len(all) : i > 1 => i - 1 \in 1..Len(all)
      BY <1>4
    <3> QED
      BY <1>s, <3>1, <3>2 DEF InOrder
  <2>2. /\ Parse(all) \in [n : Nat, signal : Nat]
        /\ Parse(all).signal \in {0, Parse(all).n}
    BY <1>4, <1>8, <2>1, Parsed
  <2>3. PICK p \in 1..Len(all) : /\ IsPayload(all[p]) /\ Parse(all).n = all[p].n
                                 /\ \A i \in 1..Len(all) : IsPayload(all[i]) => i <= p
    BY <1>4, <1>8, <2>1, Parsed
  <2>4. /\ read' = Append(read, Parse(all)) /\ read' \in Seq([n : Nat, signal : Nat])
        /\ Len(read') = Len(read) + 1 /\ read' # <<>>
        /\ \A i \in 1..Len(read) : read'[i] = read[i]
        /\ read'[Len(read) + 1] = Parse(all)
    <3> DEFINE newest == Parse(all)
    <3>1. read' = Append(read, newest) /\ newest \in [n : Nat, signal : Nat]
      BY <1>r, <1>8, <2>2
    <3> HIDE DEF newest
    <3>2. /\ read' \in Seq([n : Nat, signal : Nat])
          /\ Len(read') = Len(read) + 1 /\ read' # <<>>
          /\ \A i \in 1..Len(read) : read'[i] = read[i]
          /\ read'[Len(read) + 1] = newest
      <4>1. read \in Seq([n : Nat, signal : Nat])
        BY <1>t
      <4>2. /\ read' \in Seq([n : Nat, signal : Nat])
            /\ Len(read') = Len(read) + 1 /\ Len(read) \in Nat
            /\ \A i \in 1..Len(read) : read'[i] = read[i]
            /\ read'[Len(read) + 1] = newest
        BY <3>1, <4>1
      <4> QED
        BY <4>2
    <3> QED
      BY <3>1, <3>2 DEF newest
  <2>5. /\ p \in 1..Len(Stream) /\ Stream[p] = all[p] /\ Parse(all).n <= heard
        /\ Parse(all).n = Stream[p].n /\ IsPayload(Stream[p])
    <3>1. p \in 1..Len(Stream) /\ Stream[p] = all[p]
      BY <1>4, <1>s
    <3> QED
      BY <1>s, <2>3, <3>1 DEF InOrder
  <2>6. \A i \in 1..Len(read) : read[i].n < Parse(all).n
    BY <1>s, <2>5 DEF Unread
  <2>7. ASSUME NEW j \in 1..Len(line'), IsPayload(line'[j]) PROVE Parse(all).n < line'[j].n
    <3>1. /\ Len(all) + j \in 1..Len(Stream) /\ ~(Len(all) + j <= Len(all))
          /\ (Len(all) + j) - Len(all) = j /\ p < Len(all) + j
      BY <1>4, <1>s
    <3>2. Stream[Len(all) + j] = line'[j]
      BY <1>s, <3>1
    <3> QED
      BY <1>s, <2>5, <2>7, <3>1, <3>2 DEF InOrder
  <2>8. \A i \in 1..Len(read') : i \in 1..Len(read) \/ i = Len(read) + 1
    BY <1>s, <2>4
  <2>9. Unread(line', read')
    <3> SUFFICES ASSUME NEW i \in 1..Len(read'), NEW j \in 1..Len(line'), IsPayload(line'[j])
                 PROVE  read'[i].n < line'[j].n
      BY DEF Unread
    <3>1. CASE i \in 1..Len(read)
      BY <1>6, <2>4, <3>1 DEF Unread
    <3>2. CASE i = Len(read) + 1
      BY <2>4, <2>7, <3>2
    <3> QED
      BY <2>8, <3>1, <3>2
  <2>10. \A i \in 1..Len(read') : read'[i].n <= heard
    BY <1>s, <2>4, <2>5, <2>8
  <2>11. ASSUME NEW i \in 1..Len(read'), NEW j \in 1..Len(read'), i < j
         PROVE  read'[i].n < read'[j].n
    <3>1. i \in 1..Len(read)
      BY <1>s, <2>4, <2>11
    <3>2. CASE j \in 1..Len(read)
      BY <1>s, <2>4, <2>11, <3>1, <3>2
    <3>3. CASE j = Len(read) + 1
      BY <2>4, <2>6, <3>1, <3>3
    <3> QED
      BY <2>8, <3>2, <3>3
  <2>12. NewestInv'
    <3> SUFFICES ASSUME undisturbed PROVE NewestInv'
      BY <1>d DEF NewestInv
    <3>1. CASE line' # <<>>
      <4>1. /\ Len(line') \in 1..Len(line') /\ Len(line') + n = Len(line) /\ Len(line) # 0
        BY <1>3, <1>s, <3>1
      <4>2. line'[Len(line')] = line[Len(line)] /\ line # <<>>
        BY <1>3, <4>1
      <4> QED
        BY <1>d, <1>s, <3>1, <4>2 DEF NewestInv
    <3>2. CASE line' = <<>> /\ line # <<>>
      <4>1. n = Len(line) /\ Len(lines) = Len(line) /\ Len(line) >= 1
        BY <1>3, <1>s, <3>2
      <4>2. lines[Len(line)] = line[Len(line)]
        BY <1>2, <4>1, SubSeqFull, <1>t
      <4>3. /\ Len(all) \in 1..(Len(buffer) + Len(lines)) /\ ~(Len(all) <= Len(buffer))
            /\ Len(all) - Len(buffer) = Len(line) /\ Len(all) \in 1..Len(all)
        BY <1>4, <1>s, <4>1
      <4>4. all[Len(all)] = line[Len(line)]
        BY <1>4, <4>2, <4>3
      <4>5. IsPayload(line[Len(line)]) /\ line[Len(line)].n = heard
        BY <1>s, <3>2 DEF NewestInv
      <4>6. p = Len(all)
        <5>1. Len(all) <= p
          BY <2>3, <4>3, <4>4, <4>5
        <5> QED
          BY <1>4, <2>3, <5>1
      <4>7. read'[Len(read')].n = heard
        BY <2>3, <2>4, <4>4, <4>5, <4>6
      <4> QED
        BY <1>d, <1>s, <2>4, <3>2, <4>7 DEF NewestInv
    <3>3. CASE line' = <<>> /\ line = <<>>
      <4>1. /\ buffer = <<>> /\ read # <<>> /\ read[Len(read)].n = heard /\ Len(read) \in 1..Len(read)
        BY <1>s, <1>t, <3>3, EmptySeq DEF NewestInv
      <4>2. read[Len(read)].n < Parse(all).n
        BY <2>6, <4>1
      <4>3. FALSE
        BY <1>t, <2>2, <2>5, <4>1, <4>2
      <4> QED
        BY <4>3
    <3> QED
      BY <3>1, <3>2, <3>3
  <2>13. E5Inv'
    BY <1>d, <1>6, <1>s, <2>9, <2>10, <2>11, <2>12 DEF E5Inv
  <2>14. OwnSignal'
    <3> SUFFICES ASSUME NEW i \in 1..Len(read') PROVE read'[i].signal \in {0, read'[i].n}
      BY DEF OwnSignal
    <3>1. CASE i \in 1..Len(read)
      BY <1>t, <2>4, <3>1 DEF OwnSignal
    <3>2. CASE i = Len(read) + 1
      BY <2>2, <2>4, <3>2
    <3> QED
      BY <2>8, <3>1, <3>2
  <2>15. <<>> \in Seq(Line)
    OBVIOUS
  <2> QED
    BY <1>t, <1>d, <1>3, <2>4, <2>13, <2>14, <2>15 DEF LoraTypeInv, FeatherInv
<1> QED
  BY <1>7, <1>8


\* Nothing has been received, and nothing read.
LEMMA ReadInit == LoraInit => ReadInv
<1> SUFFICES ASSUME LoraInit PROVE ReadInv
  OBVIOUS
<1>1. ListenInv
  BY ListenInit
<1>2. /\ device \in {"UART_E5", "UART_FEATHER"} /\ heard = 0 /\ line = <<>> /\ buffer = <<>>
      /\ packets = <<>> /\ read = <<>> /\ step = 1 /\ modem = "NOT_CONTINUOUS"
      /\ undisturbed = FALSE
  BY DEF LoraInit
<1>3. step \in 1..Len(Setup[device]) + 1
  BY <1>1, <1>2, SetupLength
<1>4. /\ Stream = <<>> /\ Queue = <<>>
  BY <1>2, NumbersOfNone, ConcatEmptySeq DEF Stream, Queue
<1>5. LoraTypeInv
  <2>1. \A S : <<>> \in Seq(S)
    OBVIOUS
  <2> QED
    BY <1>2, <1>3, <2>1 DEF LoraTypeInv
<1>6. E5Inv /\ FeatherInv /\ OwnSignal
  BY <1>2, <1>4 DEF E5Inv, FeatherInv, OwnSignal, InOrder, Unread, NewestInv
<1> QED
  BY <1>1, <1>5, <1>6 DEF ReadInv

\* One step per action of the driver and of the module.
LEMMA ReadStep == ReadInv /\ [LoraNext]_loraVars => ReadInv'
<1> SUFFICES ASSUME ReadInv, [LoraNext]_loraVars PROVE ReadInv'
  OBVIOUS
<1>t. /\ modem \in {"RXLRPKT", "NOT_CONTINUOUS"} /\ step \in 1..Len(Setup[device]) + 1
  BY DEF ReadInv, LoraTypeInv
<1>0. ListenInv'
  BY ListenStep DEF ReadInv
<1> SUFFICES LoraTypeInv' /\ E5Inv' /\ FeatherInv' /\ OwnSignal'
  BY <1>0 DEF ReadInv
<1>1. CASE Hear
  BY <1>1, HearReads
<1>2. CASE Obey \/ Refuse
  BY <1>2, AnswerReads
<1>3. CASE BeginTransmission \/ Failed \/ UNCHANGED loraVars
  <2>1. UNCHANGED <<device, heard, line, buffer, packets, read, undisturbed, asked, waiting,
                    modem, step>>
    BY <1>3 DEF BeginTransmission, Failed, loraVars, module
  <2> QED
    BY <1>t, <2>1, NothingMoves
<1>4. CASE SetUp
  BY <1>4, SendReads DEF SetUp
<1>5. CASE Poll
  BY <1>5, PollE5Reads, PollFeatherReads DEF Poll
<1>6. CASE Timeout
  BY <1>6, TimeoutReads
<1>7. CASE StartRead
  <2>1. CASE Send(Listen)
    BY <1>7, <2>1, SendReads DEF StartRead
  <2>2. CASE UNCHANGED <<asked, waiting, modem, buffer, undisturbed>>
    BY <1>t, <1>7, <2>2, NothingMoves DEF StartRead
  <2> QED
    BY <1>7, <2>1, <2>2 DEF StartRead
<1>8. CASE Read
  BY <1>8, ReadE5Reads, ReadFeatherReads DEF Read
<1>9. CASE StartWrite
  BY <1>9, SendReads DEF StartWrite
<1> QED
  BY <1>1, <1>2, <1>3, <1>4, <1>5, <1>6, <1>7, <1>8, <1>9 DEF LoraNext, Module

\* The invariant keeps what the interfaces promise of read_data.
LEMMA ReadInvSays == ReadInv => ReadsWhatItHeard
<1> SUFFICES ASSUME ReadInv PROVE ReadsWhatItHeard
  OBVIOUS
<1>t. /\ LoraTypeInv /\ E5Inv /\ FeatherInv /\ OwnSignal /\ ListenInv
      /\ device \in {"UART_E5", "UART_FEATHER"}
      /\ packets \in Seq(Nat) /\ read \in Seq([n : Nat, signal : Nat]) /\ heard \in Nat
  BY DEF ReadInv, ListenInv, LoraTypeInv
<1>s. /\ Len(read) \in Nat /\ DOMAIN read = 1..Len(read)
      /\ Numbers(line) \in Seq(Nat) /\ Queue \in Seq(Nat) /\ Len(Queue) \in Nat
      /\ \A i \in 1..Len(read) : read[i] \in [n : Nat, signal : Nat]
  BY <1>t, Sequences, LenProperties
<1>1. LoraTypes
  <2> DEFINE names == {"AT", "MODE", "RFCFG", Listen, Transmit} \cup ToSet(Setup["UART_FEATHER"])
  <2>1. Commands \subseteq names
    <3>1. \A i \in 1..4 : Setup["UART_E5"][i] \in {"AT", "MODE", "RFCFG", Listen}
      BY DEF Setup, Listen
    <3>2. DOMAIN Setup["UART_FEATHER"] = 1..13
      BY DEF Setup
    <3>3. ToSet(Setup["UART_FEATHER"]) = {Setup["UART_FEATHER"][i] : i \in 1..13}
      BY <3>2 DEF ToSet
    <3> QED
      BY <3>1, <3>3 DEF Commands
  <2>2. asked \in Seq(Commands)
    BY <1>t DEF ListenInv
  <2>3. asked \in Seq(names)
    <3> HIDE DEF names
    <3> QED
      BY <2>1, <2>2
  <2> QED
    BY <1>t, <2>3 DEF LoraTypes, LoraTypeInv
<1>2. \A i, j \in 1..Len(read) : i < j => read[i].n < read[j].n
  <2>1. CASE device = "UART_E5"
    BY <1>t, <2>1 DEF E5Inv
  <2>2. CASE device = "UART_FEATHER"
    <3>1. \A i \in 1..Len(read) : read[i].n = i
      BY <1>t, <2>2 DEF FeatherInv
    <3> QED
      BY <3>1
  <2> QED
    BY <1>t, <2>1, <2>2
<1>3. ASSUME device = "UART_FEATHER"
      PROVE  [i \in DOMAIN read |-> read[i].n] \o packets \o Numbers(line)
               = [n \in 1..heard |-> n]
  <2> DEFINE ns == [i \in DOMAIN read |-> read[i].n]
             ids == [n \in 1..heard |-> n]
  <2>1. /\ ns \in Seq(Nat) /\ Len(ns) = Len(read)
        /\ \A i \in 1..Len(read) : ns[i] = read[i].n
    BY <1>s
  <2>2. ids \in Seq(Nat) /\ Len(ids) = heard /\ \A i \in 1..heard : ids[i] = i
    BY <1>t
  <2> HIDE DEF ns, ids
  <2>3. ns \o packets \o Numbers(line) = ns \o Queue
    BY <1>t, <1>s, <2>1, PacketsInThree DEF Queue
  <2>4. /\ ns \o Queue \in Seq(Nat) /\ Len(ns \o Queue) = Len(read) + Len(Queue)
        /\ \A i \in 1..(Len(read) + Len(Queue)) :
             (ns \o Queue)[i] = IF i <= Len(read) THEN ns[i] ELSE Queue[i - Len(read)]
    <3>1. ns \in Seq(Nat) /\ Queue \in Seq(Nat)
      BY <1>s, <2>1
    <3>2. /\ ns \o Queue \in Seq(Nat) /\ Len(ns \o Queue) = Len(ns) + Len(Queue)
          /\ \A i \in 1..(Len(ns) + Len(Queue)) :
               (ns \o Queue)[i] = IF i <= Len(ns) THEN ns[i] ELSE Queue[i - Len(ns)]
      BY <3>1, ConcatProperties
    <3> QED
      BY <2>1, <3>2
  <2>5. /\ Len(read) + Len(Queue) = heard
        /\ \A i \in 1..Len(Queue) : Queue[i] = Len(read) + i
        /\ \A i \in 1..Len(read) : read[i].n = i
    BY <1>t, <1>3 DEF FeatherInv
  <2>6. ASSUME NEW i \in 1..heard PROVE (ns \o Queue)[i] = ids[i]
    <3> DEFINE all == ns \o Queue
    <3>1. all[i] = IF i <= Len(read) THEN ns[i] ELSE Queue[i - Len(read)]
      BY <2>4, <2>5
    <3> HIDE DEF all
    <3>2. CASE i <= Len(read)
      <4>1. i \in 1..Len(read)
        BY <1>s, <1>t, <3>2
      <4> QED
        BY <2>1, <2>2, <2>5, <3>1, <3>2, <4>1 DEF all
    <3>3. CASE ~(i <= Len(read))
      <4>1. i - Len(read) \in 1..Len(Queue) /\ Len(read) + (i - Len(read)) = i
        BY <1>s, <1>t, <2>5, <3>3
      <4>2. Queue[i - Len(read)] = i
        BY <2>5, <4>1
      <4> QED
        BY <2>2, <3>1, <3>3, <4>2 DEF all
    <3> QED
      BY <3>2, <3>3
  <2>7. ns \o Queue = ids
    BY <2>2, <2>4, <2>5, <2>6, SeqEqual
  <2> QED
    BY <2>3, <2>7 DEF ns, ids
<1>4. ASSUME device = "UART_E5", undisturbed, line = <<>> PROVE Last(read).n = heard
  BY <1>t, <1>4 DEF E5Inv, NewestInv, Last
<1> QED
  BY <1>t, <1>s, <1>1, <1>2, <1>3, <1>4 DEF ReadsWhatItHeard, OwnSignal

\* What read_data returns was received, in this order, once, with its own signal
\* strength; the Feather loses nothing, and the E5 returns the newest of what no
\* command disturbed.
THEOREM ReadsTheorem == LoraSpec => []ReadsWhatItHeard
  BY ReadInit, ReadStep, ReadInvSays, PTL DEF LoraSpec

-----------------------------------------------------------------------------
(* The composition: what is proved of each interface holds of the one that is *)
(* created. *)

\* A behaviour of the created interface is one of both specifications.
THEOREM CreatedAsSpecified == InterfacesSpec => Spec /\ LoraSpec
<1>1. CreateInterface => Init /\ LoraInit
  BY DEF CreateInterface
<1>2. [InterfacesNext]_allVars => [Next]_vars /\ [LoraNext]_loraVars
  BY DEF InterfacesNext, allVars
<1> QED
  BY <1>1, <1>2, PTL DEF InterfacesSpec, Spec, LoraSpec
=============================================================================
