-------------------------- MODULE PubStream_proofs --------------------------
(***************************************************************************)
(* Proofs about PubStream for any viewers and sessions, any high-water     *)
(* mark, any number of disturbances and any numbering.                     *)
(***************************************************************************)
EXTENDS PubStream, Integers, SequenceTheorems, TLAPS

\* In a stream without overflow each body follows its ID at once: within the
\* queue, behind the message held, and at the end, where the body is to come.
Adjacent(s) ==
  /\ \A i \in 2..Len(queue[s]) :
       queue[s][i].kind = "body" => queue[s][i - 1] = Id(queue[s][i].number)
  /\ spc[s] = "body" /\ held[s].kind = "id" /\ queue[s] # <<>> /\ queue[s][1].kind = "body" =>
       held[s] = Id(queue[s][1].number)
  /\ ppc = "body" /\ Joined(s) =>
       /\ queue[s] # <<>> => queue[s][Len(queue[s])] = Id(packet)
       /\ queue[s] = <<>> /\ spc[s] = "body" /\ held[s].kind = "id" => held[s] = Id(packet)

\* A subscriber holds a message exactly while it awaits a body, a viewer an ID;
\* one that is out has no queue.
Holds(s) ==
  /\ spc[s] = "body" => held[s] \in Message
  /\ s \in Viewer /\ spc[s] = "body" => held[s].kind = "id"
  /\ ~Joined(s) => queue[s] = <<>>

SubscriberInv(s) == Holds(s) /\ (~lost[s] => Adjacent(s))

IInv ==
  /\ TypeOK
  /\ \A s \in Subscriber : SubscriberInv(s)
  /\ PairsMatch

-----------------------------------------------------------------------------

LEMMA PacketNumbers == \A a \in Int : a % Numbers \in Packet
  BY ConstantsAssumption DEF Packet

LEMMA MessageTypes ==
  /\ \A n \in Packet : Id(n) \in Message /\ Body(n) \in Message
  /\ \A m \in Message : m.kind \in {"id", "body"} /\ m.number \in Packet /\ m # None
  /\ \A n \in Packet : Id(n).kind = "id" /\ Body(n).kind = "body" /\ Body(n).number = n
  BY ConstantsAssumption DEF Id, Body, Message

LEMMA InitInv == Init => IInv
  <1> SUFFICES ASSUME Init PROVE IInv
    OBVIOUS
  <1>1. 0 \in Packet /\ 0 \in 0..MaxFaults /\ 0 \in 0..SkipCap
    BY ConstantsAssumption DEF Packet, SkipCap
  <1>2. <<>> \in Seq(Message) /\ Len(<<>>) = 0 /\ 0 <= HighWater
    BY ConstantsAssumption
  <1>3. TypeOK
    BY <1>1, <1>2 DEF Init, TypeOK
  <1>4. ASSUME NEW s \in Subscriber PROVE SubscriberInv(s)
    BY DEF Init, SubscriberInv, Holds, Adjacent, Joined
  <1>5. PairsMatch
    BY DEF Init, PairsMatch
  <1> QED
    BY <1>3, <1>4, <1>5 DEF IInv

\* What a published message does to each subscriber.
LEMMA PublishTypes ==
  ASSUME TypeOK, NEW m \in Message, Publish(m)
  PROVE  /\ queue' \in [Subscriber -> Seq(Message)]
         /\ \A s \in Subscriber : Len(queue'[s]) <= HighWater
         /\ lost' \in [Subscriber -> BOOLEAN]
         /\ faults' \in 0..MaxFaults
  <1>1. ASSUME NEW s \in Subscriber
        PROVE  /\ queue'[s] \in Seq(Message) /\ Len(queue'[s]) <= HighWater
               /\ lost'[s] \in BOOLEAN
    <2>1. queue[s] \in Seq(Message) /\ Len(queue[s]) \in Nat /\ Len(queue[s]) <= HighWater
      BY DEF TypeOK
    <2>2. Append(queue[s], m) \in Seq(Message) /\ Len(Append(queue[s], m)) = Len(queue[s]) + 1
      BY <2>1, AppendProperties
    <2>3. CASE Joined(s) /\ ~Full(s)
      <3>1. Len(queue[s]) # HighWater
        BY <2>3 DEF Full
      <3>2. queue'[s] = Append(queue[s], m)
        BY <2>3 DEF Publish
      <3> QED
        BY <2>1, <2>2, <3>1, <3>2, ConstantsAssumption DEF Publish, TypeOK
    <2>4. CASE ~(Joined(s) /\ ~Full(s))
      <3>1. queue'[s] = queue[s]
        BY <2>4 DEF Publish
      <3> QED
        BY <2>1, <3>1 DEF Publish, TypeOK
    <2>5. lost'[s] \in BOOLEAN
      BY Zenon DEF Publish, TypeOK
    <2> QED
      BY <2>3, <2>4, <2>5
  <1>2. faults' \in 0..MaxFaults
    BY ConstantsAssumption DEF Publish, Fault, TypeOK
  <1>3. queue' = [s \in Subscriber |-> queue'[s]] /\ lost' = [s \in Subscriber |-> lost'[s]]
    BY DEF Publish
  <1> QED
    BY <1>1, <1>2, <1>3

\* A message taken from a queue.
LEMMA TakeTypes ==
  ASSUME TypeOK, NEW s \in Subscriber, queue[s] # <<>>, Take(s)
  PROVE  /\ queue' \in [Subscriber -> Seq(Message)]
         /\ \A t \in Subscriber : Len(queue'[t]) <= HighWater
         /\ Head(queue[s]) \in Message /\ Head(queue[s]) = queue[s][1]
         /\ Len(queue[s]) \in Nat \ {0}
         /\ queue'[s] = Tail(queue[s])
         /\ Len(queue'[s]) = Len(queue[s]) - 1
         /\ \A i \in 1..Len(queue'[s]) : queue'[s][i] = queue[s][i + 1]
         /\ \A t \in Subscriber \ {s} : queue'[t] = queue[t]
  <1>1. queue[s] \in Seq(Message) /\ queue \in [Subscriber -> Seq(Message)]
    BY DEF TypeOK
  <1>2. /\ Head(queue[s]) \in Message /\ Tail(queue[s]) \in Seq(Message)
        /\ Len(Tail(queue[s])) = Len(queue[s]) - 1
        /\ \A i \in 1..Len(Tail(queue[s])) : Tail(queue[s])[i] = queue[s][i + 1]
    BY <1>1, HeadTailProperties
  <1>3. Head(queue[s]) = queue[s][1] /\ Len(queue[s]) \in Nat \ {0}
    BY <1>1, EmptySeq
  <1>4. queue'[s] = Tail(queue[s]) /\ \A t \in Subscriber \ {s} : queue'[t] = queue[t]
    BY <1>1 DEF Take
  <1>5. queue' \in [Subscriber -> Seq(Message)]
    BY <1>1, <1>2 DEF Take
  <1>6. ASSUME NEW t \in Subscriber PROVE Len(queue'[t]) <= HighWater
    <2>1. Len(queue[t]) <= HighWater
      BY DEF TypeOK
    <2>2. CASE t = s
      <3>1. Len(queue'[t]) = Len(queue[t]) - 1 /\ Len(queue[t]) \in Nat
        BY <1>2, <1>3, <1>4, <2>2
      <3> QED
        BY <2>1, <3>1, ConstantsAssumption
    <2>3. CASE t # s
      BY <1>4, <2>1, <2>3
    <2> QED
      BY <2>2, <2>3
  <1> QED
    BY <1>2, <1>3, <1>4, <1>5, <1>6

-----------------------------------------------------------------------------

LEMMA NextPacketType == TypeOK /\ NextPacket => packet' \in Packet
  <1> SUFFICES ASSUME TypeOK, NextPacket PROVE packet' \in Packet
    OBVIOUS
  <1>1. packet + 1 \in Int
    BY ConstantsAssumption DEF TypeOK, Packet
  <1> QED
    BY <1>1, PacketNumbers DEF NextPacket

LEMMA GapType ==
  ASSUME TypeOK, NEW s \in Subscriber, shown[s] # None, NEW n \in Packet
  PROVE  Gap(s, n) \in Packet
  <1>1. shown[s][2] \in Packet
    BY DEF TypeOK
  <1>2. n + 2 * Numbers - shown[s][2] - 1 \in Int
    BY <1>1, ConstantsAssumption DEF Packet
  <1> QED
    BY <1>2, PacketNumbers DEF Gap

\* Variables keep the types the code gives them.
LEMMA TypeStep == IInv /\ [Next]_vars => TypeOK'
  <1> SUFFICES ASSUME IInv, [Next]_vars PROVE TypeOK'
    OBVIOUS
  <1>t. TypeOK
    BY DEF IInv
  <1> USE DEF reader, feed
  <1>1. CASE ReadPacket
    <2>1. Id(packet) \in Message
      BY <1>t, MessageTypes DEF TypeOK
    <2>2. Publish(Id(packet))
      BY <1>1 DEF ReadPacket
    <2>3. /\ queue' \in [Subscriber -> Seq(Message)]
          /\ \A s \in Subscriber : Len(queue'[s]) <= HighWater
          /\ lost' \in [Subscriber -> BOOLEAN] /\ faults' \in 0..MaxFaults
      BY <1>t, <2>1, <2>2, PublishTypes
    <2> QED
      BY <1>1, <1>t, <2>3 DEF ReadPacket, Publish, TypeOK
  <1>2. CASE PublishBody
    <2>1. Body(packet) \in Message
      BY <1>t, MessageTypes DEF TypeOK
    <2>2. Publish(Body(packet))
      BY <1>2 DEF PublishBody
    <2>3. /\ queue' \in [Subscriber -> Seq(Message)]
          /\ \A s \in Subscriber : Len(queue'[s]) <= HighWater
          /\ lost' \in [Subscriber -> BOOLEAN] /\ faults' \in 0..MaxFaults
      BY <1>t, <2>1, <2>2, PublishTypes
    <2>4. packet' \in Packet
      BY <1>2, <1>t, NextPacketType DEF PublishBody
    <2> QED
      BY <1>2, <1>t, <2>3, <2>4 DEF PublishBody, Publish, TypeOK
  <1>3. CASE NoBody
    <2>1. packet' \in Packet
      BY <1>3, <1>t, NextPacketType DEF NoBody
    <2>2. faults' \in 0..MaxFaults
      BY <1>3, <1>t, ConstantsAssumption DEF NoBody, Fault, TypeOK
    <2> QED
      BY <1>3, <1>t, <2>1, <2>2 DEF NoBody, TypeOK
  <1>4. ASSUME NEW s \in Subscriber, Join(s) \/ Loop(s) \/ PollTimeout(s) PROVE TypeOK'
    BY <1>4, <1>t DEF Join, Loop, PollTimeout, TypeOK
  <1>5. ASSUME NEW s \in Subscriber, Leave(s) PROVE TypeOK'
    <2>1. <<>> \in Seq(Message) /\ Len(<<>>) = 0 /\ 0 <= HighWater
      BY ConstantsAssumption
    <2>2. /\ queue' \in [Subscriber -> Seq(Message)]
          /\ \A t \in Subscriber : Len(queue'[t]) <= HighWater
      BY <1>5, <1>t, <2>1 DEF Leave, TypeOK
    <2>3. lost' \in [Subscriber -> BOOLEAN]
      BY <1>5, <1>t, Zenon DEF Leave, TypeOK
    <2> QED
      BY <1>5, <1>t, <2>2, <2>3 DEF Leave, TypeOK
  <1>6. ASSUME NEW s \in Subscriber, SkipBody(s) PROVE TypeOK'
    <2>1. queue' \in [Subscriber -> Seq(Message)] /\ \A t \in Subscriber : Len(queue'[t]) <= HighWater
      BY <1>6, <1>t, TakeTypes DEF SkipBody, Arrived
    <2> QED
      BY <1>6, <1>t, <2>1 DEF SkipBody, TypeOK
  <1>7. ASSUME NEW s \in Subscriber, TakeId(s) PROVE TypeOK'
    <2>1. /\ queue' \in [Subscriber -> Seq(Message)] /\ \A t \in Subscriber : Len(queue'[t]) <= HighWater
          /\ Head(queue[s]) \in Message
      BY <1>7, <1>t, TakeTypes DEF TakeId
    <2> QED
      BY <1>7, <1>t, <2>1 DEF TakeId, TypeOK
  <1>8. ASSUME NEW s \in Subscriber, Forget(s) PROVE TypeOK'
    <2>1. faults' \in 0..MaxFaults
      BY <1>8, <1>t, ConstantsAssumption DEF Forget, Fault, TypeOK
    <2> QED
      BY <1>8, <1>t, <2>1 DEF Forget, Done, TypeOK
  <1>9. ASSUME NEW s \in Subscriber, Mismatch(s) \/ Unexpected(s) PROVE TypeOK'
    <2>1. queue' \in [Subscriber -> Seq(Message)] /\ \A t \in Subscriber : Len(queue'[t]) <= HighWater
      BY <1>9, <1>t, TakeTypes DEF Mismatch, Unexpected, Arrived
    <2> QED
      BY <1>9, <1>t, <2>1 DEF Mismatch, Unexpected, Done, TypeOK
  <1>10. ASSUME NEW s \in Subscriber, Show(s) PROVE TypeOK'
    <2>1. /\ queue' \in [Subscriber -> Seq(Message)] /\ \A t \in Subscriber : Len(queue'[t]) <= HighWater
          /\ Head(queue[s]) \in Message
      BY <1>10, <1>t, TakeTypes DEF Show, Arrived
    <2>2. held[s] \in Message
      BY <1>10 DEF IInv, SubscriberInv, Holds, Show
    <2>3. held[s].number \in Packet /\ Head(queue[s]).number \in Packet
      BY <2>1, <2>2, MessageTypes
    <2>4. shown' \in [Subscriber -> (Packet \X Packet) \cup {None}]
      BY <1>10, <1>t, <2>3 DEF Show, TypeOK
    <2>5. skipped' \in [Viewer -> 0..SkipCap]
      <3>1. CASE s \in Viewer /\ shown[s] # None
        <4> DEFINE g == Gap(s, Head(queue[s]).number)
        <4>1. g \in Packet
          BY <1>t, <2>3, <3>1, GapType
        <4> HIDE DEF g
        <4>2. skipped' = [skipped EXCEPT ![s] = IF @ + g < SkipCap THEN @ + g ELSE SkipCap]
          BY <1>10, <3>1 DEF Show, g
        <4>3. skipped[s] \in 0..SkipCap /\ SkipCap \in Nat /\ g \in Nat
          BY <1>t, <3>1, <4>1, ConstantsAssumption DEF TypeOK, SkipCap, Packet
        <4>4. (IF skipped[s] + g < SkipCap THEN skipped[s] + g ELSE SkipCap) \in 0..SkipCap
          BY <4>3
        <4> QED
          BY <1>t, <3>1, <4>2, <4>4 DEF TypeOK
      <3>2. CASE ~(s \in Viewer /\ shown[s] # None)
        BY <1>10, <1>t, <3>2 DEF Show, TypeOK
      <3> QED
        BY <3>1, <3>2
    <2> QED
      BY <1>10, <1>t, <2>1, <2>4, <2>5 DEF Show, Done, TypeOK
  <1>11. CASE Signal
    <2>1. stopping' \in BOOLEAN
      BY <1>11, Zenon DEF Signal
    <2> QED
      BY <1>11, <1>t, <2>1 DEF Signal, TypeOK
  <1>12. CASE UNCHANGED vars
    BY <1>12, <1>t DEF vars, TypeOK
  <1> QED
    BY <1>1, <1>2, <1>3, <1>4, <1>5, <1>6, <1>7, <1>8, <1>9, <1>10, <1>11, <1>12
    DEF Next, Finish, Subscription

-----------------------------------------------------------------------------

\* A step of someone else's.
LEMMA Frame ==
  ASSUME NEW t \in Subscriber, SubscriberInv(t), UNCHANGED reader,
         queue'[t] = queue[t], spc'[t] = spc[t], held'[t] = held[t], lost'[t] = lost[t]
  PROVE  SubscriberInv(t)'
  BY DEF SubscriberInv, Holds, Adjacent, Joined, reader

\* A message that an undisturbed subscriber gets is the last of its queue, and
\* changes nothing before it.
LEMMA PublishAppends ==
  ASSUME TypeOK, NEW m \in Message, Publish(m), NEW s \in Subscriber, ~lost'[s], Joined(s)
  PROVE  /\ ~lost[s]
         /\ Len(queue[s]) \in Nat /\ Len(queue'[s]) = Len(queue[s]) + 1
         /\ queue'[s] # <<>> /\ queue'[s][Len(queue[s]) + 1] = m
         /\ \A i \in 1..Len(queue[s]) : queue'[s][i] = queue[s][i]
         /\ queue[s] = <<>> <=> Len(queue[s]) = 0
  <1>1. ~lost[s] /\ ~Full(s)
    BY DEF Publish
  <1>2. queue'[s] = Append(queue[s], m)
    BY <1>1 DEF Publish
  <1>3. queue[s] \in Seq(Message)
    BY DEF TypeOK
  <1> QED
    BY <1>1, <1>2, <1>3, AppendProperties, EmptySeq

LEMMA ReadPacketInv ==
  ASSUME IInv, ReadPacket, NEW s \in Subscriber
  PROVE  SubscriberInv(s)'
  <1>t. TypeOK /\ SubscriberInv(s)
    BY DEF IInv
  <1>p. Id(packet) \in Message /\ Publish(Id(packet)) /\ Id(packet).kind = "id"
    BY <1>t, MessageTypes DEF TypeOK, ReadPacket
  <1>u. spc' = spc /\ held' = held /\ packet' = packet /\ ppc' = "body"
    BY <1>p DEF Publish, ReadPacket
  <1>1. CASE ~Joined(s)
    <2>1. queue'[s] = queue[s] /\ queue[s] = <<>> /\ Len(queue[s]) = 0
      BY <1>t, <1>1, <1>p DEF Publish, SubscriberInv, Holds
    <2> QED
      BY <1>t, <1>1, <1>u, <2>1 DEF SubscriberInv, Holds, Adjacent, Joined
  <1>2. CASE Joined(s)
    <2>1. Holds(s)'
      BY <1>t, <1>2, <1>u DEF SubscriberInv, Holds, Joined
    <2>2. ASSUME ~lost'[s] PROVE Adjacent(s)'
      <3>1. /\ ~lost[s]
            /\ Len(queue[s]) \in Nat /\ Len(queue'[s]) = Len(queue[s]) + 1
            /\ queue'[s] # <<>> /\ queue'[s][Len(queue[s]) + 1] = Id(packet)
            /\ \A i \in 1..Len(queue[s]) : queue'[s][i] = queue[s][i]
            /\ queue[s] = <<>> <=> Len(queue[s]) = 0
        BY <1>t, <1>p, <1>2, <2>2, PublishAppends
      <3>2. Adjacent(s)
        BY <1>t, <3>1 DEF SubscriberInv
      <3>3. ASSUME NEW i \in 2..Len(queue'[s]), queue'[s][i].kind = "body"
            PROVE  queue'[s][i - 1] = Id(queue'[s][i].number)
        <4>1. i # Len(queue[s]) + 1
          BY <1>p, <3>1, <3>3
        <4>2. i \in 2..Len(queue[s]) /\ i - 1 \in 1..Len(queue[s]) /\ i \in 1..Len(queue[s])
          BY <3>1, <4>1
        <4> QED
          BY <3>1, <3>2, <3>3, <4>2 DEF Adjacent
      <3>4. ASSUME spc'[s] = "body", held'[s].kind = "id", queue'[s][1].kind = "body"
            PROVE  held'[s] = Id(queue'[s][1].number)
        <4>1. Len(queue[s]) # 0
          BY <1>p, <3>1, <3>4
        <4>2. 1 \in 1..Len(queue[s]) /\ queue[s] # <<>>
          BY <3>1, <4>1
        <4> QED
          BY <1>u, <3>1, <3>2, <3>4, <4>2 DEF Adjacent
      <3> QED
        BY <1>u, <3>1, <3>3, <3>4 DEF Adjacent
    <2> QED
      BY <2>1, <2>2 DEF SubscriberInv
  <1> QED
    BY <1>1, <1>2

\* The body is appended behind its ID, or goes to a subscriber that holds it.
LEMMA PublishBodyInv ==
  ASSUME IInv, PublishBody, NEW s \in Subscriber
  PROVE  SubscriberInv(s)'
  <1>t. TypeOK /\ SubscriberInv(s)
    BY DEF IInv
  <1>p. /\ Body(packet) \in Message /\ Publish(Body(packet))
        /\ Body(packet).kind = "body" /\ Body(packet).number = packet
    BY <1>t, MessageTypes DEF TypeOK, PublishBody
  <1>u. spc' = spc /\ held' = held /\ ppc = "body" /\ ppc' = "read"
    BY <1>p DEF Publish, PublishBody
  <1>1. CASE ~Joined(s)
    <2>1. queue'[s] = queue[s] /\ queue[s] = <<>> /\ Len(queue[s]) = 0
      BY <1>t, <1>1, <1>p DEF Publish, SubscriberInv, Holds
    <2> QED
      BY <1>t, <1>1, <1>u, <2>1 DEF SubscriberInv, Holds, Adjacent, Joined
  <1>2. CASE Joined(s)
    <2>1. Holds(s)'
      BY <1>t, <1>2, <1>u DEF SubscriberInv, Holds, Joined
    <2>2. ASSUME ~lost'[s] PROVE Adjacent(s)'
      <3>1. /\ ~lost[s]
            /\ Len(queue[s]) \in Nat /\ Len(queue'[s]) = Len(queue[s]) + 1
            /\ queue'[s] # <<>> /\ queue'[s][Len(queue[s]) + 1] = Body(packet)
            /\ \A i \in 1..Len(queue[s]) : queue'[s][i] = queue[s][i]
            /\ queue[s] = <<>> <=> Len(queue[s]) = 0
        BY <1>t, <1>p, <1>2, <2>2, PublishAppends
      <3>2. Adjacent(s)
        BY <1>t, <3>1 DEF SubscriberInv
      <3>3. ASSUME NEW i \in 2..Len(queue'[s]), queue'[s][i].kind = "body"
            PROVE  queue'[s][i - 1] = Id(queue'[s][i].number)
        <4>1. CASE i = Len(queue[s]) + 1
          <5>1. queue[s] # <<>> /\ i - 1 \in 1..Len(queue[s]) /\ i - 1 = Len(queue[s])
            BY <3>1, <4>1
          <5>2. queue[s][Len(queue[s])] = Id(packet)
            BY <1>2, <1>u, <3>2, <5>1 DEF Adjacent
          <5> QED
            BY <1>p, <3>1, <4>1, <5>1, <5>2
        <4>2. CASE i # Len(queue[s]) + 1
          <5>1. i \in 2..Len(queue[s]) /\ i - 1 \in 1..Len(queue[s]) /\ i \in 1..Len(queue[s])
            BY <3>1, <4>2
          <5> QED
            BY <3>1, <3>2, <3>3, <5>1 DEF Adjacent
        <4> QED
          BY <4>1, <4>2
      <3>4. ASSUME spc'[s] = "body", held'[s].kind = "id", queue'[s][1].kind = "body"
            PROVE  held'[s] = Id(queue'[s][1].number)
        <4>1. CASE queue[s] = <<>>
          <5>1. queue'[s][1] = Body(packet)
            BY <3>1, <4>1
          <5>2. held[s] = Id(packet)
            BY <1>2, <1>u, <3>2, <3>4, <4>1 DEF Adjacent
          <5> QED
            BY <1>p, <1>u, <5>1, <5>2
        <4>2. CASE queue[s] # <<>>
          <5>1. 1 \in 1..Len(queue[s])
            BY <3>1, <4>2
          <5> QED
            BY <1>u, <3>1, <3>2, <3>4, <4>2, <5>1 DEF Adjacent
        <4> QED
          BY <4>1, <4>2
      <3> QED
        BY <1>u, <3>1, <3>3, <3>4 DEF Adjacent
    <2> QED
      BY <2>1, <2>2 DEF SubscriberInv
  <1> QED
    BY <1>1, <1>2

-----------------------------------------------------------------------------

\* Taking the first message moves the rest up; if it is held for the ID, it is
\* what the next one is held against.
LEMMA TakeAdjacent ==
  ASSUME IInv, NEW s \in Subscriber, queue[s] # <<>>, Take(s), UNCHANGED reader,
         ~lost[s], Joined(s), spc'[s] = "body" => held'[s] = Head(queue[s])
  PROVE  Adjacent(s)'
  <1>1. /\ Head(queue[s]) = queue[s][1]
        /\ Len(queue[s]) \in Nat \ {0}
        /\ Len(queue'[s]) = Len(queue[s]) - 1
        /\ \A i \in 1..Len(queue'[s]) : queue'[s][i] = queue[s][i + 1]
    BY TakeTypes DEF IInv
  <1>2. Adjacent(s)
    BY DEF IInv, SubscriberInv
  <1>3. queue'[s] \in Seq(Message)
    BY TakeTypes DEF IInv
  <1>4. queue'[s] = <<>> <=> Len(queue'[s]) = 0
    BY <1>3, EmptySeq
  <1>5. ASSUME NEW i \in 2..Len(queue'[s]), queue'[s][i].kind = "body"
        PROVE  queue'[s][i - 1] = Id(queue'[s][i].number)
    <2>1. i \in 1..Len(queue'[s]) /\ i - 1 \in 1..Len(queue'[s]) /\ i + 1 \in 2..Len(queue[s])
      BY <1>1
    <2>2. (i - 1) + 1 = (i + 1) - 1
      OBVIOUS
    <2>3. queue'[s][i] = queue[s][i + 1] /\ queue'[s][i - 1] = queue[s][(i - 1) + 1]
      BY <1>1, <2>1
    <2> QED
      BY <1>2, <1>5, <2>1, <2>2, <2>3 DEF Adjacent
  <1>6. ASSUME spc'[s] = "body", queue'[s] # <<>>, queue'[s][1].kind = "body"
        PROVE  held'[s] = Id(queue'[s][1].number)
    <2>1. 1 \in 1..Len(queue'[s]) /\ 2 \in 2..Len(queue[s])
      BY <1>1, <1>4, <1>6
    <2>2. queue'[s][1] = queue[s][2] /\ held'[s] = queue[s][2 - 1]
      BY <1>1, <1>6, <2>1
    <2> QED
      BY <1>2, <1>6, <2>1, <2>2 DEF Adjacent
  <1>7. ASSUME ppc' = "body" PROVE queue[s][Len(queue[s])] = Id(packet)
    BY <1>2, <1>7 DEF Adjacent, reader
  <1>8. ASSUME ppc' = "body", queue'[s] # <<>> PROVE queue'[s][Len(queue'[s])] = Id(packet)
    <2>1. Len(queue'[s]) \in 1..Len(queue'[s]) /\ Len(queue'[s]) + 1 = Len(queue[s])
      BY <1>1, <1>4, <1>8
    <2> QED
      BY <1>1, <1>7, <1>8, <2>1
  <1>9. ASSUME ppc' = "body", queue'[s] = <<>>, spc'[s] = "body" PROVE held'[s] = Id(packet)
    BY <1>1, <1>4, <1>7, <1>9
  <1>10. packet' = packet
    BY DEF reader
  <1> QED
    BY <1>5, <1>6, <1>8, <1>9, <1>10 DEF Adjacent

\* The step of a subscriber, and what it leaves of its own invariant.
LEMMA SubscriptionInv ==
  ASSUME IInv, NEW s \in Subscriber, Subscription(s) \/ Join(s) \/ Leave(s)
  PROVE  SubscriberInv(s)'
  <1>t. TypeOK /\ SubscriberInv(s)
    BY DEF IInv
  <1> USE DEF feed
  <1>1. CASE Join(s) \/ Loop(s) \/ PollTimeout(s)
    <2>1. spc'[s] \in {"top", "id"} /\ queue'[s] = queue[s] /\ lost'[s] = lost[s] /\ UNCHANGED reader
      BY <1>1, <1>t DEF Join, Loop, PollTimeout, TypeOK
    <2>2. ~Joined(s) => queue[s] = <<>> /\ Len(queue[s]) = 0
      BY <1>t DEF SubscriberInv, Holds
    <2> QED
      BY <1>t, <2>1, <2>2 DEF SubscriberInv, Holds, Adjacent, Joined, reader
  <1>2. CASE Leave(s)
    <2>1. spc'[s] = "out" /\ queue'[s] = <<>> /\ Len(queue'[s]) = 0
      BY <1>2, <1>t DEF Leave, TypeOK
    <2> QED
      BY <2>1 DEF SubscriberInv, Holds, Adjacent, Joined
  <1>3. CASE Forget(s)
    <2>1. spc'[s] = "top" /\ queue'[s] = queue[s] /\ lost'[s] = lost[s] /\ UNCHANGED reader /\ Joined(s)
      BY <1>3, <1>t DEF Forget, Done, TypeOK, Joined
    <2> QED
      BY <1>t, <2>1 DEF SubscriberInv, Holds, Adjacent, Joined, reader
  <1>4. CASE SkipBody(s) \/ Mismatch(s) \/ Unexpected(s) \/ Show(s)
    <2>1. /\ queue[s] # <<>> /\ Take(s) /\ UNCHANGED reader /\ lost'[s] = lost[s]
          /\ spc'[s] = "top" /\ Joined(s)
      BY <1>4, <1>t DEF SkipBody, Mismatch, Unexpected, Show, Arrived, Done, TypeOK, Joined
    <2>2. ~lost[s] => Adjacent(s)'
      BY <2>1, TakeAdjacent
    <2> QED
      BY <2>1, <2>2 DEF SubscriberInv, Holds, Joined
  <1>5. CASE TakeId(s)
    <2>1. /\ queue[s] # <<>> /\ Take(s) /\ UNCHANGED reader /\ lost'[s] = lost[s]
          /\ spc'[s] = "body" /\ held'[s] = Head(queue[s]) /\ Joined(s)
      BY <1>5, <1>t DEF TakeId, TypeOK, Joined
    <2>2. ~lost[s] => Adjacent(s)'
      BY <2>1, TakeAdjacent
    <2>3. held'[s] \in Message
      BY <1>t, <2>1, TakeTypes
    <2>4. s \in Viewer => held'[s].kind = "id"
      BY <1>5, <2>1 DEF TakeId, Arrived
    <2> QED
      BY <2>1, <2>2, <2>3, <2>4 DEF SubscriberInv, Holds, Joined
  <1> QED
    BY <1>1, <1>2, <1>3, <1>4, <1>5 DEF Subscription

LEMMA SubscribersStep == IInv /\ [Next]_vars => \A t \in Subscriber : SubscriberInv(t)'
  <1> SUFFICES ASSUME IInv, [Next]_vars, NEW t \in Subscriber PROVE SubscriberInv(t)'
    OBVIOUS
  <1>t. TypeOK /\ SubscriberInv(t)
    BY DEF IInv
  <1>1. CASE ReadPacket
    BY <1>1, ReadPacketInv
  <1>2. CASE PublishBody
    BY <1>2, PublishBodyInv
  <1>3. CASE NoBody
    <2>1. ppc' = "read" /\ queue' = queue /\ spc' = spc /\ held' = held /\ lost' = lost
      BY <1>3 DEF NoBody
    <2> QED
      BY <1>t, <2>1 DEF SubscriberInv, Holds, Adjacent, Joined
  <1>4. CASE Signal \/ UNCHANGED vars
    <2>1. UNCHANGED <<reader, queue, spc, held, lost>>
      BY <1>4 DEF Signal, vars, reader
    <2> QED
      BY <1>t, <2>1, Frame
  <1>5. ASSUME NEW s \in Subscriber, Subscription(s) \/ Join(s) \/ Leave(s) PROVE SubscriberInv(t)'
    <2>1. CASE t = s
      BY <1>5, <2>1, SubscriptionInv
    <2>2. CASE t # s
      <3>1. UNCHANGED reader /\ spc'[t] = spc[t] /\ held'[t] = held[t] /\ lost'[t] = lost[t]
        BY <1>5, <1>t, <2>2 DEF Subscription, Join, Leave, Loop, PollTimeout, SkipBody, TakeId, Forget,
           Mismatch, Unexpected, Show, Done, TypeOK, feed, reader
      <3>2. queue'[t] = queue[t]
        BY <1>5, <1>t, <2>2 DEF Subscription, Join, Leave, Loop, PollTimeout, SkipBody, TakeId, Forget,
           Mismatch, Unexpected, Show, Take, TypeOK
      <3> QED
        BY <1>t, <3>1, <3>2, Frame
    <2> QED
      BY <2>1, <2>2
  <1> QED
    BY <1>1, <1>2, <1>3, <1>4, <1>5 DEF Next, Finish

LEMMA PairsStep == IInv /\ [Next]_vars => PairsMatch'
  <1> SUFFICES ASSUME IInv, [Next]_vars, NEW t \in Subscriber, ~lost'[t], shown'[t] # None
               PROVE  shown'[t][1] = shown'[t][2]
    BY DEF PairsMatch
  <1>t. TypeOK /\ SubscriberInv(t) /\ (~lost[t] /\ shown[t] # None => shown[t][1] = shown[t][2])
    BY DEF IInv, PairsMatch
  <1>1. CASE shown'[t] = shown[t] /\ (lost[t] => lost'[t])
    BY <1>t, <1>1
  <1>2. ASSUME Show(t) PROVE shown'[t][1] = shown'[t][2]
    <2>1. queue[t] # <<>> /\ spc[t] = "body" /\ Head(queue[t]).kind = "body" /\ held[t].kind = "id"
      BY <1>2 DEF Show, Arrived
    <2>2. Head(queue[t]) = queue[t][1] /\ Head(queue[t]) \in Message
      BY <1>t, <1>2, <2>1, TakeTypes DEF Show
    <2>3. ~lost[t]
      BY <1>2 DEF Show, feed
    <2>4. held[t] = Id(Head(queue[t]).number)
      BY <1>t, <2>1, <2>2, <2>3 DEF SubscriberInv, Adjacent
    <2>5. held[t].number = Head(queue[t]).number
      BY <2>4 DEF Id
    <2>6. shown'[t] = <<held[t].number, Head(queue[t]).number>>
      BY <1>2, <1>t DEF Show, TypeOK
    <2> QED
      BY <2>5, <2>6
  <1>3. CASE ReadPacket \/ Finish
    <2>1. shown' = shown /\ (lost[t] => lost'[t])
      BY <1>3 DEF ReadPacket, Finish, PublishBody, NoBody, Publish
    <2> QED
      BY <1>1, <2>1
  <1>4. CASE Signal \/ UNCHANGED vars
    BY <1>1, <1>4 DEF Signal, vars
  <1>5. ASSUME NEW s \in Subscriber, Join(s) \/ Leave(s) \/ Subscription(s), ~Show(t)
        PROVE  shown'[t] = shown[t] /\ (lost[t] => lost'[t])
    <2>1. ASSUME Leave(s) PROVE t # s
      BY <1>t, <2>1 DEF Leave, TypeOK
    <2>2. CASE Leave(s)
      BY <1>t, <2>1, <2>2 DEF Leave, TypeOK
    <2>3. CASE Show(s)
      <3>1. t # s
        BY <1>5, <2>3
      <3> QED
        BY <1>t, <2>3, <3>1 DEF Show, TypeOK, feed
    <2>4. CASE ~Leave(s) /\ ~Show(s)
      BY <1>5, <2>4 DEF Subscription, Join, Loop, PollTimeout, SkipBody, TakeId, Forget, Mismatch, Unexpected, feed
    <2> QED
      BY <2>2, <2>3, <2>4
  <1> QED
    BY <1>1, <1>2, <1>3, <1>4, <1>5 DEF Next

-----------------------------------------------------------------------------

THEOREM Invariance == Spec => []IInv
  <1>1. IInv /\ [Next]_vars => IInv'
    BY TypeStep, SubscribersStep, PairsStep DEF IInv
  <1> QED
    BY InitInv, <1>1, PTL DEF Spec

\* The variables keep their types: queues stay within the high-water mark, and
\* disturbances within their bound, for every choice of the constants.
THEOREM TypeCorrect == Spec => []TypeOK
  <1>1. IInv => TypeOK
    BY DEF IInv
  <1> QED
    BY Invariance, <1>1, PTL

\* No subscriber whose queue has not overflowed takes a body for that of another
\* packet, for any number of viewers and sessions, packets and disturbances.
THEOREM Pairing == Spec => []PairsMatch
  <1>1. IInv => PairsMatch
    BY DEF IInv
  <1> QED
    BY Invariance, <1>1, PTL

-----------------------------------------------------------------------------
(* Numbers modulo Numbers. *)

\* Quotient and rest.
LEMMA Divide ==
  \A a \in Int : /\ a % Numbers \in 0..(Numbers - 1) /\ a \div Numbers \in Int
                 /\ a = Numbers * (a \div Numbers) + (a % Numbers)
  BY ConstantsAssumption

\* A multiple is zero or as large as Numbers.
LEMMA Multiples ==
  \A q \in Int : /\ q >= 1 => Numbers * q >= Numbers
                 /\ q <= -1 => Numbers * q <= -Numbers
                 /\ Numbers * q \in Int
  BY ConstantsAssumption

\* The rest is unique.
LEMMA OneRest ==
  ASSUME NEW x \in Int, NEW y \in Int, NEW r \in 0..(Numbers - 1), NEW s \in 0..(Numbers - 1),
         Numbers * x + r = Numbers * y + s
  PROVE  r = s
<1>1. Numbers * (x - y) = s - r
  BY ConstantsAssumption
<1>2. x - y \in Int
  OBVIOUS
<1>3. ~(x - y >= 1) /\ ~(x - y <= -1)
  BY <1>1, <1>2, Multiples, ConstantsAssumption
<1>4. x = y
  BY <1>3
<1> QED
  BY <1>4, ConstantsAssumption

\* A multiple more does not change it.
LEMMA SameRest ==
  ASSUME NEW a \in Int, NEW b \in Int, NEW q \in Int, a = Numbers * q + b
  PROVE  a % Numbers = b % Numbers
<1>1. /\ a % Numbers \in 0..(Numbers - 1) /\ b % Numbers \in 0..(Numbers - 1)
      /\ a \div Numbers \in Int /\ b \div Numbers \in Int
      /\ a = Numbers * (a \div Numbers) + (a % Numbers)
      /\ b = Numbers * (b \div Numbers) + (b % Numbers)
  BY Divide
<1>2. a = Numbers * (q + (b \div Numbers)) + (b % Numbers)
  BY <1>1, ConstantsAssumption
<1> QED
  BY <1>1, <1>2, OneRest

\* The number of the next packet.
LEMMA NextNumber ==
  ASSUME NEW a \in Nat
  PROVE  ((a % Numbers) + 1) % Numbers = (a + 1) % Numbers
<1> DEFINE r == a % Numbers
           q == a \div Numbers
<1>1. a = Numbers * q + r /\ r \in Int /\ q \in Int
  BY Divide, ConstantsAssumption
<1> HIDE DEF q, r
<1>2. a + 1 = Numbers * q + (r + 1)
  BY <1>1, ConstantsAssumption
<1>3. (a + 1) % Numbers = (r + 1) % Numbers
  BY <1>1, <1>2, SameRest
<1> QED
  BY <1>3 DEF r

\* A number below Numbers is its own rest, and no rest exceeds its number.
LEMMA OwnRest ==
  /\ \A a \in Packet : a % Numbers = a
  /\ \A a \in Nat : a % Numbers <= a
<1>1. ASSUME NEW a \in Packet PROVE a % Numbers = a
  <2>1. /\ a \in 0..(Numbers - 1) /\ a % Numbers \in 0..(Numbers - 1) /\ a \div Numbers \in Int
        /\ a = Numbers * (a \div Numbers) + (a % Numbers)
    BY ConstantsAssumption, Divide DEF Packet
  <2>2. Numbers * (a \div Numbers) + (a % Numbers) = Numbers * 0 + a
    BY <2>1, ConstantsAssumption
  <2> QED
    BY <2>1, <2>2, OneRest
<1>2. ASSUME NEW a \in Nat PROVE a % Numbers <= a
  <2>1. /\ a % Numbers \in 0..(Numbers - 1) /\ a \div Numbers \in Int
        /\ a = Numbers * (a \div Numbers) + (a % Numbers)
    BY Divide
  <2>2. ~(a \div Numbers <= -1)
    BY <2>1, Multiples, ConstantsAssumption
  <2>3. Numbers * (a \div Numbers) >= 0
    BY <2>1, <2>2, Multiples, ConstantsAssumption
  <2> QED
    BY <2>1, <2>3, ConstantsAssumption, Multiples
<1> QED
  BY <1>1, <1>2

\* The gap a viewer counts is not above the distance.
LEMMA GapBound ==
  ASSUME NEW k \in Nat, NEW l \in Nat, l < k
  PROVE  ((k % Numbers) + 2 * Numbers - (l % Numbers) - 1) % Numbers <= k - l - 1
<1> DEFINE rk == k % Numbers
           rl == l % Numbers
           qk == k \div Numbers
           ql == l \div Numbers
           y == rk + 2 * Numbers - rl - 1
<1>1. /\ k = Numbers * qk + rk /\ l = Numbers * ql + rl
      /\ rk \in Int /\ rl \in Int /\ qk \in Int /\ ql \in Int
  BY Divide, ConstantsAssumption
<1> HIDE DEF qk, ql, rk, rl
<1>2. /\ (qk - ql) - 2 \in Int
      /\ Numbers * ((qk - ql) - 2) = Numbers * qk - Numbers * ql - 2 * Numbers
  BY <1>1, ConstantsAssumption
<1>3. k - l - 1 = Numbers * ((qk - ql) - 2) + y /\ y \in Int
  BY <1>1, <1>2, ConstantsAssumption
<1>4. k - l - 1 \in Nat
  OBVIOUS
<1>5. (k - l - 1) % Numbers = y % Numbers
  BY <1>2, <1>3, <1>4, SameRest
<1>6. (k - l - 1) % Numbers <= k - l - 1
  BY <1>4, OwnRest
<1> QED
  BY <1>5, <1>6 DEF rk, rl

-----------------------------------------------------------------------------
(* The account of a viewer.  Messages have positions in the stream: the ID of *)
(* the k-th packet 2k, its body 2k + 1.                                       *)

Bit(m) == IF m.kind = "id" THEN 0 ELSE 1
Slot(q, k, i) == 2 * k[i] + Bit(q[i])

\* The messages of a queue lie in order between c, the last one taken, and w, the
\* next one to be published.
Placed(q, c, w, k) ==
  /\ \A i \in 1..Len(q) : /\ q[i].number = k[i] % Numbers
                          /\ c + i <= Slot(q, k, i)
                          /\ Slot(q, k, i) + (Len(q) + 1 - i) <= w
  /\ \A i, h \in 1..Len(q) : i < h => Slot(q, k, i) + (h - i) <= Slot(q, k, h)
  /\ c + Len(q) + 1 <= w

\* The position of the next message to be published.
Written(p) == 2 * p + (IF ppc = "body" THEN 1 ELSE 0)

\* The packets passed over since the l-th was shown, when the j-th is the last
\* one taken in part.
Debt(v, l, j) ==
  IF shown[v] = None THEN 0 ELSE IF spc[v] = "body" THEN j - 1 - l ELSE j - l

\* Each message that was to come between c and the end of the queue and is not
\* there has cost a disturbance, and pays for two packets.
Account(v, p, l, j, b, k) ==
  /\ p % Numbers = packet
  /\ Placed(queue[v], 2 * j + b, Written(p), k)
  /\ shown[v] # None => shown[v][2] = l % Numbers /\ l <= j
  /\ spc[v] = "body" => b = 0 /\ (shown[v] # None => l < j)
  /\ skipped[v] + Debt(v, l, j) + 2 * (Written(p) - (2 * j + b) - Len(queue[v]) - 1)
       <= 2 * faults

Solvent(v) ==
  /\ Joined(v) =>
       \E p \in Nat, l \in Nat, j \in Int, b \in {0, 1} :
         \E k \in [1..Len(queue[v]) -> Nat] : Account(v, p, l, j, b, k)
  /\ ~Joined(v) => shown[v] = None /\ skipped[v] <= 2 * faults

-----------------------------------------------------------------------------

\* A message is published and joins the queue.
LEMMA PlacedAppend ==
  ASSUME NEW q \in Seq(Message), NEW k \in [1..Len(q) -> Nat], NEW c \in Int, NEW p \in Nat,
         NEW m \in Message, m.number = p % Numbers, Placed(q, c, 2 * p + Bit(m), k)
  PROVE  \E a \in [1..Len(Append(q, m)) -> Nat] :
           Placed(Append(q, m), c, 2 * p + Bit(m) + 1, a)
<1> DEFINE n == Len(q)
           t == Append(q, m)
           w == 2 * p + Bit(m)
           a == [i \in 1..(n + 1) |-> IF i <= n THEN k[i] ELSE p]
<1>1. /\ n \in Nat /\ Len(t) = n + 1 /\ t[n + 1] = m
      /\ \A i \in 1..n : t[i] = q[i]
  BY AppendProperties
<1>2. a \in [1..(n + 1) -> Nat]
  BY <1>1
<1>3. a[n + 1] = p /\ \A i \in 1..n : a[i] = k[i]
  BY <1>1
<1>4. w \in Int /\ \A i \in 1..n : k[i] \in Nat /\ Slot(q, k, i) \in Int
  BY DEF Bit, Slot
<1>5. \A i \in 1..n : Slot(t, a, i) = Slot(q, k, i)
  <2> HIDE DEF a, t
  <2> QED
    BY <1>1, <1>3 DEF Slot
<1>6. Slot(t, a, n + 1) = w
  <2> HIDE DEF a, t
  <2> QED
    BY <1>1, <1>3 DEF Slot
<1>7. /\ \A i \in 1..n : /\ q[i].number = k[i] % Numbers
                         /\ c + i <= Slot(q, k, i)
                         /\ Slot(q, k, i) + (n + 1 - i) <= w
      /\ \A i, h \in 1..n : i < h => Slot(q, k, i) + (h - i) <= Slot(q, k, h)
      /\ c + n + 1 <= w
  BY DEF Placed
<1> HIDE DEF a, t, n, w
<1>8. \A i \in 1..(n + 1) : i \in 1..n \/ i = n + 1
  BY <1>1
<1>9. ASSUME NEW i \in 1..(n + 1)
      PROVE  /\ t[i].number = a[i] % Numbers
             /\ c + i <= Slot(t, a, i)
             /\ Slot(t, a, i) + ((n + 1) + 1 - i) <= w + 1
  <2>0. \A x, y, z, v \in Int : x + (y + 1 - z) <= v => x + ((y + 1) + 1 - z) <= v + 1
    OBVIOUS
  <2>1. CASE i \in 1..n
    <3>1. t[i] = q[i] /\ a[i] = k[i] /\ Slot(t, a, i) = Slot(q, k, i) /\ Slot(q, k, i) \in Int
      BY <1>1, <1>3, <1>4, <1>5, <2>1
    <3>2. /\ q[i].number = k[i] % Numbers /\ c + i <= Slot(q, k, i)
          /\ Slot(q, k, i) + (n + 1 - i) <= w
      BY <1>7, <2>1
    <3>3. i \in Int /\ n \in Int /\ w \in Int
      BY <1>1, <1>4, <2>1
    <3>4. Slot(q, k, i) + ((n + 1) + 1 - i) <= w + 1
      BY <2>0, <3>1, <3>2, <3>3
    <3> QED
      BY <3>1, <3>2, <3>4
  <2>2. CASE i = n + 1
    <3>1. t[i] = m /\ a[i] = p /\ Slot(t, a, i) = w
      BY <1>1, <1>3, <1>6, <2>2
    <3>2. c + i <= w /\ w + ((n + 1) + 1 - i) <= w + 1
      BY <1>1, <1>4, <1>7, <2>2
    <3> QED
      BY <3>1, <3>2
  <2> QED
    BY <1>8, <2>1, <2>2
<1>10. ASSUME NEW i \in 1..(n + 1), NEW h \in 1..(n + 1), i < h
       PROVE  Slot(t, a, i) + (h - i) <= Slot(t, a, h)
  <2>1. i \in 1..n
    BY <1>1, <1>10
  <2>2. CASE h \in 1..n
    BY <1>5, <1>7, <1>10, <2>1, <2>2
  <2>3. CASE h = n + 1
    <3>1. Slot(q, k, i) + (n + 1 - i) <= w
      BY <1>7, <2>1
    <3>2. Slot(t, a, i) = Slot(q, k, i) /\ Slot(t, a, h) = w /\ h - i = n + 1 - i
      <4>1. Slot(t, a, i) = Slot(q, k, i)
        BY <1>5, <2>1
      <4>2. Slot(t, a, h) = w
        BY <1>6, <2>3
      <4>3. h - i = n + 1 - i
        BY <1>1, <2>1, <2>3
      <4> QED
        BY <4>1, <4>2, <4>3
    <3> QED
      BY <3>1, <3>2
  <2> QED
    BY <1>8, <2>2, <2>3
<1>11. Placed(t, c, w + 1, a)
  BY <1>1, <1>4, <1>7, <1>9, <1>10 DEF Placed
<1> QED
  BY <1>1, <1>2, <1>11 DEF t, w

\* The first message is taken.
LEMMA PlacedTail ==
  ASSUME NEW q \in Seq(Message), q # <<>>, NEW k \in [1..Len(q) -> Nat],
         NEW c \in Int, NEW w \in Int, Placed(q, c, w, k)
  PROVE  /\ \E a \in [1..Len(Tail(q)) -> Nat] : Placed(Tail(q), Slot(q, k, 1), w, a)
         /\ c + 1 <= Slot(q, k, 1) /\ k[1] \in Nat /\ q[1].number = k[1] % Numbers
<1> DEFINE n == Len(q)
           t == Tail(q)
           a == [i \in 1..(n - 1) |-> k[i + 1]]
<1>1. /\ n \in Nat \ {0} /\ Len(t) = n - 1 /\ \A i \in 1..(n - 1) : t[i] = q[i + 1]
  BY HeadTailProperties, EmptySeq
<1>2. a \in [1..(n - 1) -> Nat] /\ k[1] \in Nat /\ 1 \in 1..n
  BY <1>1
<1>4. \A i \in 1..n : k[i] \in Nat /\ Slot(q, k, i) \in Int
  BY DEF Bit, Slot
<1>5. \A i \in 1..(n - 1) : i + 1 \in 1..n /\ a[i] = k[i + 1] /\ Slot(t, a, i) = Slot(q, k, i + 1)
  <2>1. \A i \in 1..(n - 1) : i + 1 \in 1..n /\ a[i] = k[i + 1]
    BY <1>1
  <2> HIDE DEF a, t
  <2> QED
    BY <1>1, <2>1 DEF Slot
<1>7. /\ \A i \in 1..n : /\ q[i].number = k[i] % Numbers
                         /\ c + i <= Slot(q, k, i)
                         /\ Slot(q, k, i) + (n + 1 - i) <= w
      /\ \A i, h \in 1..n : i < h => Slot(q, k, i) + (h - i) <= Slot(q, k, h)
      /\ c + n + 1 <= w
  BY DEF Placed
<1> HIDE DEF a, t, n
<1>9. ASSUME NEW i \in 1..(n - 1)
      PROVE  /\ t[i].number = a[i] % Numbers
             /\ Slot(q, k, 1) + i <= Slot(t, a, i)
             /\ Slot(t, a, i) + ((n - 1) + 1 - i) <= w
  <2>1. i + 1 \in 1..n /\ 1 < i + 1 /\ i \in Int /\ n \in Int
    BY <1>1, <1>5
  <2>2. /\ Slot(q, k, 1) + ((i + 1) - 1) <= Slot(q, k, i + 1)
        /\ Slot(q, k, i + 1) + (n + 1 - (i + 1)) <= w
    BY <1>2, <1>7, <2>1
  <2>3. t[i].number = a[i] % Numbers
    BY <1>1, <1>5, <1>7
  <2>4. Slot(t, a, i) = Slot(q, k, i + 1) /\ Slot(q, k, i + 1) \in Int /\ Slot(q, k, 1) \in Int
    BY <1>2, <1>4, <1>5
  <2> QED
    BY <2>1, <2>2, <2>3, <2>4
<1>10. ASSUME NEW i \in 1..(n - 1), NEW h \in 1..(n - 1), i < h
       PROVE  Slot(t, a, i) + (h - i) <= Slot(t, a, h)
  <2>1. i + 1 \in 1..n /\ h + 1 \in 1..n /\ i + 1 < h + 1 /\ (h + 1) - (i + 1) = h - i
    BY <1>1, <1>5, <1>10
  <2> QED
    BY <1>5, <1>7, <2>1
<1>11. Slot(q, k, 1) + (n - 1) + 1 <= w /\ c + 1 <= Slot(q, k, 1)
  BY <1>1, <1>2, <1>4, <1>7
<1>12. Placed(t, Slot(q, k, 1), w, a)
  BY <1>1, <1>4, <1>9, <1>10, <1>11 DEF Placed
<1> QED
  BY <1>1, <1>2, <1>7, <1>11, <1>12 DEF t

\* A message is published that does not reach the queue.
LEMMA PlacedMissed ==
  ASSUME NEW q \in Seq(Message), NEW k \in [1..Len(q) -> Nat], NEW c \in Int, NEW w \in Int,
         Placed(q, c, w, k)
  PROVE  Placed(q, c, w + 1, k)
<1>1. \A i \in 1..Len(q) : Slot(q, k, i) \in Int
  BY DEF Bit, Slot
<1>2. Len(q) \in Nat
  OBVIOUS
<1> QED
  BY <1>1, <1>2 DEF Placed

\* What is in the account: integers.
LEMMA AccountTypes ==
  ASSUME TypeOK, NEW v \in Viewer, NEW p \in Nat, NEW l \in Nat, NEW j \in Int, NEW b \in {0, 1}
  PROVE  /\ v \in Subscriber /\ queue[v] \in Seq(Message) /\ Len(queue[v]) \in Nat
         /\ Written(p) \in Int /\ 2 * j + b \in Int /\ Debt(v, l, j) \in Int
         /\ skipped[v] \in Nat /\ faults \in Nat /\ skipped[v] \in Int /\ faults \in Int
<1>1. v \in Subscriber
  BY DEF Subscriber
<1>2. queue[v] \in Seq(Message) /\ skipped[v] \in Nat /\ faults \in Nat
  BY <1>1 DEF TypeOK
<1> QED
  BY <1>1, <1>2 DEF Written, Debt

\* A message that goes missing is paid for by a disturbance.
LEMMA Pays ==
  \A s, c, w, n, f, x, y, g \in Int :
    /\ s + 2 * (w - c - n - 1) <= 2 * f /\ x = w + 1
    /\ (y = n + 1 /\ f <= g) \/ (y = n /\ g = f + 1)
    => s + 2 * (x - c - y - 1) <= 2 * g
  OBVIOUS

\* The reader goes on to the next message, and the queue of the viewer gets the
\* last one, or does not get it at the price of a disturbance.
LEMMA WrittenOn ==
  ASSUME TypeOK, NEW v \in Viewer, Solvent(v), UNCHANGED <<spc, shown, skipped>>,
         NEW m \in Message, m.number = packet, Bit(m) = IF ppc = "body" THEN 1 ELSE 0,
         \/ ppc = "read" /\ ppc' = "body" /\ UNCHANGED packet
         \/ ppc = "body" /\ ppc' = "read" /\ NextPacket,
         Joined(v) => \/ queue'[v] = Append(queue[v], m)
                      \/ queue'[v] = queue[v] /\ faults' = faults + 1,
         faults' \in Nat, faults' >= faults
  PROVE  Solvent(v)'
<1>0. CASE ~Joined(v)
  <2>1. ~Joined(v)' /\ shown[v] = None /\ skipped[v] <= 2 * faults
    BY <1>0 DEF Solvent, Joined
  <2>2. skipped[v] \in Nat /\ faults \in Nat
    BY DEF TypeOK
  <2> QED
    BY <2>1, <2>2 DEF Solvent
<1>1. CASE Joined(v)
  <2>1. PICK p \in Nat, l \in Nat, j \in Int, b \in {0, 1} :
          \E k \in [1..Len(queue[v]) -> Nat] : Account(v, p, l, j, b, k)
    BY <1>1 DEF Solvent
  <2>2. PICK k \in [1..Len(queue[v]) -> Nat] : Account(v, p, l, j, b, k)
    BY <2>1
  <2>t. /\ queue[v] \in Seq(Message) /\ Len(queue[v]) \in Nat
        /\ Written(p) \in Int /\ 2 * j + b \in Int /\ Debt(v, l, j) \in Int
        /\ skipped[v] \in Nat /\ faults \in Nat
    BY AccountTypes
  <2>a. /\ p % Numbers = packet
        /\ Placed(queue[v], 2 * j + b, Written(p), k)
        /\ shown[v] # None => shown[v][2] = l % Numbers /\ l <= j
        /\ spc[v] = "body" => b = 0 /\ (shown[v] # None => l < j)
        /\ skipped[v] + Debt(v, l, j) + 2 * (Written(p) - (2 * j + b) - Len(queue[v]) - 1)
             <= 2 * faults
    BY <2>2 DEF Account
  <2>3. PICK r \in Nat : r % Numbers = packet' /\ Written(r)' = Written(p) + 1
    <3>1. CASE ppc = "read" /\ ppc' = "body" /\ UNCHANGED packet
      BY <2>a, <3>1 DEF Written
    <3>2. CASE ppc = "body" /\ ppc' = "read" /\ NextPacket
      <4>1. (p + 1) % Numbers = packet'
        BY <2>a, <3>2, NextNumber DEF NextPacket
      <4>2. Written(p + 1)' = Written(p) + 1 /\ p + 1 \in Nat
        BY <3>2 DEF Written
      <4> QED
        BY <4>1, <4>2
    <3> QED
      BY <3>1, <3>2
  <2>4. Written(p) = 2 * p + Bit(m)
    BY DEF Written
  <2>5. Debt(v, l, j)' = Debt(v, l, j) /\ shown'[v] = shown[v] /\ spc'[v] = spc[v]
        /\ skipped'[v] = skipped[v]
    BY DEF Debt
  <2> HIDE DEF Debt, Written
  <2>6. CASE queue'[v] = Append(queue[v], m)
    <3>1. PICK a \in [1..Len(Append(queue[v], m)) -> Nat] :
            Placed(Append(queue[v], m), 2 * j + b, 2 * p + Bit(m) + 1, a)
      BY <2>t, <2>a, <2>4, PlacedAppend
    <3>2. Len(queue'[v]) = Len(queue[v]) + 1
      BY <2>t, <2>6, AppendProperties
    <3>3. Placed(queue'[v], 2 * j + b, Written(r)', a)
      BY <2>3, <2>4, <2>6, <3>1
    <3>4. skipped[v] + Debt(v, l, j) + 2 * (Written(r)' - (2 * j + b) - Len(queue'[v]) - 1)
             <= 2 * faults'
      <4> DEFINE s == skipped[v] + Debt(v, l, j)
                 c == 2 * j + b
      <4>1. s \in Int /\ c \in Int /\ s + 2 * (Written(p) - c - Len(queue[v]) - 1) <= 2 * faults
        BY <2>t, <2>a
      <4> HIDE DEF s, c
      <4>2. s + 2 * (Written(r)' - c - Len(queue'[v]) - 1) <= 2 * faults'
        <5>1. /\ Written(r)' = Written(p) + 1 /\ Len(queue'[v]) = Len(queue[v]) + 1
              /\ Written(p) \in Int /\ Len(queue[v]) \in Int
          BY <2>3, <2>t, <3>2
        <5>2. faults \in Int /\ faults' \in Int /\ faults <= faults'
          BY <2>t
        <5>3. Written(r)' \in Int /\ Len(queue'[v]) \in Int
          BY <5>1
        <5> QED
          BY <4>1, <5>1, <5>2, <5>3, Pays, Zenon
      <4> QED
        BY <4>2 DEF s, c
    <3>5. Account(v, r, l, j, b, a)'
      BY <2>3, <2>5, <2>a, <3>3, <3>4 DEF Account
    <3>6. a \in [1..Len(queue'[v]) -> Nat] /\ Joined(v)'
      BY <1>1, <2>6, <3>1 DEF Joined
    <3> QED
      BY <3>5, <3>6 DEF Solvent
  <2>7. CASE queue'[v] = queue[v] /\ faults' = faults + 1
    <3>1. Placed(queue'[v], 2 * j + b, Written(r)', k)
      BY <2>3, <2>7, <2>a, <2>t, PlacedMissed
    <3>2. skipped[v] + Debt(v, l, j) + 2 * (Written(r)' - (2 * j + b) - Len(queue'[v]) - 1)
             <= 2 * faults'
      <4> DEFINE s == skipped[v] + Debt(v, l, j)
                 c == 2 * j + b
      <4>1. s \in Int /\ c \in Int /\ s + 2 * (Written(p) - c - Len(queue[v]) - 1) <= 2 * faults
        BY <2>t, <2>a
      <4> HIDE DEF s, c
      <4>2. s + 2 * (Written(r)' - c - Len(queue'[v]) - 1) <= 2 * faults'
        <5>1. /\ Written(r)' = Written(p) + 1 /\ Len(queue'[v]) = Len(queue[v])
              /\ Written(p) \in Int /\ Len(queue[v]) \in Int
          BY <2>3, <2>t, <2>7
        <5>2. faults \in Int /\ faults' = faults + 1
          BY <2>t, <2>7
        <5>3. Written(r)' \in Int /\ Len(queue'[v]) \in Int
          BY <5>1
        <5>4. faults' \in Int
          BY <5>2
        <5> QED
          BY <4>1, <5>1, <5>2, <5>3, <5>4, Pays, Zenon
      <4> QED
        BY <4>2 DEF s, c
    <3>3. Account(v, r, l, j, b, k)'
      BY <2>3, <2>5, <2>a, <3>1, <3>2 DEF Account
    <3>4. k \in [1..Len(queue'[v]) -> Nat] /\ Joined(v)'
      BY <1>1, <2>7 DEF Joined
    <3> QED
      BY <3>3, <3>4 DEF Solvent
  <2> QED
    BY <1>1, <2>6, <2>7
<1> QED
  BY <1>0, <1>1

\* The reader.
LEMMA ReaderSolvent ==
  ASSUME IInv, TypeOK', NEW v \in Viewer, Solvent(v), ReadPacket \/ Finish
  PROVE  Solvent(v)'
<1>t. /\ TypeOK /\ v \in Subscriber /\ packet \in Packet /\ faults \in Nat /\ faults' \in Nat
      /\ ppc \in {"read", "body"}
  BY DEF IInv, TypeOK, Subscriber
<1>m. /\ Id(packet) \in Message /\ Body(packet) \in Message
      /\ Id(packet).number = packet /\ Body(packet).number = packet
      /\ Bit(Id(packet)) = 0 /\ Bit(Body(packet)) = 1
  BY <1>t, MessageTypes DEF Id, Body, Bit
<1>1. ASSUME NEW m \in Message, Publish(m)
      PROVE  /\ UNCHANGED <<spc, shown, skipped>> /\ faults' >= faults
             /\ Joined(v) => \/ queue'[v] = Append(queue[v], m)
                             \/ queue'[v] = queue[v] /\ faults' = faults + 1
  <2>1. UNCHANGED <<spc, shown, skipped>> /\ faults' >= faults
    BY <1>t, <1>1 DEF Publish, Fault
  <2>2. CASE Full(v)
    <3>1. queue'[v] = queue[v] /\ faults' = faults + 1
      BY <1>t, <1>1, <2>2 DEF Publish, Fault
    <3> QED
      BY <2>1, <3>1
  <2>3. CASE ~Full(v)
    <3>1. Joined(v) => queue'[v] = Append(queue[v], m)
      BY <1>t, <1>1, <2>3 DEF Publish
    <3> QED
      BY <2>1, <3>1
  <2> QED
    BY <2>2, <2>3
<1>2. CASE ReadPacket
  <2>1. /\ Publish(Id(packet)) /\ ppc = "read" /\ ppc' = "body" /\ UNCHANGED packet
    BY <1>2 DEF ReadPacket
  <2> QED
    BY <1>t, <1>m, <1>1, <2>1, WrittenOn
<1>3. CASE PublishBody
  <2>1. /\ Publish(Body(packet)) /\ ppc = "body" /\ ppc' = "read" /\ NextPacket
    BY <1>3 DEF PublishBody
  <2> QED
    BY <1>t, <1>m, <1>1, <2>1, WrittenOn
<1>4. CASE NoBody
  <2>1. /\ ppc = "body" /\ ppc' = "read" /\ NextPacket /\ faults' = faults + 1
        /\ queue'[v] = queue[v] /\ UNCHANGED <<spc, shown, skipped>>
    BY <1>4 DEF NoBody, Fault
  <2>2. faults' >= faults
    BY <1>t, <2>1
  <2> QED
    BY <1>t, <1>m, <2>1, <2>2, WrittenOn
<1> QED
  BY <1>2, <1>3, <1>4 DEF Finish

\* Where a viewer is that has not left.
LEMMA AccountOf ==
  ASSUME TypeOK, NEW v \in Viewer, Solvent(v), Joined(v)
  PROVE  \E p \in Nat, l \in Nat, j \in Int, b \in {0, 1} :
           \E k \in [1..Len(queue[v]) -> Nat] : Account(v, p, l, j, b, k)
  BY DEF Solvent

\* What a viewer has missed is no more than what it has missed and owes.
LEMMA Paid ==
  \A s, d, w, c, n, f \in Int :
    s + d + 2 * (w - c - n - 1) <= 2 * f /\ c + n + 1 <= w /\ d >= 0 => s <= 2 * f
  OBVIOUS

\* No viewer has missed more than the disturbances pay for.
LEMMA SolventSays ==
  ASSUME TypeOK, NEW v \in Viewer, Solvent(v)
  PROVE  skipped[v] <= 2 * faults
<1>1. CASE ~Joined(v)
  BY <1>1 DEF Solvent
<1>2. CASE Joined(v)
  <2>1. PICK p \in Nat, l \in Nat, j \in Int, b \in {0, 1} :
          \E k \in [1..Len(queue[v]) -> Nat] : Account(v, p, l, j, b, k)
    BY <1>2, AccountOf
  <2>2. PICK k \in [1..Len(queue[v]) -> Nat] : Account(v, p, l, j, b, k)
    BY <2>1
  <2>t. /\ Len(queue[v]) \in Nat /\ Written(p) \in Int /\ 2 * j + b \in Int
        /\ Debt(v, l, j) \in Int /\ skipped[v] \in Nat /\ faults \in Nat
    BY AccountTypes
  <2>3. Debt(v, l, j) >= 0
    BY <2>2 DEF Debt, Account
  <2> DEFINE c == 2 * j + b
             d == Debt(v, l, j)
             s == skipped[v]
             w == Written(p)
             n == Len(queue[v])
  <2>4. s + d + 2 * (w - c - n - 1) <= 2 * faults /\ c + n + 1 <= w /\ d >= 0
    BY <2>2, <2>3 DEF Account, Placed
  <2>5. c \in Int /\ d \in Int /\ w \in Int /\ n \in Int
    BY <2>t
  <2>6. s \in Int /\ faults \in Int
    BY <2>t
  <2> HIDE DEF c, d, s, w, n
  <2>7. s <= 2 * faults
    BY <2>4, <2>5, <2>6, Paid, Zenon
  <2> QED
    BY <2>7 DEF s
<1> QED
  BY <1>1, <1>2

\* A debt that is paid for stays paid for.
LEMMA Allowance ==
  \A d, c, w, n, e, f \in Int :
    d + 2 * (w - c - n - 1) <= 2 * e /\ e <= f => d + 2 * (w - c - n - 1) <= 2 * f
  OBVIOUS

\* A step that takes nothing from the queue of the viewer.
LEMMA SolventFrame ==
  ASSUME TypeOK, NEW v \in Viewer, Solvent(v), UNCHANGED reader,
         queue'[v] = queue[v], shown'[v] = shown[v], skipped'[v] = skipped[v],
         spc'[v] = spc[v] \/ {spc[v], spc'[v]} \subseteq {"top", "id"},
         faults' \in Nat, faults' >= faults
  PROVE  Solvent(v)'
<1>t. skipped[v] \in Nat /\ faults \in Nat
  BY DEF TypeOK
<1>1. CASE ~Joined(v)
  <2>1. ~Joined(v)' /\ shown[v] = None /\ skipped[v] <= 2 * faults
    BY <1>1 DEF Solvent, Joined
  <2> QED
    BY <1>t, <2>1 DEF Solvent
<1>2. CASE Joined(v)
  <2>1. PICK p \in Nat, l \in Nat, j \in Int, b \in {0, 1} :
          \E k \in [1..Len(queue[v]) -> Nat] : Account(v, p, l, j, b, k)
    BY <1>2, AccountOf
  <2>2. PICK k \in [1..Len(queue[v]) -> Nat] : Account(v, p, l, j, b, k)
    BY <2>1
  <2>3. /\ Debt(v, l, j)' = Debt(v, l, j) /\ Written(p)' = Written(p) /\ packet' = packet
        /\ (spc'[v] = "body" => spc[v] = "body") /\ shown'[v] = shown[v]
        /\ queue'[v] = queue[v] /\ skipped'[v] = skipped[v]
    BY DEF Debt, Written, reader
  <2>4. skipped[v] + Debt(v, l, j) + 2 * (Written(p) - (2 * j + b) - Len(queue[v]) - 1)
          <= 2 * faults'
    <3>1. skipped[v] + Debt(v, l, j) + 2 * (Written(p) - (2 * j + b) - Len(queue[v]) - 1)
            <= 2 * faults
      BY <2>2 DEF Account
    <3>2. /\ Len(queue[v]) \in Int /\ Written(p) \in Int /\ 2 * j + b \in Int
          /\ Debt(v, l, j) \in Int /\ skipped[v] \in Int
      <4>1. /\ Len(queue[v]) \in Nat /\ Written(p) \in Int /\ 2 * j + b \in Int
            /\ Debt(v, l, j) \in Int /\ skipped[v] \in Nat
        BY AccountTypes
      <4> QED
        BY <4>1
    <3>3. faults \in Int /\ faults' \in Int /\ faults <= faults'
      BY <1>t
    <3> DEFINE d == skipped[v] + Debt(v, l, j)
               c == 2 * j + b
               w == Written(p)
               n == Len(queue[v])
    <3>4. /\ d + 2 * (w - c - n - 1) <= 2 * faults
          /\ d \in Int /\ c \in Int /\ w \in Int /\ n \in Int
      BY <3>1, <3>2
    <3> HIDE DEF d, c, w, n
    <3>5. d + 2 * (w - c - n - 1) <= 2 * faults'
      BY <3>3, <3>4, Allowance, Zenon
    <3> QED
      BY <3>5 DEF d, c, w, n
  <2> HIDE DEF Debt, Written
  <2>5. Account(v, p, l, j, b, k)'
    BY <2>2, <2>3, <2>4 DEF Account
  <2>6. Joined(v)' /\ k \in [1..Len(queue'[v]) -> Nat]
    BY <1>2, <2>3 DEF Joined
  <2> QED
    BY <2>5, <2>6 DEF Solvent
<1> QED
  BY <1>1, <1>2

\* What lies between the last message taken and the next one is paid for as well.
LEMMA Advance ==
  \A t, x, c, q, w, n, f \in Int :
    t + 2 * (w - c - n - 1) <= 2 * f /\ x <= t + 2 * (q - c - 1) =>
      x + 2 * (w - q - (n - 1) - 1) <= 2 * f
  OBVIOUS

\* What a viewer has missed and owes once it stands at the message in position
\* 2g + e, counted from h, the last packet shown.
Settled(v, l, j, b, g, e, h) ==
  /\ shown'[v] # None => shown'[v][2] = h % Numbers /\ h <= g
  /\ spc'[v] = "body" => e = 0 /\ (shown'[v] # None => h < g)
  /\ skipped'[v] \in Int
  /\ skipped'[v] + Debt(v, h, g)'
       <= skipped[v] + Debt(v, l, j) + 2 * ((2 * g + e) - (2 * j + b) - 1)

\* What a viewer finds first in its queue: the ID or body of packet g, number e.
Finds(v, l, j, b, g, e) ==
  /\ e = Bit(Head(queue[v])) /\ Head(queue[v]).number = g % Numbers
  /\ 2 * j + b + 1 <= 2 * g + e
  /\ shown[v] # None => shown[v][2] = l % Numbers /\ l <= j
  /\ spc[v] = "body" => b = 0 /\ (shown[v] # None => l < j)

\* What a viewer finds first in its queue, and what settles its account when it
\* takes it.
LEMMA Taking ==
  ASSUME TypeOK, NEW v \in Viewer, Solvent(v), Joined(v), Joined(v)', UNCHANGED <<reader, faults>>,
         queue[v] # <<>>, Take(v)
  PROVE  \E l \in Nat, j \in Int, b \in {0, 1}, g \in Nat, e \in {0, 1} :
           /\ Finds(v, l, j, b, g, e)
           /\ \A h \in Nat : Settled(v, l, j, b, g, e, h) => Solvent(v)'
<1>1. PICK p \in Nat, l \in Nat, j \in Int, b \in {0, 1} :
        \E k \in [1..Len(queue[v]) -> Nat] : Account(v, p, l, j, b, k)
  BY AccountOf
<1>2. PICK k \in [1..Len(queue[v]) -> Nat] : Account(v, p, l, j, b, k)
  BY <1>1
<1>t. v \in Subscriber /\ queue[v] \in Seq(Message) /\ Written(p) \in Int /\ 2 * j + b \in Int
  BY AccountTypes
<1>3. /\ 2 * j + b + 1 <= Slot(queue[v], k, 1) /\ k[1] \in Nat
      /\ queue[v][1].number = k[1] % Numbers
  <2>1. Placed(queue[v], 2 * j + b, Written(p), k)
    BY <1>2 DEF Account
  <2> QED
    BY <1>t, <2>1, PlacedTail
<1>4. Head(queue[v]) = queue[v][1]
  BY <1>t
<1>5. PICK g \in Nat, e \in {0, 1} : g = k[1] /\ e = Bit(queue[v][1])
  BY <1>3 DEF Bit
<1>6. 2 * j + b + 1 <= 2 * g + e
  BY <1>3, <1>5 DEF Slot
<1>7. /\ shown[v] # None => shown[v][2] = l % Numbers /\ l <= j
      /\ spc[v] = "body" => b = 0 /\ (shown[v] # None => l < j)
  BY <1>2 DEF Account
<1>8. ASSUME NEW h \in Nat, Settled(v, l, j, b, g, e, h) PROVE Solvent(v)'
  <2>t. /\ v \in Subscriber /\ queue[v] \in Seq(Message) /\ Len(queue[v]) \in Nat
        /\ Written(p) \in Int /\ 2 * j + b \in Int
        /\ Debt(v, l, j) \in Int /\ skipped[v] \in Int /\ faults \in Int
    BY AccountTypes
  <2>s. /\ shown'[v] # None => shown'[v][2] = h % Numbers /\ h <= g
        /\ spc'[v] = "body" => e = 0 /\ (shown'[v] # None => h < g)
        /\ skipped'[v] \in Int
        /\ skipped'[v] + Debt(v, h, g)'
             <= skipped[v] + Debt(v, l, j) + 2 * ((2 * g + e) - (2 * j + b) - 1)
    BY <1>8, Zenon DEF Settled
  <2>1. queue'[v] = Tail(queue[v]) /\ Len(queue'[v]) = Len(queue[v]) - 1
    BY <2>t, TakeTypes
  <2>2. /\ p % Numbers = packet
        /\ Placed(queue[v], 2 * j + b, Written(p), k)
        /\ skipped[v] + Debt(v, l, j) + 2 * (Written(p) - (2 * j + b) - Len(queue[v]) - 1)
             <= 2 * faults
    BY <1>2 DEF Account
  <2>3. /\ \E a \in [1..Len(Tail(queue[v])) -> Nat] :
             Placed(Tail(queue[v]), Slot(queue[v], k, 1), Written(p), a)
        /\ k[1] \in Nat
    BY <2>t, <2>2, PlacedTail
  <2>4. PICK a \in [1..Len(queue'[v]) -> Nat] :
          Placed(queue'[v], 2 * k[1] + Bit(queue[v][1]), Written(p), a)
    BY <2>1, <2>3 DEF Slot
  <2>5. Written(p)' = Written(p) /\ packet' = packet /\ faults' = faults
    BY DEF Written, reader
  <2>6. Debt(v, h, g)' \in Int
    BY <2>s DEF Debt
  <2> HIDE DEF Debt, Written
  <2>7. skipped'[v] + Debt(v, h, g)' + 2 * (Written(p) - (2 * g + e) - (Len(queue[v]) - 1) - 1)
          <= 2 * faults
    <3>1. skipped'[v] + Debt(v, h, g)'
             <= skipped[v] + Debt(v, l, j) + 2 * ((2 * g + e) - (2 * j + b) - 1)
      BY <2>s
    <3>2. 2 * g + e \in Int /\ Len(queue[v]) \in Int /\ Debt(v, h, g)' \in Int
      BY <2>t, <2>6
    <3> QED
      <4> DEFINE t == skipped[v] + Debt(v, l, j)
                 x == skipped'[v] + Debt(v, h, g)'
                 c == 2 * j + b
                 q == 2 * g + e
                 w == Written(p)
                 n == Len(queue[v])
      <4>1. t \in Int /\ c \in Int /\ q \in Int /\ w \in Int /\ n \in Int /\ faults \in Int
        BY <2>t, <3>2
      <4>2. x \in Int
        BY <2>s, <3>2
      <4>3. t + 2 * (w - c - n - 1) <= 2 * faults /\ x <= t + 2 * (q - c - 1)
        BY <2>2, <3>1
      <4> HIDE DEF t, x, c, q, w, n
      <4>4. x + 2 * (w - q - (n - 1) - 1) <= 2 * faults
        BY <4>1, <4>2, <4>3, Advance, Zenon
      <4> QED
        BY <4>4 DEF t, x, c, q, w, n
  <2>8. Account(v, p, h, g, e, a)'
    <3>1. Placed(queue'[v], 2 * g + e, Written(p), a)
      BY <1>5, <2>4, Zenon
    <3>2. shown'[v] # None => shown'[v][2] = h % Numbers /\ h <= g
      BY <2>s
    <3>3. spc'[v] = "body" => e = 0 /\ (shown'[v] # None => h < g)
      BY <2>s
    <3> QED
      BY <2>1, <2>2, <2>5, <2>7, <3>1, <3>2, <3>3 DEF Account
  <2>9. g \in Int /\ e \in {0, 1} /\ a \in [1..Len(queue'[v]) -> Nat]
    OBVIOUS
  <2> QED
    BY <2>8, <2>9 DEF Solvent
<1>9. e = Bit(Head(queue[v])) /\ Head(queue[v]).number = g % Numbers
  BY <1>3, <1>4, <1>5
<1> QED
  <2>1. Finds(v, l, j, b, g, e)
    BY <1>6, <1>7, <1>9, Zenon DEF Finds
  <2> QED
    BY <1>8, <2>1

\* What a viewer has missed and what it owes, added up.
LEMMA Add ==
  \A s, x, y, r \in Int : x <= y + r => s + x <= s + y + r
  OBVIOUS

\* A body that comes first is skipped.
LEMMA SkipSolvent ==
  ASSUME TypeOK, NEW v \in Viewer, Solvent(v), SkipBody(v)
  PROVE  Solvent(v)'
<1>t. v \in Subscriber /\ spc[v] = "id" /\ spc'[v] = "top" /\ Joined(v) /\ Joined(v)'
      /\ queue[v] # <<>> /\ Head(queue[v]).kind = "body" /\ Take(v)
      /\ shown'[v] = shown[v] /\ skipped'[v] = skipped[v] /\ UNCHANGED <<reader, faults>>
      /\ skipped[v] \in Int
  BY DEF SkipBody, Arrived, TypeOK, Joined, Subscriber, feed
<1>1. PICK l \in Nat, j \in Int, b \in {0, 1}, g \in Nat, e \in {0, 1} :
        /\ Finds(v, l, j, b, g, e)
        /\ \A h \in Nat : Settled(v, l, j, b, g, e, h) => Solvent(v)'
  BY <1>t, Taking, Zenon
<1>f. /\ e = Bit(Head(queue[v])) /\ Head(queue[v]).number = g % Numbers
      /\ 2 * j + b + 1 <= 2 * g + e
      /\ shown[v] # None => shown[v][2] = l % Numbers /\ l <= j
      /\ spc[v] = "body" => b = 0 /\ (shown[v] # None => l < j)
  BY <1>1, Zenon DEF Finds
<1>2. e = 1
  BY <1>t, <1>f DEF Bit
<1>3. j <= g /\ g - j <= 2 * ((2 * g + e) - (2 * j + b) - 1)
      /\ 0 <= 2 * ((2 * g + e) - (2 * j + b) - 1)
      /\ 2 * ((2 * g + e) - (2 * j + b) - 1) \in Int
  BY <1>f, <1>2
<1>4. Debt(v, l, g)' = (IF shown[v] = None THEN 0 ELSE g - l)
      /\ Debt(v, l, j) = (IF shown[v] = None THEN 0 ELSE j - l)
  BY <1>t DEF Debt
<1>5. /\ Debt(v, l, g)' \in Int /\ Debt(v, l, j) \in Int
      /\ Debt(v, l, g)' <= Debt(v, l, j) + 2 * ((2 * g + e) - (2 * j + b) - 1)
  BY <1>3, <1>4
<1>6. skipped[v] + Debt(v, l, g)'
        <= skipped[v] + Debt(v, l, j) + 2 * ((2 * g + e) - (2 * j + b) - 1)
  BY <1>t, <1>3, <1>5, Add, Zenon
<1>7. shown'[v] # None => shown'[v][2] = l % Numbers /\ l <= g
  BY <1>t, <1>f, <1>3
<1>8. Settled(v, l, j, b, g, e, l)
  BY <1>t, <1>6, <1>7, Zenon DEF Settled
<1> QED
  BY <1>1, <1>8, Zenon

\* An ID that comes first is taken.
LEMMA TakeIdSolvent ==
  ASSUME TypeOK, NEW v \in Viewer, Solvent(v), TakeId(v)
  PROVE  Solvent(v)'
<1>t. v \in Subscriber /\ spc[v] = "id" /\ spc'[v] = "body" /\ Joined(v) /\ Joined(v)'
      /\ queue[v] # <<>> /\ Head(queue[v]).kind = "id" /\ Take(v)
      /\ shown'[v] = shown[v] /\ skipped'[v] = skipped[v] /\ UNCHANGED <<reader, faults>>
      /\ skipped[v] \in Int
  BY DEF TakeId, Arrived, TypeOK, Joined, Subscriber, feed
<1>1. PICK l \in Nat, j \in Int, b \in {0, 1}, g \in Nat, e \in {0, 1} :
        /\ Finds(v, l, j, b, g, e)
        /\ \A h \in Nat : Settled(v, l, j, b, g, e, h) => Solvent(v)'
  BY <1>t, Taking, Zenon
<1>f. /\ e = Bit(Head(queue[v])) /\ Head(queue[v]).number = g % Numbers
      /\ 2 * j + b + 1 <= 2 * g + e
      /\ shown[v] # None => shown[v][2] = l % Numbers /\ l <= j
      /\ spc[v] = "body" => b = 0 /\ (shown[v] # None => l < j)
  BY <1>1, Zenon DEF Finds
<1>2. e = 0
  BY <1>t, <1>f DEF Bit
<1>3. j < g /\ g - 1 - j <= 2 * ((2 * g + e) - (2 * j + b) - 1)
      /\ 0 <= 2 * ((2 * g + e) - (2 * j + b) - 1)
      /\ 2 * ((2 * g + e) - (2 * j + b) - 1) \in Int
  BY <1>f, <1>2
<1>4. Debt(v, l, g)' = (IF shown[v] = None THEN 0 ELSE g - 1 - l)
      /\ Debt(v, l, j) = (IF shown[v] = None THEN 0 ELSE j - l)
  BY <1>t DEF Debt
<1>5. /\ Debt(v, l, g)' \in Int /\ Debt(v, l, j) \in Int
      /\ Debt(v, l, g)' <= Debt(v, l, j) + 2 * ((2 * g + e) - (2 * j + b) - 1)
  BY <1>3, <1>4
<1>6. skipped[v] + Debt(v, l, g)'
        <= skipped[v] + Debt(v, l, j) + 2 * ((2 * g + e) - (2 * j + b) - 1)
  BY <1>t, <1>3, <1>5, Add, Zenon
<1>7. shown'[v] # None => shown'[v][2] = l % Numbers /\ l < g /\ l <= g
  BY <1>t, <1>f, <1>3
<1>8. Settled(v, l, j, b, g, e, l)
  BY <1>t, <1>2, <1>6, <1>7, Zenon DEF Settled
<1> QED
  BY <1>1, <1>8, Zenon

\* An ID in place of the body: both are dropped.
LEMMA MismatchSolvent ==
  ASSUME TypeOK, NEW v \in Viewer, Solvent(v), Mismatch(v)
  PROVE  Solvent(v)'
<1>t. v \in Subscriber /\ spc[v] = "body" /\ spc'[v] = "top" /\ Joined(v) /\ Joined(v)'
      /\ queue[v] # <<>> /\ Head(queue[v]).kind = "id" /\ Take(v)
      /\ shown'[v] = shown[v] /\ skipped'[v] = skipped[v] /\ UNCHANGED <<reader, faults>>
      /\ skipped[v] \in Int
  BY DEF Mismatch, Done, Arrived, TypeOK, Joined, Subscriber, feed
<1>1. PICK l \in Nat, j \in Int, b \in {0, 1}, g \in Nat, e \in {0, 1} :
        /\ Finds(v, l, j, b, g, e)
        /\ \A h \in Nat : Settled(v, l, j, b, g, e, h) => Solvent(v)'
  BY <1>t, Taking, Zenon
<1>f. /\ e = Bit(Head(queue[v])) /\ Head(queue[v]).number = g % Numbers
      /\ 2 * j + b + 1 <= 2 * g + e
      /\ shown[v] # None => shown[v][2] = l % Numbers /\ l <= j
      /\ spc[v] = "body" => b = 0 /\ (shown[v] # None => l < j)
  BY <1>1, Zenon DEF Finds
<1>2. e = 0 /\ b = 0
  BY <1>t, <1>f DEF Bit
<1>3. j < g /\ g - j + 1 <= 2 * ((2 * g + e) - (2 * j + b) - 1)
      /\ 0 <= 2 * ((2 * g + e) - (2 * j + b) - 1)
      /\ 2 * ((2 * g + e) - (2 * j + b) - 1) \in Int
  BY <1>f, <1>2
<1>4. Debt(v, l, g)' = (IF shown[v] = None THEN 0 ELSE g - l)
      /\ Debt(v, l, j) = (IF shown[v] = None THEN 0 ELSE j - 1 - l)
  BY <1>t DEF Debt
<1>5. /\ Debt(v, l, g)' \in Int /\ Debt(v, l, j) \in Int
      /\ Debt(v, l, g)' <= Debt(v, l, j) + 2 * ((2 * g + e) - (2 * j + b) - 1)
  BY <1>3, <1>4
<1>6. skipped[v] + Debt(v, l, g)'
        <= skipped[v] + Debt(v, l, j) + 2 * ((2 * g + e) - (2 * j + b) - 1)
  BY <1>t, <1>3, <1>5, Add, Zenon
<1>7. shown'[v] # None => shown'[v][2] = l % Numbers /\ l <= g
  BY <1>t, <1>f, <1>3
<1>8. Settled(v, l, j, b, g, e, l)
  BY <1>t, <1>6, <1>7, Zenon DEF Settled
<1> QED
  BY <1>1, <1>8, Zenon

\* A body is shown: what was passed over is missed from now on.
LEMMA ShowSolvent ==
  ASSUME IInv, NEW v \in Viewer, Solvent(v), Show(v)
  PROVE  Solvent(v)'
<1>t. TypeOK /\ v \in Subscriber /\ spc[v] = "body" /\ spc'[v] = "top" /\ Joined(v) /\ Joined(v)'
      /\ queue[v] # <<>> /\ Head(queue[v]).kind = "body" /\ Take(v)
      /\ UNCHANGED <<reader, faults>> /\ skipped[v] \in Int
  BY DEF IInv, Show, Done, Arrived, TypeOK, Joined, Subscriber, feed
<1>1. PICK l \in Nat, j \in Int, b \in {0, 1}, g \in Nat, e \in {0, 1} :
        /\ Finds(v, l, j, b, g, e)
        /\ \A h \in Nat : Settled(v, l, j, b, g, e, h) => Solvent(v)'
  BY <1>t, Taking, Zenon
<1>f. /\ e = Bit(Head(queue[v])) /\ Head(queue[v]).number = g % Numbers
      /\ 2 * j + b + 1 <= 2 * g + e
      /\ shown[v] # None => shown[v][2] = l % Numbers /\ l <= j
      /\ spc[v] = "body" => b = 0 /\ (shown[v] # None => l < j)
  BY <1>1, Zenon DEF Finds
<1>2. e = 1 /\ b = 0
  BY <1>t, <1>f DEF Bit
<1>3. j <= g /\ g - j <= 2 * ((2 * g + e) - (2 * j + b) - 1)
      /\ 0 <= 2 * ((2 * g + e) - (2 * j + b) - 1)
      /\ 2 * ((2 * g + e) - (2 * j + b) - 1) \in Int
  BY <1>f, <1>2
<1>4. shown'[v] = <<held[v].number, Head(queue[v]).number>>
  BY <1>t DEF Show, TypeOK
<1>5. shown'[v][2] = g % Numbers
  BY <1>f, <1>4
<1>6. Debt(v, g, g)' = 0
  BY <1>t DEF Debt
<1>7. skipped'[v] \in Int
      /\ skipped'[v] <= skipped[v] + Debt(v, l, j) + 2 * ((2 * g + e) - (2 * j + b) - 1)
  <2>1. CASE shown[v] = None
    <3>1. skipped'[v] = skipped[v] /\ Debt(v, l, j) = 0
      BY <2>1 DEF Show, Debt
    <3> QED
      BY <1>t, <1>3, <3>1
  <2>2. CASE shown[v] # None
    <3>1. l < j /\ l < g /\ shown[v][2] = l % Numbers
      BY <1>t, <1>f, <1>3, <2>2
    <3>2. Gap(v, Head(queue[v]).number) <= g - l - 1
      BY <1>f, <3>1, GapBound DEF Gap
    <3>3. Head(queue[v]).number \in Packet
      BY <1>t, TakeTypes, MessageTypes
    <3>4. Gap(v, Head(queue[v]).number) \in Packet
      BY <1>t, <2>2, <3>3, GapType
    <3> DEFINE n == Gap(v, Head(queue[v]).number)
    <3>5. skipped'[v] = IF skipped[v] + n < SkipCap THEN skipped[v] + n ELSE SkipCap
      BY <1>t, <2>2 DEF Show, TypeOK
    <3>6. n \in Int /\ n <= g - l - 1 /\ SkipCap \in Int
      BY <3>2, <3>4, ConstantsAssumption DEF Packet, SkipCap
    <3> HIDE DEF n
    <3>7. skipped'[v] \in Int /\ skipped'[v] <= skipped[v] + n
      BY <1>t, <3>5, <3>6
    <3>8. Debt(v, l, j) = j - 1 - l
      BY <1>t, <2>2 DEF Debt
    <3>9. n <= (j - 1 - l) + 2 * ((2 * g + e) - (2 * j + b) - 1)
      BY <1>3, <3>6
    <3>10. skipped[v] + n <= skipped[v] + (j - 1 - l) + 2 * ((2 * g + e) - (2 * j + b) - 1)
      BY <1>t, <3>6, <3>9
    <3> QED
      BY <1>t, <3>6, <3>7, <3>8, <3>10
  <2> QED
    BY <2>1, <2>2
<1>8. skipped'[v] + Debt(v, g, g)'
        <= skipped[v] + Debt(v, l, j) + 2 * ((2 * g + e) - (2 * j + b) - 1)
  BY <1>6, <1>7
<1>9. g <= g
  OBVIOUS
<1>10. Settled(v, l, j, b, g, e, g)
  BY <1>t, <1>5, <1>7, <1>8, <1>9, Zenon DEF Settled
<1> QED
  BY <1>1, <1>10, Zenon

\* An empty queue is in its place when nothing is under way.
LEMMA PlacedNone ==
  ASSUME NEW q, q = <<>>, NEW c \in Int, NEW w \in Int, c + 1 <= w, NEW k
  PROVE  Placed(q, c, w, k)
<1>1. Len(q) = 0
  OBVIOUS
<1> QED
  BY <1>1 DEF Placed

\* A viewer that joins owes nothing.
LEMMA JoinSolvent ==
  ASSUME IInv, NEW v \in Viewer, Solvent(v), Join(v)
  PROVE  Solvent(v)'
<1>t. /\ v \in Subscriber /\ packet \in Packet /\ packet \in Nat /\ ppc \in {"read", "body"}
      /\ skipped[v] \in Int /\ faults \in Int
  BY ConstantsAssumption DEF IInv, TypeOK, Subscriber, Packet
<1>1. /\ spc[v] = "out" /\ spc'[v] = "top" /\ shown'[v] = shown[v] /\ skipped'[v] = skipped[v]
      /\ queue'[v] = queue[v] /\ UNCHANGED <<reader, faults>>
  BY <1>t DEF IInv, TypeOK, Join, feed
<1>2. queue'[v] = <<>> /\ Len(queue'[v]) = 0 /\ shown'[v] = None /\ skipped[v] <= 2 * faults
  BY <1>t, <1>1 DEF IInv, SubscriberInv, Holds, Solvent, Joined
<1>3. packet % Numbers = packet
  BY <1>t, OwnRest
<1>4. PICK j \in Int, b \in {0, 1} : Written(packet) = 2 * j + b + 1
  <2>1. CASE ppc = "read"
    <3>1. Written(packet) = 2 * (packet - 1) + 1 + 1 /\ packet - 1 \in Int
      BY <1>t, <2>1 DEF Written
    <3> QED
      BY <3>1
  <2>2. CASE ppc = "body"
    <3>1. Written(packet) = 2 * packet + 0 + 1 /\ packet \in Int
      BY <1>t, <2>2 DEF Written
    <3> QED
      BY <3>1
  <2> QED
    BY <1>t, <2>1, <2>2
<1>5. PICK w \in Int : w = Written(packet)' /\ w = 2 * j + b + 1
  <2>1. Written(packet)' = 2 * j + b + 1
    BY <1>1, <1>4 DEF Written, reader
  <2> QED
    BY <2>1
<1>6. PICK k \in [1..Len(queue'[v]) -> Nat] : TRUE
  <2>1. [i \in 1..Len(queue'[v]) |-> 0] \in [1..Len(queue'[v]) -> Nat]
    OBVIOUS
  <2> QED
    BY <2>1
<1>7. Debt(v, 0, j)' = 0
  BY <1>2 DEF Debt
<1>8. Placed(queue'[v], 2 * j + b, Written(packet)', k)
  <2>1. 2 * j + b \in Int /\ (2 * j + b) + 1 <= w
    BY <1>5
  <2>2. Placed(queue'[v], 2 * j + b, w, k)
    BY <1>2, <2>1, PlacedNone
  <2> QED
    BY <1>5, <2>2, Zenon
<1>9. skipped'[v] + Debt(v, 0, j)' + 2 * (Written(packet)' - (2 * j + b) - Len(queue'[v]) - 1)
        <= 2 * faults'
  <2>1. skipped[v] + 0 + 2 * (w - (2 * j + b) - 0 - 1) <= 2 * faults
    BY <1>t, <1>2, <1>5
  <2>2. faults' = faults
    BY <1>1
  <2> HIDE DEF Debt, Written
  <2> QED
    BY <1>1, <1>2, <1>5, <1>7, <2>1, <2>2, Zenon
<1>10. /\ (packet % Numbers = packet)'
       /\ spc'[v] # "body"
  BY <1>1, <1>3 DEF reader
<1>11. packet' = packet
  BY <1>1 DEF reader
<1>12. Account(v, packet, 0, j, b, k)'
  BY <1>2, <1>3, <1>8, <1>9, <1>10, <1>11, Zenon DEF Account
<1>13. Joined(v)' /\ 0 \in Nat
  BY <1>1 DEF Joined
<1> QED
  BY <1>t, <1>6, <1>11, <1>12, <1>13 DEF Solvent

\* One that leaves takes nothing along.
LEMMA LeaveSolvent ==
  ASSUME TypeOK, NEW v \in Viewer, Solvent(v), Leave(v)
  PROVE  Solvent(v)'
<1>1. skipped[v] <= 2 * faults
  BY SolventSays
<1>2. v \in Subscriber /\ spc'[v] = "out" /\ shown'[v] = None /\ UNCHANGED <<skipped, faults>>
  BY DEF Leave, TypeOK, Subscriber
<1> QED
  BY <1>1, <1>2 DEF Solvent, Joined

\* One that gives up has lost the packet: its body was disturbed, or is now.
LEMMA ForgetSolvent ==
  ASSUME TypeOK, NEW v \in Viewer, Solvent(v), Forget(v)
  PROVE  Solvent(v)'
<1>t. /\ v \in Subscriber /\ spc[v] = "body" /\ spc'[v] = "top" /\ queue[v] = <<>>
      /\ Len(queue[v]) = 0 /\ queue'[v] = queue[v] /\ shown'[v] = shown[v]
      /\ skipped'[v] = skipped[v] /\ UNCHANGED reader /\ packet' = packet /\ ppc' = ppc
      /\ ppc \in {"read", "body"} /\ skipped[v] \in Int /\ faults \in Int
  BY DEF Forget, Done, TypeOK, Subscriber, feed, reader
<1>1. PICK p \in Nat, l \in Nat, j \in Int, b \in {0, 1} :
        \E k \in [1..Len(queue[v]) -> Nat] : Account(v, p, l, j, b, k)
  BY <1>t, AccountOf DEF Joined
<1>2. PICK k \in [1..Len(queue[v]) -> Nat] : Account(v, p, l, j, b, k)
  BY <1>1
<1>3. /\ p % Numbers = packet
      /\ 2 * j + b + 1 <= Written(p)
      /\ b = 0
      /\ shown[v] # None => shown[v][2] = l % Numbers /\ l < j
      /\ skipped[v] + Debt(v, l, j) + 2 * (Written(p) - (2 * j + b) - 1) <= 2 * faults
  <2>1. Written(p) - (2 * j + b) - 0 - 1 = Written(p) - (2 * j + b) - 1
    BY <1>t DEF Written
  <2>2. (2 * j + b) + 0 + 1 = 2 * j + b + 1
    OBVIOUS
  <2>3. /\ p % Numbers = packet
        /\ 2 * j + b + 0 + 1 <= Written(p)
        /\ b = 0
        /\ shown[v] # None => shown[v][2] = l % Numbers /\ l < j
        /\ skipped[v] + Debt(v, l, j) + 2 * (Written(p) - (2 * j + b) - 0 - 1) <= 2 * faults
    BY <1>t, <1>2 DEF Account, Placed
  <2> QED
    BY <2>1, <2>2, <2>3
<1>4. PICK w \in Int : w = Written(p) /\ w = (IF ppc = "body" THEN 2 * p + 1 ELSE 2 * p)
  BY <1>t DEF Written
<1>5. Written(p)' = w
  BY <1>t, <1>4 DEF Written
<1>6. Debt(v, l, j) = IF shown[v] = None THEN 0 ELSE j - 1 - l
  BY <1>t DEF Debt
<1>7. CASE ppc = "body"
  <2>1. faults' = faults + 1 /\ faults' \in Int
    BY <1>t, <1>7 DEF Forget, Fault
  <2>2. Debt(v, l, j)' = IF shown[v] = None THEN 0 ELSE j - l
    BY <1>t DEF Debt
  <2>3. Debt(v, l, j)' \in Int /\ Debt(v, l, j) \in Int /\ Debt(v, l, j)' <= Debt(v, l, j) + 2
    BY <1>6, <2>2
  <2>4. skipped[v] + Debt(v, l, j)' + 2 * (w - (2 * j + b) - 0 - 1) <= 2 * faults'
    <3>1. PICK d \in Int : d = Debt(v, l, j)' /\ d <= Debt(v, l, j) + 2
      BY <2>3
    <3>2. skipped[v] + d + 2 * (w - (2 * j + b) - 0 - 1) <= 2 * (faults + 1)
      BY <1>t, <1>3, <1>4, <2>3, <3>1
    <3> QED
      BY <2>1, <3>1, <3>2, Zenon
  <2>5. l <= j \/ shown[v] = None
    BY <1>3
  <2>6. Placed(queue'[v], 2 * j + b, w, k)
    BY <1>t, <1>3, <1>4, PlacedNone
  <2>7. Account(v, p, l, j, b, k)'
    BY <1>t, <1>3, <1>5, <2>4, <2>5, <2>6, Zenon DEF Account
  <2>8. Joined(v)' /\ k \in [1..Len(queue'[v]) -> Nat]
    BY <1>t DEF Joined
  <2> QED
    BY <2>7, <2>8 DEF Solvent
<1>8. CASE ppc = "read"
  <2>1. faults' = faults
    BY <1>t, <1>8 DEF Forget
  <2>2. PICK i \in Int : i = p - 1
    OBVIOUS
  <2>3. Debt(v, l, i)' = IF shown[v] = None THEN 0 ELSE i - l
    BY <1>t DEF Debt
  <2>4. w = 2 * i + 1 + 1 /\ 2 * j + 1 <= w /\ j <= i
    BY <1>3, <1>4, <1>8, <2>2
  <2>5. skipped[v] + Debt(v, l, i)' + 2 * (w - (2 * i + 1) - 0 - 1) <= 2 * faults'
    <3>1. PICK d \in Int : d = Debt(v, l, i)' /\ d = IF shown[v] = None THEN 0 ELSE i - l
      BY <2>3
    <3>2. PICK e \in Int : e = Debt(v, l, j) /\ (shown[v] = None => e = 0)
                          /\ (shown[v] # None => e = j - 1 - l)
      <4>1. Debt(v, l, j) \in Int
        BY <1>6
      <4> QED
        BY <1>6, <4>1, Zenon
    <3>3. skipped[v] + e + 2 * (w - 2 * j - 1) <= 2 * faults
      BY <1>3, <1>4, <3>2
    <3>4. d <= e + 2 * (w - 2 * j - 1)
      BY <2>4, <3>1, <3>2
    <3>5. skipped[v] + d + 2 * (w - (2 * i + 1) - 0 - 1) <= 2 * faults
      BY <1>t, <2>4, <3>3, <3>4
    <3> QED
      BY <2>1, <3>1, <3>5, Zenon
  <2>6. l <= i \/ shown[v] = None
    BY <1>3, <2>4
  <2>7. Placed(queue'[v], 2 * i + 1, w, k)
    BY <1>t, <2>4, PlacedNone
  <2>8. Account(v, p, l, i, 1, k)'
    BY <1>t, <1>3, <1>5, <2>5, <2>6, <2>7, Zenon DEF Account
  <2>9. Joined(v)' /\ k \in [1..Len(queue'[v]) -> Nat] /\ 1 \in {0, 1}
    BY <1>t DEF Joined
  <2> QED
    BY <2>8, <2>9 DEF Solvent
<1> QED
  BY <1>t, <1>7, <1>8

\* No step leaves a viewer with more missed than is paid for.
LEMMA SolventStep ==
  ASSUME IInv, TypeOK', [Next]_vars, NEW v \in Viewer, Solvent(v)
  PROVE  Solvent(v)'
<1>t. TypeOK /\ v \in Subscriber /\ faults \in Nat /\ faults' \in Nat
  BY DEF IInv, TypeOK, Subscriber
<1>1. CASE ReadPacket \/ Finish
  BY <1>1, ReaderSolvent
<1>2. CASE Signal \/ UNCHANGED vars
  <2>1. UNCHANGED <<reader, queue, spc, shown, skipped, faults>>
    BY <1>2 DEF Signal, vars, reader
  <2>2. faults' >= faults
    BY <1>t, <2>1
  <2> QED
    BY <1>t, <2>1, <2>2, SolventFrame
<1>3. ASSUME NEW s \in Subscriber, s # v, Join(s) \/ Leave(s) \/ Subscription(s)
      PROVE  Solvent(v)'
  <2>1. UNCHANGED reader /\ spc'[v] = spc[v] /\ shown'[v] = shown[v]
    BY <1>3, <1>t DEF Subscription, Join, Leave, Loop, PollTimeout, SkipBody, TakeId, Forget,
       Mismatch, Unexpected, Show, Done, TypeOK, feed, reader
  <2>2. queue'[v] = queue[v]
    BY <1>3, <1>t DEF Subscription, Join, Leave, Loop, PollTimeout, SkipBody, TakeId, Forget,
       Mismatch, Unexpected, Show, Take, TypeOK
  <2>3. skipped'[v] = skipped[v]
    BY <1>3, <1>t DEF Subscription, Join, Leave, Loop, PollTimeout, SkipBody, TakeId, Forget,
       Mismatch, Unexpected, Show, TypeOK
  <2>4. faults' >= faults
    BY <1>3, <1>t DEF Subscription, Join, Leave, Loop, PollTimeout, SkipBody, TakeId, Forget,
       Mismatch, Unexpected, Show, Fault, TypeOK, feed
  <2> QED
    BY <1>t, <2>1, <2>2, <2>3, <2>4, SolventFrame
<1>4. CASE Join(v)
  BY <1>4, JoinSolvent
<1>5. CASE Leave(v)
  BY <1>t, <1>5, LeaveSolvent
<1>6. CASE Loop(v) \/ PollTimeout(v)
  <2>1. /\ UNCHANGED reader /\ queue'[v] = queue[v] /\ shown'[v] = shown[v]
        /\ skipped'[v] = skipped[v] /\ {spc[v], spc'[v]} \subseteq {"top", "id"}
        /\ faults' = faults
    BY <1>6, <1>t DEF Loop, PollTimeout, TypeOK, feed, reader
  <2>2. faults' >= faults
    BY <1>t, <2>1
  <2> QED
    BY <1>t, <2>1, <2>2, SolventFrame
<1>7. CASE SkipBody(v)
  BY <1>t, <1>7, SkipSolvent
<1>8. CASE TakeId(v)
  BY <1>t, <1>8, TakeIdSolvent
<1>9. CASE Forget(v)
  BY <1>t, <1>9, ForgetSolvent
<1>10. CASE Mismatch(v)
  BY <1>t, <1>10, MismatchSolvent
<1>11. ~Unexpected(v)
  BY <1>t DEF IInv, SubscriberInv, Holds, Unexpected
<1>12. CASE Show(v)
  BY <1>12, ShowSolvent
<1> QED
  BY <1>1, <1>2, <1>3, <1>4, <1>5, <1>6, <1>7, <1>8, <1>9, <1>10, <1>11, <1>12
  DEF Next, Subscription

\* One disturbance costs a viewer at most two packets, for any number of viewers,
\* sessions, packets and disturbances.
THEOREM DisturbancesCostTwo == Spec => []FaultsCostTwo
<1> DEFINE AInv == IInv /\ \A v \in Viewer : Solvent(v)
<1>1. Init => AInv
  <2>1. ASSUME Init, NEW v \in Viewer PROVE Solvent(v)
    <3>1. v \in Subscriber
      BY DEF Subscriber
    <3>2. ~Joined(v) /\ shown[v] = None /\ skipped[v] = 0 /\ faults = 0
      BY <2>1, <3>1 DEF Init, Joined
    <3> QED
      BY <3>2 DEF Solvent
  <2> QED
    BY <2>1, InitInv
<1>2. AInv /\ [Next]_vars => AInv'
  <2>1. ASSUME AInv, [Next]_vars PROVE IInv' /\ \A v \in Viewer : Solvent(v)'
    <3>1. TypeOK'
      BY <2>1, TypeStep
    <3>2. IInv'
      BY <2>1, <3>1, SubscribersStep, PairsStep DEF IInv
    <3>3. ASSUME NEW v \in Viewer PROVE Solvent(v)'
      BY <2>1, <3>1, SolventStep
    <3> QED
      BY <3>2, <3>3
  <2> QED
    BY <2>1
<1>3. AInv => FaultsCostTwo
  BY SolventSays DEF IInv, FaultsCostTwo
<1> HIDE DEF AInv
<1> QED
  BY <1>1, <1>2, <1>3, PTL DEF Spec
=============================================================================
