--------------------------- MODULE Emulator_proofs --------------------------
(***************************************************************************)
(* Proofs about Emulator: the lock file keeps all packets but one from     *)
(* being late, no client is sent a row it has, and what the middleware's   *)
(* parsers read says what was meant to be sent, by the scales they use.    *)
(***************************************************************************)
EXTENDS Emulator, SequenceTheorems, TLAPS

Servings == {"none", "wait", "send", "ended"}
Peers == {"none", "connecting", "reading", "stalled", "gone"}

IsSeq(s) == \E S : s \in Seq(S)

MainTyped ==
    /\ focus \in {"avionics", "sensors"} /\ running \in BOOLEAN /\ lock \in BOOLEAN
    /\ main \in {"make", "send", "write", "join", "died", "exited"}
    /\ IsSeq(batch) /\ Len(batch) <= 3
    /\ main = "write" => batch # <<>>
    /\ IsSeq(device) /\ Len(device) <= Room
    /\ turns \in 0..MaxTurns /\ late \in Nat

\* A packet is late only when the middleware does not listen, and the next is
\* not written before it listens again.
LateInv ==
    /\ late <= 1
    /\ lock => late = 0
    /\ main = "write" => late = 0

SensorsTyped ==
    /\ server \in {"bind", "publish", "accept", "join", "ended"}
    /\ version \in 0..MaxVersion
    /\ serving \in [Clients -> Servings] /\ peer \in [Clients -> Peers]
    /\ taken \in [Clients -> Int] /\ arrived \in [Clients -> Int]

\* A client is accepted after the first row was published; the row that came
\* last is older than the one its thread is sending.
RowInv ==
    /\ server = "accept" => version >= 1
    /\ \A c \in Clients :
          /\ taken[c] \in -1..version
          /\ arrived[c] <= taken[c] \/ (taken[c] = -1 /\ arrived[c] = 0)
          /\ serving[c] # "none" => version >= 1
          /\ serving[c] = "send" => arrived[c] < taken[c]
          /\ peer[c] \in {"none", "connecting"} => serving[c] = "none"

IInv == MainTyped /\ LateInv /\ SensorsTyped /\ RowInv /\ faults \in 0..MaxFaults

-----------------------------------------------------------------------------
\* Packets and sequences of them

LEMMA AppendIsSeq ==
    ASSUME NEW s, NEW e, IsSeq(s)
    PROVE  IsSeq(Append(s, e)) /\ Len(Append(s, e)) = Len(s) + 1
<1>1. PICK S : s \in Seq(S)
  BY DEF IsSeq
<1>2. s \in Seq(S \cup {e})
  BY <1>1
<1>3. Append(s, e) \in Seq(S \cup {e}) /\ Len(Append(s, e)) = Len(s) + 1
  BY <1>2
<1> QED
  BY <1>3 DEF IsSeq

LEMMA TailIsSeq ==
    ASSUME NEW s, IsSeq(s), s # <<>>
    PROVE  /\ IsSeq(Tail(s)) /\ Len(Tail(s)) \in Nat /\ Len(s) \in Nat
           /\ Len(Tail(s)) <= Len(s)
  BY DEF IsSeq

\* A round is three packets, whatever bits were flipped in them.
LEMMA RoundIsSeq ==
    ASSUME NEW phase \in Phases, NEW packets \in Flipped(Packets[phase])
    PROVE  IsSeq(packets) /\ Len(packets) = 3
<1> DEFINE S == {packets[i] : i \in 1..3}
<1>1. packets = [i \in 1..3 |-> packets[i]]
  <2>1. Packets[phase] = [i \in 1..3 |-> Packets[phase][i]]
    BY DEF Packets
  <2>2. \/ packets = Packets[phase]
        \/ \E i, name, value :
              packets = [Packets[phase] EXCEPT ![i].arguments[name] = value]
    <3>1. CASE packets # Packets[phase]
      <4>1. PICK i \in 1..3 : \E name : packets \in Flips(Packets[phase], i, name)
        BY <3>1 DEF Flipped
      <4>2. PICK name : packets \in Flips(Packets[phase], i, name)
        BY <4>1
      <4> QED
        BY <4>2 DEF Flips
    <3> QED
      BY <3>1
  <2>3. ASSUME NEW i, NEW name, NEW value,
               packets = [Packets[phase] EXCEPT ![i].arguments[name] = value]
        PROVE  packets = [j \in 1..3 |-> packets[j]]
    BY <2>1, <2>3
  <2> QED
    BY <2>1, <2>2, <2>3
<1>2. packets \in Seq(S) /\ Len(packets) = 3
  <2>1. packets \in [1..3 -> S]
    BY <1>1
  <2>2. packets \in Seq(S)
    BY <2>1, SeqDef
  <2>3. DOMAIN packets = 1..3 /\ DOMAIN packets = 1..Len(packets) /\ Len(packets) \in Nat
    BY <2>1, <2>2, LenProperties
  <2> QED
    BY <2>2, <2>3
<1> QED
  BY <1>2 DEF IsSeq

-----------------------------------------------------------------------------
LEMMA InitHolds == Init => IInv
<1> SUFFICES ASSUME Init PROVE IInv
  OBVIOUS
<1> USE EmulatorBounds
<1>1. IsSeq(<<>>) /\ Len(<<>>) = 0
  BY DEF IsSeq
<1>2. running \in BOOLEAN /\ lock \in BOOLEAN
  BY Zenon DEF Init
<1>3. MainTyped
  BY <1>1, <1>2 DEF Init, MainTyped
<1>4. LateInv
  BY DEF Init, LateInv
<1>5. SensorsTyped
  BY DEF Init, SensorsTyped, Servings, Peers
<1>6. RowInv
  BY DEF Init, RowInv
<1>7. faults \in 0..MaxFaults
  BY DEF Init
<1> QED
  BY <1>3, <1>4, <1>5, <1>6, <1>7 DEF IInv

\* The threads of the sensor server leave the avionics alone.
LEMMA AvionicsKept ==
    ASSUME MainTyped, LateInv, UNCHANGED <<focus, avionics, lock, turns>>,
           running' = running \/ running' = FALSE
    PROVE  MainTyped' /\ LateInv'
<1>1. running' \in BOOLEAN /\ lock' \in BOOLEAN
  BY Zenon DEF MainTyped
<1> QED
  BY <1>1 DEF MainTyped, LateInv, avionics

\* The main thread leaves the rows alone.
LEMMA SensorsKept ==
    ASSUME SensorsTyped, RowInv, UNCHANGED <<sensors, peer>>
    PROVE  SensorsTyped' /\ RowInv'
  BY DEF SensorsTyped, RowInv, sensors

LEMMA MainKeeps == IInv /\ Main => IInv'
<1> SUFFICES ASSUME IInv, Main PROVE IInv'
  OBVIOUS
<1> USE EmulatorBounds DEF IInv
<1>1. UNCHANGED <<focus, running, lock, turns, sensors, peer>>
  BY DEF Main, MakePackets, LookForLock, LosePacket, WritePacket, WriteFails,
         EndRound, JoinServer, Exit, world
<1>2. SensorsTyped' /\ RowInv'
  BY <1>1, SensorsKept
<1>3. running' \in BOOLEAN /\ lock' \in BOOLEAN
  BY <1>1, Zenon DEF MainTyped
<1>4. CASE MakePackets
  <2>1. IsSeq(batch') /\ Len(batch') <= 3
    <3>1. PICK phase \in Phases : \E packets \in Flipped(Packets[phase]) :
             batch' = packets \/ batch' = batch
      BY <1>4 DEF MakePackets
    <3>2. PICK packets \in Flipped(Packets[phase]) : batch' = packets \/ batch' = batch
      BY <3>1
    <3>3. IsSeq(packets) /\ Len(packets) = 3
      BY RoundIsSeq
    <3>4. CASE batch' = packets
      <4>1. IsSeq(batch') /\ Len(batch') = 3
        BY <3>3, <3>4, Zenon
      <4>2. 3 <= 3
        OBVIOUS
      <4> QED
        BY <4>1, <4>2, Zenon
    <3>5. CASE batch' = batch
      BY <3>5 DEF MainTyped
    <3> QED
      BY <3>2, <3>4, <3>5
  <2> QED
    BY <1>1, <1>2, <1>3, <1>4, <2>1 DEF MakePackets, MainTyped, LateInv, world
<1>5. CASE LookForLock \/ LosePacket
  <2>1. IsSeq(batch') /\ Len(batch') <= 3 /\ (main' = "write" => batch' # <<>>)
    <3>1. /\ batch # <<>> /\ main = "send"
          /\ batch' = batch \/ (batch' = Tail(batch) /\ main' = "send")
      BY <1>5 DEF LookForLock, LosePacket, world
    <3>2. IsSeq(Tail(batch)) /\ Len(Tail(batch)) <= 3
      BY <3>1, TailIsSeq DEF MainTyped
    <3> QED
      BY <3>1, <3>2 DEF MainTyped
  <2> QED
    BY <1>1, <1>2, <1>3, <1>5, <2>1 DEF LookForLock, LosePacket, MainTyped, LateInv, world
<1>6. CASE WritePacket
  <2>1. IsSeq(batch') /\ Len(batch') <= 3
    BY <1>6, TailIsSeq DEF WritePacket, MainTyped
  <2>2. IsSeq(device') /\ Len(device') <= Room
    <3>1. IsSeq(device') /\ Len(device') = Len(device) + 1
      BY <1>6, AppendIsSeq DEF WritePacket, MainTyped
    <3>2. Len(device) \in Nat
      BY DEF MainTyped, IsSeq
    <3> QED
      BY <1>6, <3>1, <3>2 DEF WritePacket
  <2>3. late' \in Nat /\ LateInv'
    BY <1>1, <1>6 DEF WritePacket, MainTyped, LateInv
  <2> QED
    BY <1>1, <1>2, <1>3, <1>6, <2>1, <2>2, <2>3 DEF WritePacket, MainTyped, world
<1>7. CASE WriteFails
  <2>1. IsSeq(batch') /\ Len(batch') = 0
    BY <1>7 DEF WriteFails, IsSeq
  <2> QED
    BY <1>1, <1>2, <1>3, <1>7, <2>1 DEF WriteFails, MainTyped, LateInv
<1>8. CASE EndRound \/ JoinServer \/ Exit
  BY <1>1, <1>2, <1>3, <1>8 DEF EndRound, JoinServer, Exit, MainTyped, LateInv, world
<1> QED
  BY <1>4, <1>5, <1>6, <1>7, <1>8 DEF Main

LEMMA ServerKeeps == IInv /\ Server => IInv'
<1> SUFFICES ASSUME IInv, Server PROVE IInv'
  OBVIOUS
<1> USE EmulatorBounds DEF IInv
<1>1. UNCHANGED <<focus, avionics, lock, turns, running>> /\ faults' \in 0..MaxFaults
  BY DEF Server, Bind, BindFails, Publish, AcceptNone, CloseServer, JoinClients,
         Accept, world
<1>2. MainTyped' /\ LateInv'
  BY <1>1, AvionicsKept
<1>3. CASE Bind \/ BindFails \/ AcceptNone \/ JoinClients
  BY <1>1, <1>2, <1>3 DEF Bind, BindFails, AcceptNone, JoinClients, SensorsTyped,
                          RowInv, world
<1>4. CASE Publish
  <2>1. SensorsTyped'
    BY <1>4 DEF Publish, SensorsTyped, world
  <2>2. RowInv'
    BY <1>4 DEF Publish, SensorsTyped, RowInv, world
  <2> QED
    BY <1>1, <1>2, <2>1, <2>2
<1>5. ASSUME NEW c \in Clients, Accept(c)
      PROVE  IInv'
  <2>1. SensorsTyped'
    BY <1>5 DEF Accept, SensorsTyped, Servings, Peers
  <2>2. RowInv'
    BY <1>5 DEF Accept, SensorsTyped, RowInv
  <2> QED
    BY <1>1, <1>2, <2>1, <2>2
<1>6. CASE CloseServer
  <2>1. SensorsTyped'
    BY <1>6 DEF CloseServer, SensorsTyped, Peers
  <2>2. RowInv'
    BY <1>6 DEF CloseServer, RowInv
  <2> QED
    BY <1>1, <1>2, <2>1, <2>2
<1> QED
  BY <1>3, <1>4, <1>5, <1>6 DEF Server

LEMMA ServeKeeps == \A c \in Clients : IInv /\ Serve(c) => IInv'
<1> SUFFICES ASSUME NEW c \in Clients, IInv, Serve(c) PROVE IInv'
  OBVIOUS
<1> USE EmulatorBounds DEF IInv
<1>1. UNCHANGED <<focus, avionics, lock, turns, running, faults, server, version, peer>>
  BY DEF Serve, TakeRow, SendRow, StopServing, world
<1>2. MainTyped' /\ LateInv'
  BY <1>1, AvionicsKept
<1>3. CASE TakeRow(c)
  <2>1. SensorsTyped' /\ RowInv'
    BY <1>1, <1>3 DEF TakeRow, SensorsTyped, RowInv, Servings
  <2> QED
    BY <1>1, <1>2, <2>1
<1>4. CASE SendRow(c)
  <2>1. SensorsTyped' /\ RowInv'
    BY <1>1, <1>4 DEF SendRow, SensorsTyped, RowInv, Servings
  <2> QED
    BY <1>1, <1>2, <2>1
<1>5. CASE StopServing(c)
  <2>1. SensorsTyped' /\ RowInv'
    BY <1>1, <1>5 DEF StopServing, SensorsTyped, RowInv, Servings
  <2> QED
    BY <1>1, <1>2, <2>1
<1> QED
  BY <1>3, <1>4, <1>5 DEF Serve

LEMMA WorldKeeps == IInv /\ World => IInv'
<1> SUFFICES ASSUME IInv, World PROVE IInv'
  OBVIOUS
<1> USE EmulatorBounds DEF IInv
<1>1. CASE Listen
  <2>1. SensorsTyped' /\ RowInv'
    BY <1>1, SensorsKept DEF Listen
  <2>2. running' \in BOOLEAN /\ lock' \in BOOLEAN
    BY <1>1, Zenon DEF Listen, MainTyped
  <2> QED
    BY <1>1, <2>1, <2>2 DEF Listen, MainTyped, LateInv
<1>2. CASE StopListening
  <2>1. SensorsTyped' /\ RowInv'
    BY <1>2, SensorsKept DEF StopListening
  <2>2. running' \in BOOLEAN /\ lock' \in BOOLEAN
    BY <1>2, Zenon DEF StopListening, MainTyped
  <2> QED
    BY <1>2, <2>1, <2>2 DEF StopListening, MainTyped, LateInv, avionics
<1>3. CASE Read
  <2>1. SensorsTyped' /\ RowInv'
    BY <1>3, SensorsKept DEF Read, world
  <2>2. IsSeq(device') /\ Len(device') = 0
    BY <1>3 DEF Read, IsSeq
  <2>3. running' \in BOOLEAN /\ lock' \in BOOLEAN
    BY <1>3, Zenon DEF Read, MainTyped, world
  <2> QED
    BY <1>3, <2>1, <2>2, <2>3 DEF Read, MainTyped, LateInv, world
<1>4. CASE Signal
  <2>1. SensorsTyped' /\ RowInv'
    BY <1>4, SensorsKept DEF Signal
  <2>2. MainTyped' /\ LateInv'
    BY <1>4, AvionicsKept DEF Signal
  <2> QED
    BY <1>4, <2>1, <2>2 DEF Signal
<1>5. ASSUME NEW c \in Clients, Connect(c) \/ Behave(c)
      PROVE  IInv'
  <2>1. MainTyped' /\ LateInv'
    BY <1>5, AvionicsKept DEF Connect, Behave
  <2>2. SensorsTyped' /\ RowInv'
    BY <1>5 DEF Connect, Behave, SensorsTyped, RowInv, Peers, sensors
  <2>3. faults' \in 0..MaxFaults
    BY <1>5 DEF Connect, Behave
  <2> QED
    BY <2>1, <2>2, <2>3
<1> QED
  BY <1>1, <1>2, <1>3, <1>4, <1>5 DEF World

LEMMA StepKeeps == IInv /\ [Next]_vars => IInv'
<1>1. IInv /\ UNCHANGED vars => IInv'
  <2> SUFFICES ASSUME IInv, UNCHANGED vars PROVE IInv'
    OBVIOUS
  <2>1. MainTyped' /\ LateInv'
    BY AvionicsKept DEF IInv, vars, avionics
  <2>2. SensorsTyped' /\ RowInv'
    BY SensorsKept DEF IInv, vars, sensors
  <2> QED
    BY <2>1, <2>2 DEF IInv, vars
<1> QED
  BY <1>1, MainKeeps, ServerKeeps, ServeKeeps, WorldKeeps DEF Next

LEMMA Inductive == Spec => []IInv
  BY InitHolds, StepKeeps, PTL DEF Spec

-----------------------------------------------------------------------------
LEMMA MaxWithZero ==
    ASSUME NEW a \in Int
    PROVE  Max({a, 0}) = IF a > 0 THEN a ELSE 0
  BY DEF Max

\* The variables of the emulator keep their types, for every set of clients
\* and phases, every width and every bound.
THEOREM TypeCorrect == Spec => []TypeOK
<1>1. IInv => TypeOK
  <2> SUFFICES ASSUME IInv PROVE TypeOK
    OBVIOUS
  <2>1. ASSUME NEW c \in Clients
        PROVE  /\ serving[c] \in Servings /\ peer[c] \in Peers
               /\ taken[c] \in -1..version
               /\ arrived[c] <= Max({taken[c], 0})
    BY MaxWithZero DEF IInv, SensorsTyped, RowInv
  <2>2. running \in BOOLEAN /\ lock \in BOOLEAN
    BY Zenon DEF IInv, MainTyped
  <2> QED
    BY <2>1, <2>2 DEF IInv, MainTyped, SensorsTyped, TypeOK, Servings, Peers
<1> QED
  BY <1>1, Inductive, PTL

\* When the middleware stops listening between the look at the lock file and
\* the write, one packet is late, never two, however often it stops.
THEOREM AtMostOneIsLate == Spec => []OneIsLate
<1>1. IInv => OneIsLate
  BY DEF IInv, LateInv, OneIsLate
<1> QED
  BY <1>1, Inductive, PTL

\* Whatever the order of its waits and the publications, a client's thread
\* never sends a row again or an older one.
THEOREM RowsGoOnce == Spec => RowsAreSentOnce
<1> DEFINE Newer(c) == (serving[c] = "send" /\ serving'[c] = "wait")
                            => arrived'[c] > arrived[c]
<1>1. ASSUME IInv, Next, NEW c \in Clients, serving[c] = "send", serving'[c] = "wait"
      PROVE  arrived'[c] > arrived[c]
  <2>1. serving' # serving
    BY <1>1
  <2>2. CASE Main \/ World
    BY <2>1, <2>2 DEF Main, MakePackets, LookForLock, LosePacket, WritePacket,
          WriteFails, EndRound, JoinServer, Exit, World, Listen, StopListening, Read,
          Signal, Connect, Behave, sensors, world
  <2>3. CASE Server
    <3>1. PICK d \in Clients : Accept(d)
      BY <2>1, <2>3 DEF Server, Bind, BindFails, Publish, AcceptNone, CloseServer,
                        JoinClients
    <3>2. d # c
      BY <1>1, <3>1 DEF Accept, IInv, RowInv
    <3> QED
      BY <1>1, <3>1, <3>2 DEF Accept, IInv, SensorsTyped
  <2>4. ASSUME NEW d \in Clients, Serve(d)
        PROVE  arrived'[c] > arrived[c]
    BY <1>1, <2>4 DEF Serve, TakeRow, SendRow, StopServing, IInv, SensorsTyped, RowInv
  <2> QED
    BY <1>1, <2>2, <2>3, <2>4 DEF Next
<1>2. IInv /\ [Next]_vars => [\A c \in Clients : Newer(c)]_vars
  BY <1>1
<1> QED
  BY <1>2, Inductive, PTL DEF Spec, RowsAreSentOnce
-----------------------------------------------------------------------------
\* The fields of a packet: what is written and what is read have the same kinds
\* in the same order, and the same names but where the parser skips a field.

FieldNames(s) == {s[i][2] : i \in DOMAIN s}

Fits(x, y) == x[1] = y[1] /\ (y[2] = "skipped" \/ x[2] = y[2])

Reads(w, f) ==
    /\ IsSeq(w) /\ IsSeq(f) /\ Len(w) = Len(f)
    /\ \A i \in 1..Len(f) : Fits(w[i], f[i])

ReadAs(w, f, names) == Reads(w, f) /\ FieldNames(f) = names

LEMMA SeqDomain ==
    ASSUME NEW s, IsSeq(s)
    PROVE  Len(s) \in Nat /\ DOMAIN s = 1..Len(s)
  BY DEF IsSeq

LEMMA SeqConcat ==
    ASSUME NEW s, NEW t, IsSeq(s), IsSeq(t)
    PROVE  /\ IsSeq(s \o t) /\ Len(s \o t) = Len(s) + Len(t)
           /\ \A i \in 1..Len(s) + Len(t) :
                 (s \o t)[i] = IF i <= Len(s) THEN s[i] ELSE t[i - Len(s)]
<1>1. PICK S, T : s \in Seq(S) /\ t \in Seq(T)
  BY DEF IsSeq
<1>2. s \in Seq(S \cup T) /\ t \in Seq(S \cup T)
  BY <1>1
<1>3. /\ s \o t \in Seq(S \cup T) /\ Len(s \o t) = Len(s) + Len(t)
      /\ \A i \in 1..Len(s) + Len(t) :
             (s \o t)[i] = IF i <= Len(s) THEN s[i] ELSE t[i - Len(s)]
  BY <1>2, ConcatProperties, Zenon
<1> QED
  BY <1>3, Zenon DEF IsSeq

LEMMA ReadsConcat ==
    ASSUME NEW w1, NEW f1, NEW names1, ReadAs(w1, f1, names1),
           NEW w2, NEW f2, NEW names2, ReadAs(w2, f2, names2)
    PROVE  ReadAs(w1 \o w2, f1 \o f2, names1 \cup names2)
<1> DEFINE w == w1 \o w2
           f == f1 \o f2
           m == Len(f1)
           n == Len(f2)
<1>0. /\ Reads(w1, f1) /\ FieldNames(f1) = names1
      /\ Reads(w2, f2) /\ FieldNames(f2) = names2
  BY Zenon DEF ReadAs
<1>1. /\ IsSeq(w1) /\ IsSeq(f1) /\ Len(w1) = m /\ m \in Nat
      /\ IsSeq(w2) /\ IsSeq(f2) /\ Len(w2) = n /\ n \in Nat
      /\ DOMAIN f1 = 1..m /\ DOMAIN f2 = 1..n
  BY <1>0, SeqDomain, Zenon DEF Reads
<1>2. /\ \A i \in 1..m : Fits(w1[i], f1[i])
      /\ \A i \in 1..n : Fits(w2[i], f2[i])
  BY <1>0, Zenon DEF Reads
<1>3. /\ IsSeq(w) /\ Len(w) = Len(w1) + Len(w2)
      /\ \A i \in 1..Len(w1) + Len(w2) :
             w[i] = IF i <= Len(w1) THEN w1[i] ELSE w2[i - Len(w1)]
      /\ IsSeq(f) /\ Len(f) = m + n
      /\ \A i \in 1..m + n : f[i] = IF i <= m THEN f1[i] ELSE f2[i - m]
  BY <1>1, SeqConcat, Zenon
<1> HIDE DEF w, f, m, n
<1>4. /\ Len(w) = m + n
      /\ \A i \in 1..m + n : w[i] = IF i <= m THEN w1[i] ELSE w2[i - m]
  BY <1>1, <1>3, Zenon
<1>5. DOMAIN f = 1..m + n
  BY <1>3, SeqDomain, Zenon
<1>6. ASSUME NEW i \in 1..m + n
      PROVE  \/ i \in 1..m /\ w[i] = w1[i] /\ f[i] = f1[i]
             \/ i - m \in 1..n /\ w[i] = w2[i - m] /\ f[i] = f2[i - m]
  <2>1. i \in Int /\ 1 <= i /\ i <= m + n
    BY <1>1
  <2>2. CASE i <= m
    <3>1. i \in 1..m
      BY <2>1, <2>2, <1>1
    <3> QED
      BY <1>3, <1>4, <2>2, <3>1, Zenon
  <2>3. CASE ~(i <= m)
    <3>1. i - m \in 1..n
      BY <2>1, <2>3, <1>1
    <3> QED
      BY <1>3, <1>4, <2>3, <3>1, Zenon
  <2> QED
    BY <2>2, <2>3, Zenon
<1>7. Reads(w, f)
  <2>1. \A i \in 1..m + n : Fits(w[i], f[i])
    <3> SUFFICES ASSUME NEW i \in 1..m + n PROVE Fits(w[i], f[i])
      BY Zenon
    <3>1. CASE i \in 1..m /\ w[i] = w1[i] /\ f[i] = f1[i]
      BY <3>1, <1>2, Zenon
    <3>2. CASE i - m \in 1..n /\ w[i] = w2[i - m] /\ f[i] = f2[i - m]
      BY <3>2, <1>2, Zenon
    <3> QED
      BY <1>6, <3>1, <3>2, Zenon
  <2> QED
    BY <1>3, <1>4, <2>1, Zenon DEF Reads
<1>8. FieldNames(f) \subseteq FieldNames(f1) \cup FieldNames(f2)
  <2> SUFFICES ASSUME NEW i \in 1..m + n
               PROVE  f[i][2] \in FieldNames(f1) \cup FieldNames(f2)
    BY <1>5, Zenon DEF FieldNames
  <2>1. CASE i \in 1..m /\ f[i] = f1[i]
    BY <2>1, <1>1, Zenon DEF FieldNames
  <2>2. CASE i - m \in 1..n /\ f[i] = f2[i - m]
    BY <2>2, <1>1, Zenon DEF FieldNames
  <2> QED
    BY <1>6, <2>1, <2>2, Zenon
<1>9. FieldNames(f1) \subseteq FieldNames(f)
  <2> SUFFICES ASSUME NEW i \in 1..m PROVE f1[i][2] \in FieldNames(f)
    BY <1>1, Zenon DEF FieldNames
  <2>1. i \in 1..m + n /\ i <= m
    BY <1>1
  <2>2. f[i] = f1[i]
    BY <1>3, <2>1, Zenon
  <2> QED
    BY <1>5, <2>1, <2>2, Zenon DEF FieldNames
<1>10. FieldNames(f2) \subseteq FieldNames(f)
  <2> SUFFICES ASSUME NEW i \in 1..n PROVE f2[i][2] \in FieldNames(f)
    BY <1>1, Zenon DEF FieldNames
  <2>1. i + m \in 1..m + n /\ ~(i + m <= m) /\ (i + m) - m = i
    BY <1>1
  <2>2. f[i + m] = f2[(i + m) - m]
    BY <1>3, <2>1, Zenon
  <2>3. f[i + m] = f2[i]
    BY <2>1, <2>2, Zenon
  <2> QED
    BY <1>5, <2>1, <2>3, Zenon DEF FieldNames
<1>11. FieldNames(f) = names1 \cup names2
  BY <1>0, <1>8, <1>9, <1>10, Zenon
<1> QED
  BY <1>7, <1>11, Zenon DEF ReadAs, w, f

\* A group of fields, each read or skipped.
LEMMA KindFields ==
    ASSUME NEW kind, NEW names, IsSeq(names)
    PROVE  /\ IsSeq(Kind(kind, names)) /\ Len(Kind(kind, names)) = Len(names)
           /\ \A i \in 1..Len(names) : Kind(kind, names)[i] = <<kind, names[i]>>
           /\ FieldNames(Kind(kind, names)) = Range(names)
<1> DEFINE s == Kind(kind, names)
           n == Len(names)
           Fields == {<<kind, names[i]>> : i \in 1..n}
<1>1. n \in Nat /\ DOMAIN names = 1..n
  BY SeqDomain, Zenon
<1>2. s = [i \in 1..n |-> <<kind, names[i]>>]
  BY <1>1, Zenon DEF Kind
<1> HIDE DEF s, n
<1>3. s \in [1..n -> Fields] /\ DOMAIN s = 1..n
  BY <1>2, Zenon
<1>4. s \in Seq(Fields)
  <2> HIDE DEF Fields
  <2> QED
    BY <1>1, <1>3, SeqDef, Zenon
<1>5. Len(s) \in Nat /\ 1..Len(s) = 1..n
  BY <1>3, <1>4, LenProperties, Zenon
<1>6. Len(s) = n
  <2>1. \A i \in Nat : i \in 1..Len(s) <=> i \in 1..n
    BY <1>5, Zenon
  <2> QED
    BY <1>1, <1>5, <2>1
<1>7. \A i \in 1..n : s[i] = <<kind, names[i]>>
  BY <1>2, Zenon
<1>8. \A i \in 1..n : s[i][2] = names[i]
  <2>1. \A x : <<kind, x>>[2] = x
    OBVIOUS
  <2> QED
    BY <1>7, <2>1, Zenon
<1>9. FieldNames(s) = Range(names)
  <2>1. FieldNames(s) = {s[i][2] : i \in 1..n}
    BY <1>3, Zenon DEF FieldNames
  <2>2. Range(names) = {names[i] : i \in 1..n}
    BY <1>1, Zenon DEF Range
  <2>3. \A x : x \in {s[i][2] : i \in 1..n} <=> x \in {names[i] : i \in 1..n}
    BY <1>8, Zenon
  <2> QED
    BY <2>1, <2>2, <2>3, Zenon
<1> QED
  BY <1>4, <1>6, <1>7, <1>9, Zenon DEF IsSeq, s, n

LEMMA ReadsKind ==
    ASSUME NEW kind, NEW written, NEW read, IsSeq(written), IsSeq(read),
           Len(written) = Len(read),
           \A i \in 1..Len(read) : read[i] = "skipped" \/ read[i] = written[i]
    PROVE  ReadAs(Kind(kind, written), Kind(kind, read), Range(read))
<1> DEFINE w == Kind(kind, written)
           f == Kind(kind, read)
<1>1. /\ IsSeq(w) /\ Len(w) = Len(written)
      /\ \A i \in 1..Len(written) : w[i] = <<kind, written[i]>>
      /\ IsSeq(f) /\ Len(f) = Len(read)
      /\ \A i \in 1..Len(read) : f[i] = <<kind, read[i]>>
      /\ FieldNames(f) = Range(read)
  BY KindFields, Zenon
<1> HIDE DEF w, f
<1>2. \A i \in 1..Len(read) : Fits(w[i], f[i])
  BY <1>1 DEF Fits
<1>3. Reads(w, f)
  BY <1>1, <1>2, Zenon DEF Reads
<1> QED
  BY <1>1, <1>3, Zenon DEF ReadAs, w, f

LEMMA ReadsSame ==
    ASSUME NEW kind, NEW names, IsSeq(names)
    PROVE  ReadAs(Kind(kind, names), Kind(kind, names), Range(names))
  BY ReadsKind, Zenon

LEMMA NameLists ==
    /\ IsSeq(StateNames) /\ IsSeq(ShortNames) /\ IsSeq(QuaternionNames)
    /\ IsSeq(ApogeeNames) /\ Len(ApogeeNames) = 4
    /\ IsSeq(MainNames) /\ Len(MainNames) = 4
<1>1. StateNames \in Seq(Range(StateNames))
  BY DEF StateNames, Range
<1>2. ShortNames \in Seq(Range(ShortNames))
  BY DEF ShortNames, Range
<1>3. QuaternionNames \in Seq(Range(QuaternionNames))
  BY DEF QuaternionNames, Range
<1>4. ApogeeNames \in Seq(Range(ApogeeNames)) /\ Len(ApogeeNames) = 4
  BY DEF ApogeeNames, Range
<1>5. MainNames \in Seq(Range(MainNames)) /\ Len(MainNames) = 4
  BY DEF MainNames, Range
<1> QED
  BY <1>1, <1>2, <1>3, <1>4, <1>5, Zenon DEF IsSeq

LEMMA OneName ==
    ASSUME NEW name
    PROVE  /\ IsSeq(<<name>>) /\ Len(<<name>>) = 1 /\ <<name>>[1] = name
           /\ Range(<<name>>) = {name}
<1>1. <<name>> \in Seq({name}) /\ Len(<<name>>) = 1 /\ <<name>>[1] = name
  OBVIOUS
<1>2. Range(<<name>>) = {name}
  BY DEF Range
<1> QED
  BY <1>1, <1>2, Zenon DEF IsSeq

LEMMA TwoNames ==
    ASSUME NEW a, NEW b
    PROVE  /\ IsSeq(<<a, b>>) /\ Len(<<a, b>>) = 2
           /\ <<a, b>>[1] = a /\ <<a, b>>[2] = b
           /\ Range(<<a, b>>) = {a, b}
<1>1. /\ <<a, b>> \in Seq({a, b}) /\ Len(<<a, b>>) = 2
      /\ <<a, b>>[1] = a /\ <<a, b>>[2] = b
  OBVIOUS
<1>2. Range(<<a, b>>) = {a, b}
  BY DEF Range
<1> QED
  BY <1>1, <1>2, Zenon DEF IsSeq

\* The flags, and the results of a test, whose nibble in between is skipped.
LEMMA ReadsFlags ==
    ReadAs(StateFlags, FlagsRead, {"flight_state"} \cup Range(StateNames))
<1>1. ReadAs(Kind("u3", <<"flight_state">>), Kind("u3", <<"flight_state">>),
             {"flight_state"})
  <2>1. IsSeq(<<"flight_state">>) /\ Range(<<"flight_state">>) = {"flight_state"}
    BY OneName, Zenon
  <2> QED
    BY <2>1, ReadsSame, Zenon
<1>2. ReadAs(Kind("u1", StateNames), Kind("u1", StateNames), Range(StateNames))
  BY NameLists, ReadsSame, Zenon
<1> QED
  BY <1>1, <1>2, ReadsConcat, Zenon DEF StateFlags, FlagsRead

\* A field that is skipped.
LEMMA ReadsSkipped ==
    ASSUME NEW kind, NEW name
    PROVE  ReadAs(Kind(kind, <<name>>), Kind(kind, <<"skipped">>), {"skipped"})
<1>1. /\ IsSeq(<<name>>) /\ Len(<<name>>) = 1
      /\ IsSeq(<<"skipped">>) /\ Len(<<"skipped">>) = 1 /\ <<"skipped">>[1] = "skipped"
      /\ Range(<<"skipped">>) = {"skipped"}
  BY OneName, Zenon
<1>2. \A i \in 1..1 : i = 1
  OBVIOUS
<1>3. \A i \in 1..Len(<<"skipped">>) : <<"skipped">>[i] = "skipped"
  BY <1>1, <1>2, Zenon
<1>4. Len(<<name>>) = Len(<<"skipped">>)
  BY <1>1, Zenon
<1>5. ReadAs(Kind(kind, <<name>>), Kind(kind, <<"skipped">>), Range(<<"skipped">>))
  BY <1>1, <1>3, <1>4, ReadsKind, Zenon
<1> QED
  BY <1>1, <1>5, Zenon

LEMMA ReadsResults ==
    ASSUME NEW names, IsSeq(names), Len(names) = 4
    PROVE  ReadAs(Results(names), ResultsRead(names), Range(names) \cup {"skipped"})
<1> DEFINE a == SubSeq(names, 1, 2)
           b == SubSeq(names, 3, 4)
<1>1. PICK S : names \in Seq(S)
  BY DEF IsSeq
<1>2. DOMAIN names = 1..4
  BY <1>1
<1>3. a \in Seq(S) /\ Len(a) = 2 /\ \A i \in 1..2 : a[i] = names[i]
  BY <1>1
<1>4. b \in Seq(S) /\ Len(b) = 2 /\ \A i \in 1..2 : b[i] = names[i + 2]
  <2>1. Len(b) = 2 /\ \A i \in 1..2 : b[i] = names[i + 2]
    BY <1>1
  <2>2. \A i \in 3..4 : i \in 1..4
    OBVIOUS
  <2>3. \A i \in 3..4 : names[i] \in S
    BY <1>1, <1>2, <2>2, ElementOfSeq, LenProperties, Zenon
  <2>4. b \in Seq(S)
    <3>1. 3 \in Int /\ 4 \in Int
      OBVIOUS
    <3> QED
      BY <2>3, <3>1, SubSeqProperties, Zenon
  <2> QED
    BY <2>1, <2>4
<1> HIDE DEF a, b
<1>5. DOMAIN a = 1..2 /\ DOMAIN b = 1..2 /\ IsSeq(a) /\ IsSeq(b)
  BY <1>3, <1>4, LenProperties, Zenon DEF IsSeq
<1>6. Range(a) \cup Range(b) = Range(names)
  BY <1>2, <1>3, <1>4, <1>5 DEF Range
<1>7. ReadAs(Kind("u4", <<"fixed">>), Kind("u4", <<"skipped">>), {"skipped"})
  BY ReadsSkipped, Zenon
<1>8. /\ ReadAs(Kind("u1", a), Kind("u1", a), Range(a))
      /\ ReadAs(Kind("u1", b), Kind("u1", b), Range(b))
  BY <1>5, ReadsSame, Zenon
<1>9. ReadAs(Results(names), ResultsRead(names),
             (Range(a) \cup {"skipped"}) \cup Range(b))
  BY <1>7, <1>8, ReadsConcat, Zenon DEF Results, ResultsRead, a, b
<1>10. (Range(a) \cup {"skipped"}) \cup Range(b) = Range(names) \cup {"skipped"}
  BY <1>6, Zenon
<1> QED
  BY <1>9, <1>10, Zenon

-----------------------------------------------------------------------------
\* The three packets.

LEMMA ReadsPadding ==
    ReadAs(Kind("u8", [i \in 1..30 |-> "dummy"]),
           Kind("u8", [i \in 1..30 |-> "skipped"]), {"skipped"})
<1> DEFINE w == [i \in 1..30 |-> "dummy"]
           f == [i \in 1..30 |-> "skipped"]
<1>1. w \in Seq({"dummy"}) /\ Len(w) = 30
  OBVIOUS
<1>2. f \in Seq({"skipped"}) /\ Len(f) = 30
  OBVIOUS
<1>3. Range(f) = {"skipped"}
  BY DEF Range
<1>4. \A i \in 1..30 : f[i] = "skipped"
  OBVIOUS
<1> HIDE DEF w, f
<1>5. IsSeq(w) /\ IsSeq(f)
  BY <1>1, <1>2, Zenon DEF IsSeq
<1>6. ReadAs(Kind("u8", w), Kind("u8", f), Range(f))
  BY <1>1, <1>2, <1>4, <1>5, ReadsKind, Zenon
<1> QED
  BY <1>3, <1>6, Zenon DEF w, f

LEMMA ReadsBroadcast ==
    ReadAs(Kind("u8", <<"broadcast", "dummy">>), Kind("u8", <<"broadcast", "skipped">>),
           {"broadcast", "skipped"})
<1> DEFINE w == <<"broadcast", "dummy">>
           f == <<"broadcast", "skipped">>
<1>1. /\ IsSeq(w) /\ Len(w) = 2 /\ w[1] = "broadcast"
      /\ IsSeq(f) /\ Len(f) = 2 /\ f[1] = "broadcast" /\ f[2] = "skipped"
      /\ Range(f) = {"broadcast", "skipped"}
  BY TwoNames, Zenon
<1> HIDE DEF w, f
<1>2. \A i \in 1..2 : i = 1 \/ i = 2
  OBVIOUS
<1>3. \A i \in 1..Len(f) : f[i] = "skipped" \/ f[i] = w[i]
  BY <1>1, <1>2, Zenon
<1>4. Len(w) = Len(f)
  BY <1>1, Zenon
<1>5. ReadAs(Kind("u8", w), Kind("u8", f), Range(f))
  BY <1>1, <1>3, <1>4, ReadsKind, Zenon
<1> QED
  BY <1>1, <1>5, Zenon DEF w, f

LEMMA ReadsPair ==
    ASSUME NEW kind, NEW a, NEW b
    PROVE  ReadAs(Kind(kind, <<a, b>>), Kind(kind, <<a, b>>), {a, b})
<1>1. IsSeq(<<a, b>>) /\ Range(<<a, b>>) = {a, b}
  BY TwoNames, Zenon
<1> QED
  BY <1>1, ReadsSame, Zenon

\* The names in the fields of each payload.
PayloadNames(id) ==
    ({"flight_state"} \cup Range(StateNames)) \cup
        CASE id = 3 -> Range(ShortNames) \cup {"altitude", "velocity"}
                           \cup (Range(ApogeeNames) \cup {"skipped"})
                           \cup (Range(MainNames) \cup {"skipped"})
                           \cup {"broadcast", "skipped"}
          [] id = 4 -> {"latitude", "longitude"} \cup {"nav_status"}
                           \cup Range(QuaternionNames)
          [] id = 5 -> {"skipped"}

LEMMA ReadsPayload ==
    ASSUME NEW id \in Ids
    PROVE  ReadAs(Payload(id), PayloadRead(id), PayloadNames(id))
<1> DEFINE flags == {"flight_state"} \cup Range(StateNames)
<1>1. CASE id = 3
  <2>1. ReadAs(StateFlags \o Kind("i16", ShortNames), FlagsRead \o Kind("i16", ShortNames),
               flags \cup Range(ShortNames))
    BY ReadsFlags, NameLists, ReadsSame, ReadsConcat, Zenon
  <2>2. ReadAs(StateFlags \o Kind("i16", ShortNames) \o Kind("f32be", <<"altitude", "velocity">>),
               FlagsRead \o Kind("i16", ShortNames) \o Kind("f32be", <<"altitude", "velocity">>),
               flags \cup Range(ShortNames) \cup {"altitude", "velocity"})
    BY <2>1, ReadsPair, ReadsConcat, Zenon
  <2>3. /\ ReadAs(Results(ApogeeNames), ResultsRead(ApogeeNames),
                  Range(ApogeeNames) \cup {"skipped"})
        /\ ReadAs(Results(MainNames), ResultsRead(MainNames),
                  Range(MainNames) \cup {"skipped"})
    BY NameLists, ReadsResults, Zenon
  <2>4. ReadAs(StateFlags \o Kind("i16", ShortNames) \o Kind("f32be", <<"altitude", "velocity">>)
                  \o Results(ApogeeNames) \o Results(MainNames)
                  \o Kind("u8", <<"broadcast", "dummy">>),
               FlagsRead \o Kind("i16", ShortNames) \o Kind("f32be", <<"altitude", "velocity">>)
                  \o ResultsRead(ApogeeNames) \o ResultsRead(MainNames)
                  \o Kind("u8", <<"broadcast", "skipped">>),
               flags \cup Range(ShortNames) \cup {"altitude", "velocity"}
                  \cup (Range(ApogeeNames) \cup {"skipped"})
                  \cup (Range(MainNames) \cup {"skipped"})
                  \cup {"broadcast", "skipped"})
    BY <2>2, <2>3, ReadsBroadcast, ReadsConcat, Zenon
  <2>5. PayloadNames(id) =
            flags \cup Range(ShortNames) \cup {"altitude", "velocity"}
                  \cup (Range(ApogeeNames) \cup {"skipped"})
                  \cup (Range(MainNames) \cup {"skipped"})
                  \cup {"broadcast", "skipped"}
    BY <1>1 DEF PayloadNames
  <2> QED
    BY <1>1, <2>4, <2>5 DEF Payload, PayloadRead
<1>2. CASE id = 4
  <2>1. ReadAs(StateFlags \o Gps, FlagsRead \o Kind("f32le", <<"latitude", "longitude">>),
               flags \cup {"latitude", "longitude"})
    BY ReadsFlags, ReadsPair, ReadsConcat, Zenon DEF Gps
  <2>2. ReadAs(Kind("s2", <<"nav_status">>), Kind("s2", <<"nav_status">>), {"nav_status"})
    <3>1. IsSeq(<<"nav_status">>) /\ Range(<<"nav_status">>) = {"nav_status"}
      BY OneName, Zenon
    <3> QED
      BY <3>1, ReadsSame, Zenon
  <2>3. ReadAs(Kind("f32le", QuaternionNames), Kind("f32le", QuaternionNames),
               Range(QuaternionNames))
    BY NameLists, ReadsSame, Zenon
  <2>4. ReadAs(StateFlags \o Gps \o Kind("s2", <<"nav_status">>)
                  \o Kind("f32le", QuaternionNames),
               FlagsRead \o Kind("f32le", <<"latitude", "longitude">>)
                  \o Kind("s2", <<"nav_status">>) \o Kind("f32le", QuaternionNames),
               flags \cup {"latitude", "longitude"} \cup {"nav_status"}
                  \cup Range(QuaternionNames))
    BY <2>1, <2>2, <2>3, ReadsConcat, Zenon
  <2>5. PayloadNames(id) = flags \cup {"latitude", "longitude"} \cup {"nav_status"}
                              \cup Range(QuaternionNames)
    BY <1>2 DEF PayloadNames
  <2> QED
    BY <1>2, <2>4, <2>5 DEF Payload, PayloadRead
<1>3. CASE id = 5
  <2>1. ReadAs(StateFlags \o Kind("u8", [i \in 1..30 |-> "dummy"]),
               FlagsRead \o Kind("u8", [i \in 1..30 |-> "skipped"]),
               flags \cup {"skipped"})
    BY ReadsFlags, ReadsPadding, ReadsConcat, Zenon
  <2>2. PayloadNames(id) = flags \cup {"skipped"}
    BY <1>3 DEF PayloadNames
  <2> QED
    BY <1>3, <2>1, <2>2 DEF Payload, PayloadRead
<1> QED
  BY <1>1, <1>2, <1>3 DEF Ids

\* What is read is all that was written, under the name it was written for.
LEMMA ReadsPacket ==
    ASSUME NEW id \in Ids
    PROVE  \E names : /\ ReadAs(Layout(id), ParserFields(id), names)
                      /\ names \ {"skipped"} = Carried(id)
<1> DEFINE names == {"rssi", "snr"} \cup PayloadNames(id)
<1>1. ReadAs(Layout(id), ParserFields(id), names)
  BY ReadsPair, ReadsPayload, ReadsConcat, Zenon DEF Layout, ParserFields
<1>2. /\ "skipped" \notin Range(StateNames) /\ "skipped" \notin Range(ShortNames)
      /\ "skipped" \notin Range(QuaternionNames) /\ "skipped" \notin Range(ApogeeNames)
      /\ "skipped" \notin Range(MainNames)
  BY DEF Range, StateNames, ShortNames, QuaternionNames, ApogeeNames, MainNames
<1>3. names \ {"skipped"} = Carried(id)
  <2>1. CASE id = 3
    BY <1>2, <2>1 DEF PayloadNames, Carried, CommonNames, TestNames
  <2>2. CASE id = 4
    BY <1>2, <2>2 DEF PayloadNames, Carried, CommonNames
  <2>3. CASE id = 5
    BY <1>2, <2>3 DEF PayloadNames, Carried, CommonNames
  <2> QED
    BY <2>1, <2>2, <2>3 DEF Ids
<1> QED
  BY <1>1, <1>3

\* A field is read at the position where a field of its name was written.
LEMMA PositionOf ==
    ASSUME NEW id \in Ids
    PROVE  /\ DOMAIN Position[id]
                  = Carried(id) \ (IF id = 4 THEN {"flight_state"} ELSE {})
           /\ \A n \in DOMAIN Position[id] :
                 /\ Position[id][n] \in DOMAIN Layout(id)
                 /\ Layout(id)[Position[id][n]][2] = n
<1> DEFINE f == ParserFields(id)
           w == Layout(id)
           read == {i \in DOMAIN f :
                        /\ i <= Len(w)
                        /\ \A j \in 1..i : w[j][1] = f[j][1]
                        /\ f[i][2] # "skipped"
                        /\ id # 4 \/ f[i][2] # "flight_state"}
           place(n) == CHOOSE i \in read : f[i][2] = n
<1>1. Position[id] = [n \in {f[i][2] : i \in read} |-> place(n)]
  BY Zenon DEF Position
<1>2. PICK names : ReadAs(w, f, names) /\ names \ {"skipped"} = Carried(id)
  BY ReadsPacket
<1>3. /\ Reads(w, f) /\ FieldNames(f) = names
  BY <1>2, Zenon DEF ReadAs
<1>4. /\ Len(w) = Len(f) /\ Len(f) \in Nat
      /\ DOMAIN f = 1..Len(f) /\ DOMAIN w = 1..Len(f)
      /\ \A i \in 1..Len(f) : Fits(w[i], f[i])
  BY <1>3, SeqDomain, Zenon DEF Reads
<1> HIDE DEF f, w
<1>5. \A i : i \in read <=> /\ i \in DOMAIN f /\ f[i][2] # "skipped"
                            /\ id # 4 \/ f[i][2] # "flight_state"
  <2> SUFFICES ASSUME NEW i \in DOMAIN f
               PROVE  i <= Len(w) /\ \A j \in 1..i : w[j][1] = f[j][1]
    BY Zenon
  <2>1. i \in 1..Len(f)
    BY <1>4, Zenon
  <2>2. i <= Len(f) /\ \A j \in 1..i : j \in 1..Len(f)
    BY <1>4, <2>1
  <2> QED
    BY <1>4, <2>2, Zenon DEF Fits
<1> HIDE DEF read
<1>6. {f[i][2] : i \in read} = Carried(id) \ (IF id = 4 THEN {"flight_state"} ELSE {})
  <2>1. \A n : n \in {f[i][2] : i \in read}
                 <=> n \in names /\ n # "skipped" /\ (id # 4 \/ n # "flight_state")
    BY <1>3, <1>5, Zenon DEF FieldNames
  <2>2. \A n : n \in names /\ n # "skipped" <=> n \in Carried(id)
    BY <1>2, Zenon
  <2>3. \A n : n \in {f[i][2] : i \in read}
                 <=> n \in Carried(id) /\ (id # 4 \/ n # "flight_state")
    BY <2>1, <2>2, Zenon
  <2> DEFINE R == {f[i][2] : i \in read}
             C == Carried(id)
  <2> HIDE DEF R, C
  <2>4. \A n : n \in R <=> n \in C /\ (id # 4 \/ n # "flight_state")
    BY <2>3, Zenon DEF R, C
  <2>5. R = C \ (IF id = 4 THEN {"flight_state"} ELSE {})
    BY <2>4
  <2> QED
    BY <2>5, Zenon DEF R, C
<1>7. ASSUME NEW n \in {f[i][2] : i \in read}
      PROVE  place(n) \in DOMAIN w /\ w[place(n)][2] = n
  <2>1. place(n) \in read /\ f[place(n)][2] = n
    BY Zenon
  <2> HIDE DEF place
  <2>2. place(n) \in DOMAIN f /\ f[place(n)][2] # "skipped"
    BY <1>5, <2>1, Zenon
  <2> QED
    BY <1>4, <2>1, <2>2, Zenon DEF Fits
<1> HIDE DEF place
<1>8. DOMAIN Position[id] = {f[i][2] : i \in read}
  BY <1>1, Zenon
<1>9. \A n \in DOMAIN Position[id] : /\ Position[id][n] \in DOMAIN w
                                     /\ w[Position[id][n]][2] = n
  BY <1>1, <1>7, <1>8, Zenon
<1> QED
  BY <1>6, <1>8, <1>9, Zenon DEF w

\* Arguments of a packet: those of its kind, the broadcast flag a flag and the
\* signal quality two numbers.
IsArguments(id, arguments) ==
    /\ DOMAIN arguments = Carried(id)
    /\ id = 3 => arguments["broadcast"] \in BOOLEAN
    /\ arguments["rssi"] \in Int /\ arguments["snr"] \in Int

LEMMA CarriedFacts ==
    ASSUME NEW id \in Ids
    PROVE  /\ "fixed" \notin Carried(id) /\ "dummy" \notin Carried(id)
           /\ "broadcast" \in Carried(id) <=> id = 3
           /\ "rssi" \in Carried(id) /\ "snr" \in Carried(id)
<1> DEFINE Others == {"fixed", "dummy", "broadcast"}
<1>1. /\ \A n \in Others : n \notin Range(StateNames)
      /\ \A n \in Others : n \notin Range(ShortNames)
      /\ \A n \in Others : n \notin Range(QuaternionNames)
      /\ \A n \in Others : n \notin Range(ApogeeNames)
      /\ \A n \in Others : n \notin Range(MainNames)
  BY DEF Range, StateNames, ShortNames, QuaternionNames, ApogeeNames, MainNames
<1>2. CASE id = 3
  BY <1>1, <1>2 DEF Carried, CommonNames, TestNames
<1>3. CASE id = 4
  BY <1>1, <1>3 DEF Carried, CommonNames
<1>4. CASE id = 5
  BY <1>1, <1>4 DEF Carried, CommonNames
<1> QED
  BY <1>2, <1>3, <1>4 DEF Ids

\* What is parsed of a packet says what it was made of, the signal quality as
\* it was written.
SaysAll(name, member, argument) ==
    IF name \in {"rssi", "snr"} THEN member = argument
    ELSE SaysOf(name, member, argument)

ParsedAs(id, wire, arguments) ==
    /\ DOMAIN Parsed(id, wire) = Carried(id) \ (IF id = 4 THEN {"flight_state"} ELSE {})
    /\ \A n \in DOMAIN Parsed(id, wire) : SaysAll(n, Parsed(id, wire)[n], arguments[n])

\* No name is in two groups.
Grouped(n) ==
    /\ n \in Range(ShortNames) =>
          n \notin Range(QuaternionNames) \cup {"flight_state", "broadcast", "rssi", "snr"}
    /\ n \in Range(QuaternionNames) =>
          n \notin Range(ShortNames) \cup {"flight_state", "broadcast", "rssi", "snr"}

LEMMA Groups == \A n : Grouped(n)
  BY DEF Grouped, Range, ShortNames, QuaternionNames

ShortGroup == {"accel_low_x", "accel_low_y", "accel_low_z", "accel_high_x",
               "accel_high_y", "accel_high_z", "gyro_x", "gyro_y", "gyro_z"}

LEMMA ShortGroups == Range(ShortNames) = ShortGroup
  BY DEF Range, ShortNames, ShortGroup

\* What a short integer is divided by undoes what it was multiplied by, but for
\* the factor of two of the low range.
LEMMA Scales ==
    ASSUME NEW n \in Range(ShortNames), NEW value \in Int
    PROVE  IsTimes(<<value, UnitsRead(n)>>,
                   IF n \in {"accel_low_x", "accel_low_y", "accel_low_z"} THEN 2 ELSE 1,
                   <<value, UnitsSent(n)>>)
<1>1. /\ <<value, UnitsRead(n)>>[1] = value /\ <<value, UnitsRead(n)>>[2] = UnitsRead(n)
      /\ <<value, UnitsSent(n)>>[1] = value /\ <<value, UnitsSent(n)>>[2] = UnitsSent(n)
  OBVIOUS
<1>2. CASE n \in {"accel_low_x", "accel_low_y"}
  <2>1. UnitsRead(n) = 1024 /\ UnitsSent(n) = 2048
    BY <1>2 DEF UnitsRead, UnitsSent
  <2> QED
    BY <1>2, <2>1 DEF IsTimes
<1>3. CASE n = "accel_low_z"
  <2>1. UnitsRead(n) = -1024 /\ UnitsSent(n) = -2048
    BY <1>3 DEF UnitsRead, UnitsSent
  <2> QED
    BY <1>3, <2>1 DEF IsTimes
<1>4. CASE n \in {"accel_high_x", "accel_high_y"}
  <2>1. UnitsRead(n) = -1024 /\ UnitsSent(n) = -1024
    BY <1>4 DEF UnitsRead, UnitsSent
  <2> QED
    BY <1>4, <2>1 DEF IsTimes
<1>5. CASE n = "accel_high_z"
  <2>1. UnitsRead(n) = 1024 /\ UnitsSent(n) = 1024
    BY <1>5 DEF UnitsRead, UnitsSent
  <2> QED
    BY <1>5, <2>1 DEF IsTimes
<1>6. CASE n \in {"gyro_x", "gyro_y", "gyro_z"}
  <2>1. UnitsRead(n) = 1 /\ UnitsSent(n) = 1
    BY <1>6 DEF UnitsRead, UnitsSent
  <2> QED
    BY <1>6, <2>1 DEF IsTimes
<1> QED
  BY <1>2, <1>3, <1>4, <1>5, <1>6, ShortGroups DEF ShortGroup

\* Encoding, reading and meaning of a field, by its group.
Plain(n) == /\ n \notin Range(ShortNames) /\ n \notin Range(QuaternionNames)
            /\ n # "flight_state" /\ n # "broadcast"

LEMMA EncodedBroadcast ==
    ASSUME NEW arguments, NEW n, n # "fixed", n # "dummy", n = "broadcast",
           n \notin Range(QuaternionNames)
    PROVE  Encoded(arguments, n) = IF arguments[n] THEN 170 ELSE 0
  BY SMT DEF Encoded

LEMMA EncodedQuaternion ==
    ASSUME NEW arguments, NEW n, n # "fixed", n # "dummy", n # "broadcast",
           n \in Range(QuaternionNames)
    PROVE  Encoded(arguments, n) = <<arguments[n], QuaternionUnits>>
  BY SMT DEF Encoded

LEMMA EncodedAsIs ==
    ASSUME NEW arguments, NEW n, n # "fixed", n # "dummy", n # "broadcast",
           n \notin Range(QuaternionNames)
    PROVE  Encoded(arguments, n) = arguments[n]
  BY SMT DEF Encoded

LEMMA MemberBroadcast ==
    ASSUME NEW n, NEW value, n = "broadcast", n \notin Range(ShortNames)
    PROVE  Member(n, value) = (value = 170)
  BY SMT DEF Member

LEMMA MemberState ==
    ASSUME NEW n, NEW value, n = "flight_state", n \notin Range(ShortNames)
    PROVE  Member(n, value) = FlightStateNames[value + 1]
  BY SMT DEF Member

LEMMA MemberShort ==
    ASSUME NEW n, NEW value, n \in Range(ShortNames), n # "broadcast", n # "flight_state"
    PROVE  Member(n, value) = <<value, UnitsRead(n)>>
  BY SMT DEF Member

LEMMA MemberAsIs ==
    ASSUME NEW n, NEW value, n \notin Range(ShortNames), n # "broadcast", n # "flight_state"
    PROVE  Member(n, value) = value
  BY SMT DEF Member

LEMMA SaysOfQuaternion ==
    ASSUME NEW n, NEW member, NEW argument, n \notin {"rssi", "snr"},
           n \in Range(QuaternionNames), n \notin Range(ShortNames), n # "flight_state"
    PROVE  SaysOf(n, member, argument) <=> member = <<argument, QuaternionUnits>>
  BY SMT DEF SaysOf

LEMMA SaysOfState ==
    ASSUME NEW n, NEW member, NEW argument, n \notin {"rssi", "snr"}, n = "flight_state",
           n \notin Range(ShortNames), n \notin Range(QuaternionNames)
    PROVE  SaysOf(n, member, argument)
               <=> member = FlightStateNames[IF argument = 7 THEN 7 ELSE argument + 1]
  BY SMT DEF SaysOf

LEMMA SaysOfPlain ==
    ASSUME NEW n, NEW member, NEW argument, n \notin {"rssi", "snr"}, n # "flight_state",
           n \notin Range(ShortNames), n \notin Range(QuaternionNames)
    PROVE  SaysOf(n, member, argument) <=> member = argument
  BY SMT DEF SaysOf

LEMMA SaysOfShort ==
    ASSUME NEW n \in Range(ShortNames), NEW member, NEW argument,
           n \notin Range(QuaternionNames), n # "flight_state", n \notin {"rssi", "snr"}
    PROVE  SaysOf(n, member, argument) <=>
               IsTimes(member,
                       IF n \in {"accel_low_x", "accel_low_y", "accel_low_z"} THEN 2 ELSE 1,
                       <<argument, UnitsSent(n)>>)
  BY SMT DEF SaysOf

\* One field, encoded and read.
LEMMA SaidOfField ==
    ASSUME NEW arguments, NEW n, n # "fixed", n # "dummy",
           n = "broadcast" => arguments[n] \in BOOLEAN,
           n \in Range(ShortNames) => arguments[n] \in Int
    PROVE  SaysAll(n, Member(n, Encoded(arguments, n)), arguments[n])
<1> DEFINE value == arguments[n]
<1>0. Grouped(n)
  BY Groups
<1>1. CASE n = "broadcast"
  <2>1. value \in BOOLEAN /\ n \notin Range(ShortNames) /\ n \notin Range(QuaternionNames)
    BY <1>0, <1>1, Zenon DEF Grouped
  <2>2. (Encoded(arguments, n) = 170) <=> value
    <3>1. Encoded(arguments, n) = IF value THEN 170 ELSE 0
      BY <1>1, <2>1, EncodedBroadcast, Zenon
    <3> QED
      BY <3>1
  <2>3. Member(n, Encoded(arguments, n)) = (Encoded(arguments, n) = 170)
    BY <1>1, <2>1, MemberBroadcast, Zenon
  <2>4. Member(n, Encoded(arguments, n)) = value
    BY <2>1, <2>2, <2>3, Zenon
  <2>6. n # "flight_state" /\ n \notin {"rssi", "snr"}
    BY <1>1
  <2> QED
    BY <2>1, <2>4, <2>6, SaysOfPlain, Zenon DEF SaysAll
<1>2. CASE n \in Range(ShortNames)
  <2>1. n # "broadcast" /\ n # "flight_state" /\ n \notin {"rssi", "snr"}
        /\ n \notin Range(QuaternionNames)
    BY <1>0, <1>2, Zenon DEF Grouped
  <2>2. Encoded(arguments, n) = value
    BY <2>1, EncodedAsIs, Zenon
  <2>3. Member(n, value) = <<value, UnitsRead(n)>>
    BY <1>2, <2>1, MemberShort, Zenon
  <2>4. IsTimes(<<value, UnitsRead(n)>>,
                IF n \in {"accel_low_x", "accel_low_y", "accel_low_z"} THEN 2 ELSE 1,
                <<value, UnitsSent(n)>>)
    BY <1>2, Scales, Zenon
  <2>5. SaysOf(n, <<value, UnitsRead(n)>>, value)
    BY <1>2, <2>1, <2>4, SaysOfShort, Zenon
  <2> QED
    BY <2>1, <2>2, <2>3, <2>5, Zenon DEF SaysAll
<1>3. CASE n \in Range(QuaternionNames)
  <2>1. n # "broadcast" /\ n # "flight_state" /\ n \notin {"rssi", "snr"}
        /\ n \notin Range(ShortNames)
    BY <1>0, <1>3, Zenon DEF Grouped
  <2>2. Encoded(arguments, n) = <<value, QuaternionUnits>>
    BY <1>3, <2>1, EncodedQuaternion, Zenon
  <2>3. Member(n, Encoded(arguments, n)) = Encoded(arguments, n)
    BY <2>1, MemberAsIs, Zenon
  <2> QED
    BY <1>3, <2>1, <2>2, <2>3, SaysOfQuaternion, Zenon DEF SaysAll
<1>4. CASE n = "flight_state"
  <2>1. n # "broadcast" /\ n \notin {"rssi", "snr"}
    BY <1>4
  <2>2. n \notin Range(ShortNames) /\ n \notin Range(QuaternionNames)
    BY <1>0, <1>4, Zenon DEF Grouped
  <2>3. Encoded(arguments, n) = value
    BY <2>1, <2>2, EncodedAsIs, Zenon
  <2>4. Member(n, value) = FlightStateNames[value + 1]
    BY <1>4, <2>2, MemberState, Zenon
  <2>5. FlightStateNames[value + 1] = FlightStateNames[IF value = 7 THEN 7 ELSE value + 1]
    BY DEF FlightStateNames
  <2> QED
    BY <1>4, <2>1, <2>2, <2>3, <2>4, <2>5, SaysOfState, Zenon DEF SaysAll
<1>5. CASE Plain(n)
  <2>1. Encoded(arguments, n) = value
    BY <1>5, EncodedAsIs, Zenon DEF Plain
  <2>2. Member(n, value) = value
    BY <1>5, MemberAsIs, Zenon DEF Plain
  <2> QED
    BY <1>5, <2>1, <2>2, SaysOfPlain, Zenon DEF SaysAll, Plain
<1> QED
  BY <1>1, <1>2, <1>3, <1>4, <1>5, Zenon DEF Plain

LEMMA ParsedArguments ==
    ASSUME NEW id \in Ids, NEW arguments, IsArguments(id, arguments), Encodable(arguments)
    PROVE  ParsedAs(id, Wire(id, arguments), arguments)
<1> DEFINE wire == Wire(id, arguments)
           place(n) == Position[id][n]
<1>1. wire = [i \in DOMAIN Layout(id) |-> Encoded(arguments, Layout(id)[i][2])]
  BY Zenon DEF Wire, Layouts
<1> HIDE DEF wire
<1>2. Parsed(id, wire) = [n \in DOMAIN Position[id] |-> Member(n, wire[place(n)])]
  BY Zenon DEF Parsed
<1>3. ASSUME NEW n \in DOMAIN Position[id]
      PROVE  SaysAll(n, Parsed(id, wire)[n], arguments[n])
  <2>1. place(n) \in DOMAIN Layout(id) /\ Layout(id)[place(n)][2] = n
    BY PositionOf, Zenon
  <2>2. n \in Carried(id) /\ n # "fixed" /\ n # "dummy"
    <3>1. n \in Carried(id)
      BY PositionOf, Zenon
    <3>2. "fixed" \notin Carried(id) /\ "dummy" \notin Carried(id)
      BY CarriedFacts, Zenon
    <3> QED
      BY <3>1, <3>2, Zenon
  <2>3. Parsed(id, wire)[n] = Member(n, wire[place(n)])
    BY <1>2, Zenon
  <2> HIDE DEF place
  <2>4. wire[place(n)] = Encoded(arguments, n)
    BY <1>1, <2>1, Zenon
  <2>5. n = "broadcast" => arguments[n] \in BOOLEAN
    BY <2>2, CarriedFacts, Zenon DEF IsArguments
  <2>6. n \in Range(ShortNames) => arguments[n] \in Int
    <3>1. n \in Range(ShortNames) => arguments[n] \in Shorts
      BY <2>2, Zenon DEF IsArguments, Encodable
    <3>2. \A x \in Shorts : x \in Int
      BY DEF Shorts
    <3> QED
      BY <3>1, <3>2, Zenon
  <2> QED
    BY <2>2, <2>3, <2>4, <2>5, <2>6, SaidOfField, Zenon
<1>4. DOMAIN Parsed(id, wire) = DOMAIN Position[id]
  BY <1>2, Zenon
<1> QED
  BY <1>3, <1>4, PositionOf, Zenon DEF ParsedAs, wire

\* The text form rounds the signal quality, and nothing else.
LEMMA RoundedByOne ==
    ASSUME NEW value \in Int
    PROVE  Rounded(value) \in Int /\ Rounded(value) - value \in -1..1
  BY DEF Rounded

RoundedAs(id, wire, arguments) ==
    /\ DOMAIN Parsed(id, wire) = Carried(id) \ (IF id = 4 THEN {"flight_state"} ELSE {})
    /\ \A n \in DOMAIN Parsed(id, wire) :
          IF n \in {"rssi", "snr"} THEN Parsed(id, wire)[n] - arguments[n] \in -1..1
          ELSE SaysOf(n, Parsed(id, wire)[n], arguments[n])

LEMMA ParsedText ==
    ASSUME NEW id \in Ids, NEW arguments, IsArguments(id, arguments), Encodable(arguments)
    PROVE  RoundedAs(id, WireUart(id, arguments), arguments)
<1> DEFINE text == [n \in DOMAIN arguments |->
                       IF n \in {"rssi", "snr"} THEN Rounded(arguments[n])
                       ELSE arguments[n]]
           got == Parsed(id, Wire(id, text))
<1>1. WireUart(id, arguments) = Wire(id, text)
  BY Zenon DEF WireUart
<1>2. /\ DOMAIN arguments = Carried(id) /\ (id = 3 => arguments["broadcast"] \in BOOLEAN)
      /\ arguments["rssi"] \in Int /\ arguments["snr"] \in Int
      /\ "rssi" \in Carried(id) /\ "snr" \in Carried(id)
      /\ "broadcast" \in Carried(id) <=> id = 3
  BY CarriedFacts, Zenon DEF IsArguments
<1>3. /\ DOMAIN text = Carried(id)
      /\ text["rssi"] = Rounded(arguments["rssi"])
      /\ text["snr"] = Rounded(arguments["snr"])
      /\ \A n \in Carried(id) \ {"rssi", "snr"} : text[n] = arguments[n]
  BY <1>2, Zenon
<1> HIDE DEF text
<1>4. IsArguments(id, text)
  <2>1. id = 3 => "broadcast" \in Carried(id) \ {"rssi", "snr"}
    BY <1>2
  <2>2. text["rssi"] \in Int /\ text["snr"] \in Int
    BY <1>2, <1>3, RoundedByOne, Zenon
  <2> QED
    BY <1>2, <1>3, <2>1, <2>2, Zenon DEF IsArguments
<1>7. Encodable(text)
  <2>1. "flight_state" \in Carried(id) \ {"rssi", "snr"}
    BY DEF Carried, CommonNames
  <2>2. \A n \in Range(ShortNames) : n \notin {"rssi", "snr"}
    BY Groups, Zenon DEF Grouped
  <2> QED
    BY <1>2, <1>3, <2>1, <2>2, Zenon DEF Encodable
<1>5. /\ DOMAIN got = Carried(id) \ (IF id = 4 THEN {"flight_state"} ELSE {})
      /\ \A n \in DOMAIN got : SaysAll(n, got[n], text[n])
  <2>1. ParsedAs(id, Wire(id, text), text)
    BY <1>4, <1>7, ParsedArguments, Zenon
  <2> QED
    BY <2>1, Zenon DEF ParsedAs
<1> HIDE DEF got
<1>6. ASSUME NEW n \in DOMAIN got
      PROVE  IF n \in {"rssi", "snr"} THEN got[n] - arguments[n] \in -1..1
             ELSE SaysOf(n, got[n], arguments[n])
  <2>1. n \in Carried(id)
    BY <1>5, Zenon
  <2>2. CASE n = "rssi" \/ n = "snr"
    <3>1. got[n] = Rounded(arguments[n]) /\ arguments[n] \in Int
      BY <1>2, <1>3, <1>5, <2>2, Zenon DEF SaysAll
    <3> QED
      BY <2>2, <3>1, RoundedByOne, Zenon
  <2>3. CASE n \notin {"rssi", "snr"}
    <3>1. text[n] = arguments[n]
      BY <1>3, <2>1, <2>3, Zenon
    <3>2. SaysOf(n, got[n], text[n])
      BY <1>5, <2>3, Zenon DEF SaysAll
    <3> QED
      BY <2>3, <3>1, <3>2, Zenon
  <2> QED
    BY <2>2, <2>3, Zenon
<1> QED
  BY <1>1, <1>5, <1>6, Zenon DEF RoundedAs, got

-----------------------------------------------------------------------------
\* Every packet that waits or is on its way has the arguments of its kind, of
\* which the encoders have refused none, whatever bits were flipped in them.

IsPacket(p) ==
    /\ p = [id |-> p.id, arguments |-> p.arguments]
    /\ p.id \in Ids /\ IsArguments(p.id, p.arguments)

Sendable(p) == IsPacket(p) /\ Encodable(p.arguments)

PacketsInv == /\ \A i \in DOMAIN batch : Sendable(batch[i])
              /\ \A i \in DOMAIN device : Sendable(device[i])

\* In which of the groups of names the names are that the argument is about.
LEMMA Apart ==
    /\ \A n \in {"rssi", "snr", "broadcast"} :
          /\ n \notin Range(StateNames) /\ n \notin Range(ShortNames)
          /\ n # "flight_state" /\ n # "nav_status"
    /\ \A n \in {"rssi", "snr"} : n \notin TestNames \cup {"broadcast"}
<1>1. \A n \in {"rssi", "snr", "broadcast"} : n \notin Range(StateNames)
  BY DEF Range, StateNames
<1>2. \A n \in {"rssi", "snr", "broadcast"} : n \notin Range(ShortNames)
  BY DEF Range, ShortNames
<1>3. \A n \in {"rssi", "snr"} : n \notin Range(ApogeeNames) /\ n \notin Range(MainNames)
  BY DEF Range, ApogeeNames, MainNames
<1>4. \A n \in {"rssi", "snr", "broadcast"} : n # "flight_state" /\ n # "nav_status"
  OBVIOUS
<1>5. \A n \in {"rssi", "snr"} : n # "broadcast"
  OBVIOUS
<1> QED
  BY <1>1, <1>2, <1>3, <1>4, <1>5, Zenon DEF TestNames

LEMMA SampledArguments ==
    ASSUME NEW id \in Ids, NEW phase \in Int
    PROVE  IsArguments(id, Arguments(id, phase, Experimental))
<1> DEFINE a == Arguments(id, phase, Experimental)
<1>1. /\ DOMAIN a = Carried(id)
      /\ \A n \in Carried(id) : a[n] = Sampled(n, phase, Experimental)
  BY Zenon DEF Arguments
<1> HIDE DEF a
<1>2. /\ Sampled("rssi", phase, Experimental) = phase
      /\ Sampled("snr", phase, Experimental) = phase
  BY Apart, Zenon DEF Sampled
<1>3. Sampled("broadcast", phase, Experimental) \in BOOLEAN
  <2>1. Sampled("broadcast", phase, Experimental) = (Experimental /\ phase % 2 = 1)
    BY Apart, Zenon DEF Sampled
  <2> QED
    BY <2>1, Zenon
<1> QED
  BY <1>1, <1>2, <1>3, CarriedFacts, Zenon DEF IsArguments, a

LEMMA FlippedArguments ==
    ASSUME NEW id \in Ids, NEW arguments, IsArguments(id, arguments),
           NEW name \in DOMAIN arguments,
           NEW value \in Corrupted(name, arguments[name])
    PROVE  IsArguments(id, [arguments EXCEPT ![name] = value])
<1> DEFINE a == [arguments EXCEPT ![name] = value]
<1>1. /\ DOMAIN a = DOMAIN arguments /\ a[name] = value
      /\ \A n \in DOMAIN arguments : n # name => a[n] = arguments[n]
  BY Zenon
<1> HIDE DEF a
<1>2. name = "broadcast" => value \in BOOLEAN
  <2>1. name = "broadcast" =>
           /\ name \in Range(StateNames) \cup TestNames \cup {"broadcast"}
           /\ name \notin Range(ShortNames) \cup {"flight_state"}
    BY Apart, Zenon
  <2> QED
    BY <2>1, Zenon DEF Corrupted
<1>3. name \in {"rssi", "snr"} => value \in {arguments[name], Steps}
  <2>1. name \in {"rssi", "snr"} =>
           /\ name \notin Range(StateNames) \cup TestNames \cup {"broadcast"}
           /\ name \notin Range(ShortNames) \cup {"flight_state"}
           /\ name # "nav_status"
    BY Apart, Zenon
  <2> QED
    BY <2>1, Zenon DEF Corrupted
<1>4. Steps \in Int
  BY StepsAssumption
<1>5. DOMAIN a = Carried(id)
  BY <1>1, Zenon DEF IsArguments
<1>6. id = 3 => a["broadcast"] \in BOOLEAN
  BY <1>1, <1>2, CarriedFacts, Zenon DEF IsArguments
<1>7. a["rssi"] \in Int
  BY <1>1, <1>3, <1>4, CarriedFacts, Zenon DEF IsArguments
<1>8. a["snr"] \in Int
  BY <1>1, <1>3, <1>4, CarriedFacts, Zenon DEF IsArguments
<1> QED
  BY <1>5, <1>6, <1>7, <1>8, Zenon DEF IsArguments, a

LEMMA RoundPackets ==
    ASSUME NEW phase \in Phases, NEW packets \in Flipped(Packets[phase])
    PROVE  /\ DOMAIN packets = 1..3
           /\ \A i \in DOMAIN packets : IsPacket(packets[i])
<1> DEFINE P == Packets[phase]
<1>1. /\ DOMAIN P = 1..3
      /\ \A i \in 1..3 : P[i] = [id |-> i + 2,
                                 arguments |-> Arguments(i + 2, phase, Experimental)]
  BY Zenon DEF Packets
<1>2. phase \in Int
  BY PhasesAssumption, StepsAssumption
<1>3. \A i \in 1..3 : i + 2 \in Ids
  BY DEF Ids
<1> HIDE DEF P
<1>4. ASSUME NEW i \in 1..3
      PROVE  /\ IsPacket(P[i])
             /\ P[i].id \in Ids /\ IsArguments(P[i].id, P[i].arguments)
  <2>1. P[i].id = i + 2 /\ P[i].arguments = Arguments(i + 2, phase, Experimental)
    BY <1>1
  <2>2. IsArguments(i + 2, Arguments(i + 2, phase, Experimental))
    BY <1>2, <1>3, SampledArguments, Zenon
  <2> QED
    BY <1>1, <1>3, <2>1, <2>2, Zenon DEF IsPacket
<1>5. CASE packets = P
  BY <1>1, <1>4, <1>5, Zenon
<1>6. ASSUME NEW i \in 1..3, NEW name \in DOMAIN P[i].arguments,
             NEW value \in Corrupted(name, P[i].arguments[name]),
             packets = [P EXCEPT ![i].arguments[name] = value]
      PROVE  /\ DOMAIN packets = 1..3
             /\ \A j \in DOMAIN packets : IsPacket(packets[j])
  <2> DEFINE a == [P[i].arguments EXCEPT ![name] = value]
             p == [P[i] EXCEPT !.arguments = a]
  <2>1. IsArguments(P[i].id, a)
    BY <1>4, FlippedArguments, Zenon
  <2>2. packets = [P EXCEPT ![i] = p]
    BY <1>6, Zenon
  <2> HIDE DEF a
  <2>3. p.id = P[i].id /\ p.arguments = a /\ p = [id |-> P[i].id, arguments |-> a]
    <3>1. P[i] = [id |-> P[i].id, arguments |-> P[i].arguments]
      BY <1>4, Zenon DEF IsPacket
    <3> QED
      BY <3>1
  <2> HIDE DEF p
  <2>4. IsPacket(p)
    BY <1>4, <2>1, <2>3, Zenon DEF IsPacket
  <2> QED
    BY <1>1, <1>4, <2>2, <2>4, Zenon
<1>7. packets = P \/ \E i \in 1..3 : \E name \in DOMAIN P[i].arguments :
                        \E value \in Corrupted(name, P[i].arguments[name]) :
                           packets = [P EXCEPT ![i].arguments[name] = value]
  <2>1. ASSUME packets # P
        PROVE  \E i \in 1..3 : \E name \in DOMAIN P[i].arguments : packets \in Flips(P, i, name)
    <3> DEFINE FlipsOf(i) == UNION {Flips(P, i, name) :
                                      name \in CorruptFields \cap DOMAIN P[i].arguments}
    <3>1. packets \in Flipped(P)
      BY Zenon DEF P
    <3>2. packets \in UNION {FlipsOf(i) : i \in 1..3}
      BY <2>1, <3>1, Zenon DEF Flipped
    <3>3. PICK i \in 1..3 : packets \in FlipsOf(i)
      BY <3>2, Zenon
    <3> QED
      BY <3>3, Zenon
  <2> QED
    BY <2>1, Zenon DEF Flips
<1> QED
  BY <1>5, <1>6, <1>7, Zenon

LEMMA PacketsStep == IInv /\ PacketsInv /\ [Next]_vars => PacketsInv'
<1> SUFFICES ASSUME IInv, PacketsInv, [Next]_vars PROVE PacketsInv'
  OBVIOUS
<1>1. UNCHANGED <<batch, device>> => PacketsInv'
  BY DEF PacketsInv
<1>2. IsSeq(batch) /\ IsSeq(device) /\ (main = "write" => batch # <<>>)
  BY Zenon DEF IInv, MainTyped
<1>3. batch # <<>> => \A i \in DOMAIN Tail(batch) : Sendable(Tail(batch)[i])
  <2> SUFFICES ASSUME batch # <<>>, NEW i \in DOMAIN Tail(batch)
               PROVE  Sendable(Tail(batch)[i])
    BY Zenon
  <2>1. i + 1 \in DOMAIN batch /\ Tail(batch)[i] = batch[i + 1]
    BY <1>2 DEF IsSeq
  <2> QED
    BY <2>1, Zenon DEF PacketsInv
<1>4. CASE MakePackets
  <2>1. device' = device
    BY <1>4, Zenon DEF MakePackets
  <2>2. \/ batch' = batch
        \/ \E phase \in Phases : /\ batch' \in Flipped(Packets[phase])
                                 /\ \A i \in 1..3 : Encodable(batch'[i].arguments)
    BY <1>4, Zenon DEF MakePackets
  <2>3. \A i \in DOMAIN batch' : Sendable(batch'[i])
    <3>1. ASSUME NEW phase \in Phases, batch' \in Flipped(Packets[phase]),
                 \A i \in 1..3 : Encodable(batch'[i].arguments)
          PROVE  \A i \in DOMAIN batch' : Sendable(batch'[i])
      <4>1. DOMAIN batch' = 1..3 /\ \A i \in DOMAIN batch' : IsPacket(batch'[i])
        BY <3>1, RoundPackets, Zenon
      <4> QED
        BY <3>1, <4>1, Zenon DEF Sendable
    <3> QED
      BY <2>2, <3>1, Zenon DEF PacketsInv
  <2> QED
    BY <2>1, <2>3, Zenon DEF PacketsInv
<1>5. CASE LookForLock \/ LosePacket
  <2>1. device' = device /\ batch # <<>> /\ (batch' = batch \/ batch' = Tail(batch))
    BY <1>5, Zenon DEF LookForLock, LosePacket
  <2> QED
    BY <1>3, <2>1, Zenon DEF PacketsInv
<1>6. CASE WritePacket
  <2>1. batch # <<>> /\ batch' = Tail(batch) /\ device' = Append(device, Head(batch))
    BY <1>2, <1>6, Zenon DEF WritePacket
  <2>2. 1 \in DOMAIN batch /\ Head(batch) = batch[1]
    BY <1>2, <2>1 DEF IsSeq
  <2>3. Sendable(Head(batch))
    BY <2>2, Zenon DEF PacketsInv
  <2>4. ASSUME NEW i \in DOMAIN device'
        PROVE  (i \in DOMAIN device /\ device'[i] = device[i]) \/ device'[i] = Head(batch)
    BY <1>2, <2>1 DEF IsSeq
  <2> QED
    BY <1>3, <2>1, <2>3, <2>4, Zenon DEF PacketsInv
<1>7. CASE WriteFails \/ Read
  <2>1. /\ batch' = batch \/ batch' = <<>>
        /\ device' = device \/ device' = <<>>
    BY <1>7, Zenon DEF WriteFails, Read
  <2>2. DOMAIN <<>> = {}
    OBVIOUS
  <2> QED
    BY <2>1, <2>2, Zenon DEF PacketsInv
<1>8. CASE EndRound \/ JoinServer \/ Exit \/ Server \/ UNCHANGED vars
           \/ \E c \in Clients : Serve(c)
  BY <1>1, <1>8, Zenon DEF EndRound, JoinServer, Exit, Server, Bind, BindFails, Publish,
     AcceptNone, CloseServer, JoinClients, Accept, Serve, TakeRow, SendRow, StopServing,
     avionics, vars
<1>9. CASE Listen \/ StopListening \/ Signal \/ \E c \in Clients : Connect(c) \/ Behave(c)
  BY <1>1, <1>9, Zenon DEF Listen, StopListening, Signal, Connect, Behave, avionics
<1> QED
  BY <1>4, <1>5, <1>6, <1>7, <1>8, <1>9, Zenon DEF Next, Main, World

\* What is said of the signal quality, in either form.
LEMMA SignalSays ==
    /\ \A n, m, a : (n \notin {"rssi", "snr"} /\ SaysAll(n, m, a)) => SaysOf(n, m, a)
    /\ \A n, m, a : (~Uart /\ n \in {"rssi", "snr"} /\ SaysAll(n, m, a)) => SaysOf(n, m, a)
    /\ \A n, m, a : (Uart /\ n \in {"rssi", "snr"} /\ m - a \in -1..1) => SaysOf(n, m, a)
<1>1. \A n \in {"rssi", "snr"} : /\ n \notin Range(ShortNames)
                                 /\ n \notin Range(QuaternionNames) /\ n # "flight_state"
  <2>1. \A n \in {"rssi", "snr"} : n # "flight_state"
    OBVIOUS
  <2> QED
    BY <2>1, Groups, Zenon DEF Grouped
<1>2. \A n, m, a : (n \notin {"rssi", "snr"} /\ SaysAll(n, m, a)) => SaysOf(n, m, a)
  BY Zenon DEF SaysAll
<1>3. ASSUME NEW n \in {"rssi", "snr"}, NEW m, NEW a
      PROVE  SaysOf(n, m, a) <=> IF Uart THEN m - a \in -1..1 ELSE m = a
  <2>1. n \notin Range(ShortNames) /\ n \notin Range(QuaternionNames) /\ n # "flight_state"
    BY <1>1
  <2> QED
    BY <2>1, SMT DEF SaysOf
<1> QED
  BY <1>2, <1>3, Zenon DEF SaysAll

\* Whatever was sampled and corrupted, what the middleware's parser makes of every
\* packet in the device says what the emulator put into it, in both forms, by the
\* scales of each: the low accelerations twice as large, the quaternions divided,
\* the last two flight states as one.
THEOREM ParsedAsSent == Spec => []ParsedIsSent
<1>1. Init => PacketsInv
  <2>1. DOMAIN <<>> = {}
    OBVIOUS
  <2> QED
    BY <2>1, Zenon DEF Init, PacketsInv
<1>2. PacketsInv => ParsedIsSent
  <2> SUFFICES ASSUME PacketsInv, NEW i \in DOMAIN device
               PROVE  LET id   == device[i].id
                          sent == device[i].arguments
                          got  == Parsed(id, IF Uart THEN WireUart(id, sent)
                                             ELSE Wire(id, sent))
                      IN  /\ DOMAIN got = DOMAIN sent
                                            \ (IF id = 4 THEN {"flight_state"} ELSE {})
                          /\ \A n \in DOMAIN got : SaysOf(n, got[n], sent[n])
    BY Zenon DEF ParsedIsSent
  <2> DEFINE id == device[i].id
             sent == device[i].arguments
  <2>1. /\ id \in Ids /\ IsArguments(id, sent) /\ DOMAIN sent = Carried(id)
        /\ Encodable(sent)
    BY Zenon DEF PacketsInv, Sendable, IsPacket, IsArguments
  <2>4. /\ \A n, m, a : (n \notin {"rssi", "snr"} /\ SaysAll(n, m, a)) => SaysOf(n, m, a)
        /\ \A n, m, a : (~Uart /\ n \in {"rssi", "snr"} /\ SaysAll(n, m, a)) => SaysOf(n, m, a)
        /\ \A n, m, a : (Uart /\ n \in {"rssi", "snr"} /\ m - a \in -1..1) => SaysOf(n, m, a)
    BY SignalSays, Zenon
  <2> HIDE DEF id, sent
  <2>2. CASE Uart
    <3>1. RoundedAs(id, WireUart(id, sent), sent)
      BY <2>1, ParsedText, Zenon
    <3> QED
      BY <2>1, <2>2, <2>4, <3>1, Zenon DEF RoundedAs, id, sent
  <2>3. CASE ~Uart
    <3>1. ParsedAs(id, Wire(id, sent), sent)
      BY <2>1, ParsedArguments, Zenon
    <3> QED
      BY <2>1, <2>3, <2>4, <3>1, Zenon DEF ParsedAs, id, sent
  <2> QED
    BY <2>2, <2>3, Zenon
<1> QED
  BY <1>1, <1>2, Inductive, PacketsStep, PTL DEF Spec
=============================================================================
