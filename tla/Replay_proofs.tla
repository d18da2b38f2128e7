---------------------------- MODULE Replay_proofs ---------------------------
(***************************************************************************)
(* Proofs about Replay: wherever the program is killed, half a flight is   *)
(* not played; after a signal nothing is written; and what is played is a  *)
(* flight at its own pace.  The last rests on the data being in order,     *)
(* which is shown of the three readers of FlightData: the sort of a        *)
(* mission, the merge of a Blue Raven's logs, and the thinning of a        *)
(* simulated flight.  What these compute by recursion over the rows is     *)
(* proved with sets of numbers and their least members.                    *)
(***************************************************************************)
EXTENDS Replay, FiniteSetTheorems, SequenceTheorems, WellFoundedInduction, TLAPS

\* What the cache directory holds at each step of its construction, and when
\* the process that builds it has died: milestones are begun only when the
\* table is whole. A table that was begun is not followed by milestones left
\* from an earlier process, for those went with the directory.
CacheInv ==
    /\ ~cache.dir => cache = NoCache
    /\ cache.json # "none" => cache.csv # "begun"
    /\ pc = "make"   => cache = NoCache
    /\ pc = "lock"   => cache = [NoCache EXCEPT !.dir = TRUE]
    /\ pc = "compute" => cache = [NoCache EXCEPT !.dir = TRUE, !.lock = TRUE]
    /\ pc = "export" => cache.dir /\ cache.json = "none"
    /\ pc = "note"   => cache.dir /\ cache.csv = "whole"
    /\ pc = "unlock" => cache.dir

Typed == cache \in [dir : BOOLEAN, lock : BOOLEAN,
                    csv : {"none", "begun", "whole"},
                    json : {"none", "begun", "whole"}]

Building == {"start", "look", "remove", "make", "lock", "compute", "export",
             "note", "unlock", "load"}

\* A program that is still building has loaded and written nothing.
NothingYet == pc \in Building => packets = <<>> /\ sent = <<>> /\ now = 0

\* Of the clock and the list nothing else is needed.
IInv == Typed /\ CacheInv /\ NothingYet /\ NeverPlaysHalf

LEMMA InitHolds == Init => IInv
<1> SUFFICES ASSUME Init PROVE IInv
  OBVIOUS
<1>1. Typed /\ CacheInv
  BY DEF Init, Typed, CacheInv, NoCache
<1>2. NothingYet /\ NeverPlaysHalf
  BY DEF Init, NothingYet, NeverPlaysHalf
<1> QED
  BY <1>1, <1>2 DEF IInv

\* The steps that build the cache.
LEMMA BuildKeeps == IInv /\ Build => IInv'
<1> SUFFICES ASSUME IInv, Build PROVE IInv'
  OBVIOUS
<1> USE DEF IInv, Stop, Die
<1>1. UNCHANGED player /\ UNCHANGED source /\ pc \in Building
  BY DEF Build, Look, RemoveFiles, MakeDirectory, MakeLock, Compute, ExportCsv,
         ExportJson, Unlock, world, Building
<1>2. NothingYet' /\ NeverPlaysHalf'
  BY <1>1 DEF NothingYet, NeverPlaysHalf, player
<1>3. CASE Look
  BY <1>3, <1>2 DEF Look, Typed, CacheInv, NoCache
<1>4. CASE RemoveFiles
  <2>1. CASE cache' = [cache EXCEPT !.lock = FALSE] /\ cache.lock
    <3>1. cache.dir
      BY <2>1 DEF CacheInv, NoCache
    <3>2. /\ Typed' /\ cache'.dir
          /\ cache'.csv = cache.csv /\ cache'.json = cache.json
      BY <2>1, <3>1 DEF Typed
    <3>3. pc' = "remove"
      BY <1>4, <3>2 DEF RemoveFiles
    <3> QED
      BY <1>2, <3>2, <3>3 DEF CacheInv
  <2>2. CASE cache' = [cache EXCEPT !.csv = "none"]
    BY <1>4, <2>2, <1>2 DEF RemoveFiles, Typed, CacheInv, NoCache
  <2>3. CASE cache' = [cache EXCEPT !.json = "none"]
    BY <1>4, <2>3, <1>2 DEF RemoveFiles, Typed, CacheInv, NoCache
  <2>4. CASE cache' = NoCache
    BY <1>4, <2>4, <1>2 DEF RemoveFiles, Typed, CacheInv, NoCache
  <2> QED
    BY <1>4, <2>1, <2>2, <2>3, <2>4 DEF RemoveFiles
<1>5. CASE MakeDirectory
  BY <1>5, <1>2 DEF MakeDirectory, Typed, CacheInv, NoCache
<1>6. CASE MakeLock
  BY <1>6, <1>2 DEF MakeLock, Typed, CacheInv, NoCache
<1>7. CASE Compute
  BY <1>7, <1>2 DEF Compute, Typed, CacheInv, NoCache
<1>8. CASE ExportCsv
  BY <1>8, <1>2 DEF ExportCsv, Typed, CacheInv, NoCache
<1>9. CASE ExportJson
  BY <1>9, <1>2 DEF ExportJson, Typed, CacheInv, NoCache
<1>10. CASE Unlock
  BY <1>10, <1>2 DEF Unlock, Typed, CacheInv, NoCache
<1> QED
  BY <1>3, <1>4, <1>5, <1>6, <1>7, <1>8, <1>9, <1>10 DEF Build

\* A step that leaves the cache alone keeps what is known of it, at a place
\* where nothing is built.
LEMMA CacheKept ==
    ASSUME Typed, CacheInv, UNCHANGED cache,
           pc' \notin {"make", "lock", "compute", "export", "note", "unlock"}
    PROVE  Typed' /\ CacheInv'
  BY DEF Typed, CacheInv

LEMMA StepKeeps == IInv /\ [Next]_vars => IInv'
<1> SUFFICES ASSUME IInv, [Next]_vars PROVE IInv'
  OBVIOUS
<1> USE DEF IInv
<1>1. CASE Build
  BY <1>1, BuildKeeps
<1>2. CASE Start
  <2>1. /\ UNCHANGED <<cache, source>> /\ pc = "start"
        /\ pc' \in {"died", "look", "next"}
        /\ pc' = "look" => UNCHANGED player
        /\ IsSimulated => UNCHANGED player
    BY <1>2 DEF Start, Play, Begin, Stop, Die, world
  <2>2. Typed' /\ CacheInv'
    BY <2>1, CacheKept
  <2>3. NothingYet' /\ NeverPlaysHalf'
    BY <2>1 DEF NothingYet, NeverPlaysHalf, Building, IsSimulated, player
  <2> QED
    BY <2>2, <2>3
<1>3. CASE Load
  <2>1. /\ UNCHANGED <<cache, source>> /\ pc = "load"
        /\ pc' \in {"died", "next"}
        /\ UNCHANGED player \/ (cache.json = "whole" /\ cache.csv # "none")
    BY <1>3 DEF Load, Play, Begin, Stop, Die, world
  <2>2. Typed' /\ CacheInv'
    BY <2>1, CacheKept
  <2>3. NothingYet'
    BY <2>1 DEF NothingYet, Building
  <2>4. NeverPlaysHalf'
    BY <2>1 DEF NeverPlaysHalf, IsSimulated, Complete, CacheInv, Typed, player
  <2> QED
    BY <2>2, <2>3, <2>4
<1>4. CASE Engage \/ Simulate
  <2>1. /\ UNCHANGED <<cache, source, packets>>
        /\ pc \in {"next", "wait", "send", "row"}
        /\ pc' \in {"next", "wait", "send", "row", "ended", "stopped", "died"}
    BY <1>4 DEF Engage, Simulate, Skip, Wait, Sleep, SendPacket, Handle, EndRound,
                SimulatorWait, SendRow, SimulatorEnds, Engine, Begin, Stop, Die,
                world, player
  <2>2. Typed' /\ CacheInv'
    BY <2>1, CacheKept
  <2>3. NothingYet' /\ NeverPlaysHalf'
    BY <2>1 DEF NothingYet, NeverPlaysHalf, Building, IsSimulated, Complete
  <2> QED
    BY <2>2, <2>3
<1>5. CASE Signal
  BY <1>5 DEF Signal, Typed, CacheInv, NothingYet, NeverPlaysHalf, IsSimulated, player
<1>6. CASE Kill
  <2>1. UNCHANGED <<cache, source, player>> /\ pc' = "killed"
    BY <1>6 DEF Kill, Stop, world
  <2>2. Typed' /\ CacheInv'
    BY <2>1, CacheKept
  <2>3. NothingYet' /\ NeverPlaysHalf'
    BY <2>1 DEF NothingYet, NeverPlaysHalf, Building, IsSimulated, player
  <2> QED
    BY <2>2, <2>3
<1>7. CASE Restart
  <2>1. /\ UNCHANGED <<cache, source>> /\ pc' = "start"
        /\ packets' = <<>> /\ sent' = <<>> /\ now' = 0
    BY <1>7 DEF Restart
  <2>2. Typed' /\ CacheInv'
    BY <2>1, CacheKept
  <2>3. NothingYet' /\ NeverPlaysHalf'
    BY <2>1 DEF NothingYet, NeverPlaysHalf
  <2> QED
    BY <2>2, <2>3
<1>8. CASE UNCHANGED vars
  BY <1>8 DEF vars, Typed, CacheInv, NothingYet, NeverPlaysHalf, IsSimulated
<1> QED
  BY <1>1, <1>2, <1>3, <1>4, <1>5, <1>6, <1>7, <1>8 DEF Next

LEMMA Inductive == Spec => []IInv
  BY InitHolds, StepKeeps, PTL DEF Spec

\* The lock, and the order in which the files are removed and written, keep
\* half a flight from being played, for every flight, every moment at which a
\* process is killed and every number of restarts.
THEOREM NoHalfFlight == Spec => []NeverPlaysHalf
<1>1. IInv => NeverPlaysHalf
  BY DEF IInv
<1> QED
  BY <1>1, Inductive, PTL

\* After a signal nothing is written, and the sleep in progress is the last,
\* for every flight, frame rate and length of a sleep.
THEOREM SignalStops == Spec => StopIsPrompt
<1> DEFINE Prompt == ~running /\ ~running' =>
        sent' = sent /\ (now' # now => pc' \in {"stopped", "row"})
<1>1. IInv /\ [Next]_vars => [Prompt]_vars
  <2> SUFFICES ASSUME IInv, Next, ~running, ~running'
               PROVE  sent' = sent /\ (now' # now => pc' \in {"stopped", "row"})
    BY DEF vars
  <2>1. CASE Start
    BY <2>1 DEF Start, Play, Begin, Stop, Die, player, IInv, NothingYet, Building
  <2>2. CASE Build
    BY <2>2 DEF Build, Look, RemoveFiles, MakeDirectory, MakeLock, Compute,
                ExportCsv, ExportJson, Unlock, player
  <2>3. CASE Load
    BY <2>3 DEF Load, Play, Begin, Stop, Die, player, IInv, NothingYet, Building
  <2>4. CASE Engage
    BY <2>4 DEF Engage, Skip, Wait, Sleep, SendPacket, Handle, EndRound, Stop, Die
  <2>5. CASE Simulate
    BY <2>5 DEF Simulate, SimulatorWait, SendRow, SimulatorEnds, Stop, Die, player
  <2>6. CASE Signal \/ Kill \/ Restart
    BY <2>6 DEF Signal, Kill, Restart, player
  <2> QED
    BY <2>1, <2>2, <2>3, <2>4, <2>5, <2>6 DEF Next
<1> QED
  BY <1>1, Inductive, PTL DEF Spec, StopIsPrompt

-----------------------------------------------------------------------------
(* Sets put in order *)

Orders(R, S) ==
    /\ \A x \in S : <<x, x>> \notin R
    /\ \A x, y \in S : x # y => <<x, y>> \in R \/ <<y, x>> \in R
    /\ \A x, y, z \in S : <<x, y>> \in R /\ <<y, z>> \in R => <<x, z>> \in R

Below(x, R, S) == {y \in S : <<y, x>> \in R}

\* A set that is in order has one member with each number of members before it.
LEMMA ArrangedProperties ==
    ASSUME NEW S, IsFiniteSet(S), NEW R, Orders(R, S)
    PROVE  LET n == Cardinality(S) a == Arranged(S, R)
           IN  /\ n \in Nat
               /\ a \in [1..n -> S]
               /\ \A x \in S : \E k \in 1..n : a[k] = x
               /\ \A k, l \in 1..n : k < l => <<a[k], a[l]>> \in R
<1> DEFINE n == Cardinality(S) a == Arranged(S, R)
           f == [x \in S |-> Cardinality(Below(x, R, S)) + 1]
<1>1. n \in Nat
  BY FS_CardinalityType
<1>2. ASSUME NEW x \in S
      PROVE  /\ IsFiniteSet(Below(x, R, S)) /\ Cardinality(Below(x, R, S)) \in Nat
             /\ Cardinality(Below(x, R, S)) < n
  <2>1. Below(x, R, S) \subseteq S /\ x \notin Below(x, R, S)
    BY DEF Below, Orders
  <2>2. Below(x, R, S) # S
    BY <2>1
  <2> QED
    BY <2>1, <2>2, FS_Subset, FS_CardinalityType
<1>3. ASSUME NEW x \in S, NEW y \in S, <<x, y>> \in R
      PROVE  f[x] < f[y]
  <2>1. Below(x, R, S) \subseteq Below(y, R, S)
    BY <1>3 DEF Below, Orders
  <2>2. x \in Below(y, R, S) /\ x \notin Below(x, R, S)
    BY <1>3 DEF Below, Orders
  <2>3. Cardinality(Below(x, R, S)) < Cardinality(Below(y, R, S))
    <3>1. Below(x, R, S) # Below(y, R, S)
      BY <2>2
    <3> QED
      BY <1>2, <2>1, <3>1, FS_Subset
  <2> QED
    BY <1>2, <2>3
<1>4. f \in [S -> 1..n]
  BY <1>1, <1>2
<1>5. \A x, y \in S : f[x] = f[y] => x = y
  <2> SUFFICES ASSUME NEW x \in S, NEW y \in S, f[x] = f[y], x # y PROVE FALSE
    OBVIOUS
  <2>1. f[x] < f[y] \/ f[y] < f[x]
    BY <1>3 DEF Orders
  <2>2. f[x] \in Nat /\ f[y] \in Nat
    BY <1>4
  <2> HIDE DEF f
  <2> QED
    BY <2>1, <2>2
<1>6. f \in Surjection(S, 1..n)
  <2>1. f \in Injection(S, 1..n)
    <3> HIDE DEF f
    <3> QED
      BY <1>4, <1>5 DEF Injection, IsInjective
  <2>2. IsFiniteSet(1..n) /\ Cardinality(1..n) = n
    BY <1>1, FS_Interval
  <2> HIDE DEF f
  <2> QED
    BY <2>1, <2>2, FS_Injection
<1>7. \A k \in 1..n : \E x \in S : f[x] = k
  <2> HIDE DEF f
  <2> QED
    BY <1>6 DEF Surjection
<1>8. ASSUME NEW k \in 1..n
      PROVE  a[k] \in S /\ f[a[k]] = k
  <2>1. a[k] = CHOOSE x \in S : Cardinality(Below(x, R, S)) = k - 1
    BY DEF Arranged, Below
  <2>2. PICK x \in S : f[x] = k
    BY <1>7
  <2>3. Cardinality(Below(x, R, S)) = k - 1
    BY <2>2, <1>2
  <2>4. a[k] \in S /\ Cardinality(Below(a[k], R, S)) = k - 1
    <3> HIDE DEF a
    <3> QED
      BY <2>1, <2>3, Zenon
  <2>5. f[a[k]] = k - 1 + 1
    <3> HIDE DEF a
    <3> QED
      BY <2>4
  <2> HIDE DEF a, f
  <2> QED
    BY <2>4, <2>5
<1>9. a \in [1..n -> S]
  <2> DEFINE c(k) == CHOOSE x \in S : Cardinality({y \in S : <<y, x>> \in R}) = k - 1
  <2>1. a = [k \in 1..n |-> c(k)]
    BY DEF Arranged
  <2>2. a = [k \in 1..n |-> a[k]]
    <3> HIDE DEF a, f, c, n
    <3> QED
      BY <2>1
  <2> HIDE DEF a, f
  <2> QED
    BY <2>2, <1>8
<1>10. ASSUME NEW x \in S PROVE \E k \in 1..n : a[k] = x
  <2>1. f[x] \in 1..n
    BY <1>4
  <2>2. a[f[x]] \in S /\ f[a[f[x]]] = f[x]
    <3> HIDE DEF a, f
    <3> QED
      BY <2>1, <1>8
  <2> HIDE DEF a, f
  <2> QED
    BY <2>1, <2>2, <1>5
<1>11. ASSUME NEW k \in 1..n, NEW l \in 1..n, k < l PROVE <<a[k], a[l]>> \in R
  <2>1. /\ a[k] \in S /\ f[a[k]] = k
        /\ a[l] \in S /\ f[a[l]] = l
    <3> HIDE DEF a, f
    <3> QED
      BY <1>8
  <2>2. a[k] # a[l]
    <3> HIDE DEF a, f
    <3> QED
      BY <2>1, <1>11
  <2>3. <<a[l], a[k]>> \notin R
    <3> SUFFICES ASSUME <<a[l], a[k]>> \in R PROVE FALSE
      OBVIOUS
    <3>1. f[a[l]] < f[a[k]]
      <4> HIDE DEF a, f
      <4> QED
        BY <2>1, <1>3
    <3> HIDE DEF a, f
    <3> QED
      BY <3>1, <2>1, <1>11
  <2> HIDE DEF a, f
  <2> QED
    BY <2>1, <2>2, <2>3 DEF Orders
<1> QED
  BY <1>1, <1>9, <1>10, <1>11

LEMMA IsSequence ==
    ASSUME NEW T, NEW n \in Nat, NEW f \in [1..n -> T]
    PROVE  f \in Seq(T) /\ Len(f) = n
<1>1. f \in Seq(T)
  BY SeqDef
<1>2. Len(f) \in Nat /\ 1..Len(f) = 1..n
  BY <1>1, LenProperties
<1>3. Len(f) = n
  <2>1. \A i \in Nat : i \in 1..Len(f) <=> i \in 1..n
    BY <1>2
  <2> QED
    BY <1>2, <2>1
<1> QED
  BY <1>1, <1>3

\* What is chosen from a sequence, in an order.
Chosen(T, rows, S, R) ==
    LET n == Cardinality(S)
        a == Arranged(S, R)
        chosen == [k \in 1..n |-> rows[a[k]]]
    IN  /\ n \in Nat /\ Len(chosen) = n
        /\ chosen \in Seq(T)
        /\ a \in [1..n -> S]
        /\ \A x \in S : \E k \in 1..n : a[k] = x
        /\ \A k, l \in 1..n : k < l => <<a[k], a[l]>> \in R

LEMMA ChosenRows ==
    ASSUME NEW T, NEW rows \in Seq(T), NEW S \in SUBSET DOMAIN rows,
           NEW R, Orders(R, S)
    PROVE  Chosen(T, rows, S, R)
<1> DEFINE n == Cardinality(S) a == Arranged(S, R) chosen == [k \in 1..n |-> rows[a[k]]]
<1>1. IsFiniteSet(S)
  <2>1. Len(rows) \in Nat /\ DOMAIN rows = 1..Len(rows)
    OBVIOUS
  <2>2. IsFiniteSet(1..Len(rows))
    BY <2>1, FS_Interval
  <2> QED
    BY <2>1, <2>2, FS_Subset
<1>2. /\ n \in Nat
      /\ a \in [1..n -> S]
      /\ \A x \in S : \E k \in 1..n : a[k] = x
      /\ \A k, l \in 1..n : k < l => <<a[k], a[l]>> \in R
  BY <1>1, ArrangedProperties
<1> HIDE DEF n, a
<1>3. \A k \in 1..n : rows[a[k]] \in T
  BY <1>2
<1>4. chosen \in Seq(T) /\ Len(chosen) = n
  <2>1. chosen \in [1..n -> T]
    BY <1>3
  <2> HIDE DEF chosen
  <2> QED
    BY <1>2, <2>1, IsSequence
<1> USE DEF n, a
<1> QED
  BY <1>2, <1>4, Zenon DEF Chosen

-----------------------------------------------------------------------------
(* Packets in the order of their times *)

Sorted(ps) == \A i, j \in DOMAIN ps : i <= j => ps[i].t <= ps[j].t

LEMMA RankIsNumber ==
    ASSUME NEW type \in Range(PacketTypes)
    PROVE  Rank(type) \in Nat
<1>1. \E i \in DOMAIN PacketTypes : PacketTypes[i] = type
  BY DEF Range
<1>2. DOMAIN PacketTypes = 1..8
  BY DEF PacketTypes
<1>3. Rank(type) \in DOMAIN PacketTypes
  BY <1>1, Zenon DEF Rank
<1> QED
  BY <1>2, <1>3

\* The order of a mission's rows is one.
LEMMA MissionOrders ==
    ASSUME NEW rows, IsMission(rows), NEW S \in SUBSET DOMAIN rows
    PROVE  Orders({p \in S \X S : Precedes(rows, p[1], p[2])}, S)
<1> DEFINE R == {p \in S \X S : Precedes(rows, p[1], p[2])}
           t(i) == rows[i].t
           r(i) == Rank(rows[i].type)
<1>1. ASSUME NEW i \in S PROVE i \in Nat /\ t(i) \in Nat /\ r(i) \in Nat
  <2>1. i \in 1..Len(rows) /\ Len(rows) \in Nat /\ rows[i] \in AnyPacket
    BY DEF IsMission
  <2>2. rows[i].type \in Range(PacketTypes) /\ rows[i].t \in Nat
    BY <2>1 DEF AnyPacket
  <2> QED
    BY <2>1, <2>2, RankIsNumber
<1>2. ASSUME NEW i \in S, NEW j \in S
      PROVE  <<i, j>> \in R <=> \/ t(i) < t(j)
                                \/ t(i) = t(j) /\ (r(i) < r(j) \/ (r(i) = r(j) /\ i < j))
  <2>1. <<i, j>> \in R <=> Precedes(rows, i, j)
    OBVIOUS
  <2> HIDE DEF R
  <2> QED
    BY <2>1 DEF Precedes
<1> HIDE DEF R, t, r
<1>3. \A x \in S : <<x, x>> \notin R
  BY <1>1, <1>2
<1>4. ASSUME NEW x \in S, NEW y \in S, x # y PROVE <<x, y>> \in R \/ <<y, x>> \in R
  <2>1. /\ x \in Nat /\ t(x) \in Nat /\ r(x) \in Nat
        /\ y \in Nat /\ t(y) \in Nat /\ r(y) \in Nat
    BY <1>1
  <2>2. \/ t(x) < t(y)
        \/ t(x) = t(y) /\ (r(x) < r(y) \/ (r(x) = r(y) /\ x < y))
        \/ t(y) < t(x)
        \/ t(y) = t(x) /\ (r(y) < r(x) \/ (r(y) = r(x) /\ y < x))
    BY <1>4, <2>1
  <2> QED
    BY <1>2, <2>2
<1>5. ASSUME NEW x \in S, NEW y \in S, NEW z \in S, <<x, y>> \in R, <<y, z>> \in R
      PROVE  <<x, z>> \in R
  <2>1. /\ x \in Nat /\ t(x) \in Nat /\ r(x) \in Nat
        /\ y \in Nat /\ t(y) \in Nat /\ r(y) \in Nat
        /\ z \in Nat /\ t(z) \in Nat /\ r(z) \in Nat
    BY <1>1
  <2>2. /\ \/ t(x) < t(y)
           \/ t(x) = t(y) /\ (r(x) < r(y) \/ (r(x) = r(y) /\ x < y))
        /\ \/ t(y) < t(z)
           \/ t(y) = t(z) /\ (r(y) < r(z) \/ (r(y) = r(z) /\ y < z))
    BY <1>2, <1>5
  <2>3. \/ t(x) < t(z)
        \/ t(x) = t(z) /\ (r(x) < r(z) \/ (r(x) = r(z) /\ x < z))
    BY <2>1, <2>2
  <2> QED
    BY <1>2, <2>3
<1>6. Orders(R, S)
  BY <1>3, <1>4, <1>5 DEF Orders
<1> QED
  BY <1>6 DEF R

\* The packets of a mission are those of its files, in the order of their times.
LEMMA MissionIsSorted ==
    ASSUME NEW rows, IsMission(rows)
    PROVE  MissionPackets(rows) \in Seq(AnyPacket) /\ Sorted(MissionPackets(rows))
<1> DEFINE T == AnyPacket
           S == {i \in DOMAIN rows : rows[i].t > MinTime}
           R == {p \in S \X S : Precedes(rows, p[1], p[2])}
           a == Arranged(S, R)
           n == Cardinality(S)
           ps == [k \in 1..n |-> rows[a[k]]]
<1>1. ps = MissionPackets(rows)
  BY DEF MissionPackets
<1>2. S \in SUBSET DOMAIN rows /\ Orders(R, S)
  <2>1. S \in SUBSET DOMAIN rows
    OBVIOUS
  <2> HIDE DEF S
  <2> QED
    BY <2>1, MissionOrders
<1>3. rows \in Seq(T)
  BY DEF IsMission
<1>4. \A x, y \in S : <<x, y>> \in R => rows[x].t <= rows[y].t
  <2> SUFFICES ASSUME NEW x \in S, NEW y \in S, <<x, y>> \in R
               PROVE  rows[x].t <= rows[y].t
    OBVIOUS
  <2>1. Precedes(rows, x, y)
    OBVIOUS
  <2>2. rows[x].t \in Nat /\ rows[y].t \in Nat
    <3>1. rows[x] \in AnyPacket /\ rows[y] \in AnyPacket
      BY <1>3
    <3> QED
      BY <3>1 DEF AnyPacket
  <2> QED
    BY <2>1, <2>2 DEF Precedes
<1> HIDE DEF S, R
<1>5. /\ n \in Nat /\ Len(ps) = n /\ ps \in Seq(T)
      /\ a \in [1..n -> S]
      /\ \A x \in S : \E k \in 1..n : a[k] = x
      /\ \A k, l \in 1..n : k < l => <<a[k], a[l]>> \in R
  <2>1. S \in SUBSET DOMAIN rows
    BY <1>2
  <2>2. Orders(R, S)
    BY <1>2
  <2> HIDE DEF T
  <2>3. Chosen(T, rows, S, R)
    BY <2>1, <2>2, <1>3, ChosenRows, Zenon
  <2> QED
    BY <2>3, Zenon DEF Chosen
<1>6. ASSUME NEW i \in DOMAIN ps, NEW j \in DOMAIN ps, i <= j
      PROVE  ps[i].t <= ps[j].t
  <2>1. i \in 1..n /\ j \in 1..n /\ ps[i] = rows[a[i]] /\ ps[j] = rows[a[j]]
    OBVIOUS
  <2>2. a[i] \in S /\ a[j] \in S
    BY <1>5, <2>1
  <2>3. CASE i = j
    <3>1. rows[a[i]].t \in Nat
      <4>1. rows[a[i]] \in AnyPacket
        BY <2>2, <1>2, <1>3
      <4> HIDE DEF a
      <4> QED
        BY <4>1 DEF AnyPacket
    <3> HIDE DEF ps, a, n
    <3> QED
      BY <2>1, <2>3, <3>1
  <2>4. CASE i < j
    <3> HIDE DEF ps, a
    <3> QED
      BY <2>1, <2>2, <2>4, <1>4, <1>5
  <2> HIDE DEF ps, a
  <2> QED
    BY <1>5, <1>6, <2>1, <2>3, <2>4
<1> HIDE DEF ps
<1> QED
  BY <1>1, <1>5, <1>6 DEF Sorted

-----------------------------------------------------------------------------
(* Pairs of packets *)

Row == [t : Nat, state : Nat]

\* Which row, and which of its packets.
LEMMA Halves ==
    ASSUME NEW n \in Nat, NEW k \in 1..2 * n
    PROVE  /\ (k + 1) \div 2 \in 1..n
           /\ 2 - (k % 2) \in {1, 2}
  OBVIOUS

LEMMA HalvesAscend ==
    ASSUME NEW k \in Nat, NEW l \in Nat, k <= l
    PROVE  (k + 1) \div 2 <= (l + 1) \div 2
  OBVIOUS

LEMMA HalvesOfPair ==
    ASSUME NEW m \in Nat \ {0}
    PROVE  (2 * m - 1 + 1) \div 2 = m /\ (2 * m + 1) \div 2 = m
  OBVIOUS

LEMMA PairOfPackets ==
    ASSUME NEW row \in Row, NEW accel \in Int, NEW gyro \in Int, NEW h \in {1, 2}
    PROVE  /\ AvPair(row, accel, gyro)[h] \in AnyPacket
           /\ AvPair(row, accel, gyro)[h].t = row.t
<1>1. {"AV_TO_GCS_DATA_1", "AV_TO_GCS_DATA_2"} \subseteq Range(PacketTypes)
  <2>1. /\ 5 \in DOMAIN PacketTypes /\ PacketTypes[5] = "AV_TO_GCS_DATA_1"
        /\ 6 \in DOMAIN PacketTypes /\ PacketTypes[6] = "AV_TO_GCS_DATA_2"
    BY DEF PacketTypes
  <2> QED
    BY <2>1 DEF Range
<1>2. row.t \in Nat /\ row.state \in Nat
  BY DEF Row
<1>3. CASE h = 1
  BY <1>1, <1>2, <1>3 DEF AvPair, AnyPacket
<1>4. CASE h = 2
  BY <1>1, <1>2, <1>4 DEF AvPair, AnyPacket
<1> QED
  BY <1>3, <1>4

\* Each row gives two packets of its time.
LEMMA PairsOfRows ==
    ASSUME NEW rows \in Seq(Row), NEW accel \in Int, NEW gyro \in Int
    PROVE  LET ps == AvPairs(rows, accel, gyro)
           IN  /\ ps \in Seq(AnyPacket) /\ Len(ps) = 2 * Len(rows)
               /\ \A k \in 1..2 * Len(rows) : /\ (k + 1) \div 2 \in 1..Len(rows)
                                              /\ ps[k].t = rows[(k + 1) \div 2].t
<1> DEFINE n == Len(rows)
           h(k) == (k + 1) \div 2
           g(k) == 2 - (k % 2)
           ps == [k \in 1..2 * n |-> AvPair(rows[h(k)], accel, gyro)[g(k)]]
<1>1. ps = AvPairs(rows, accel, gyro)
  BY DEF AvPairs
<1>2. n \in Nat /\ 2 * n \in Nat /\ \A i \in 1..n : rows[i] \in Row
  OBVIOUS
<1> HIDE DEF n
<1>3. ASSUME NEW k \in 1..2 * n
      PROVE  h(k) \in 1..n /\ g(k) \in {1, 2}
  BY <1>2, Halves
<1> HIDE DEF h, g
<1>4. ASSUME NEW k \in 1..2 * n
      PROVE  ps[k] \in AnyPacket /\ ps[k].t = rows[h(k)].t
  <2>1. h(k) \in 1..n /\ g(k) \in {1, 2}
    BY <1>3
  <2>2. rows[h(k)] \in Row
    BY <1>2, <2>1
  <2>3. ps[k] = AvPair(rows[h(k)], accel, gyro)[g(k)]
    OBVIOUS
  <2> HIDE DEF ps
  <2> QED
    BY <2>1, <2>2, <2>3, PairOfPackets
<1>5. ps \in [1..2 * n -> AnyPacket]
  <2>1. ps = [k \in 1..2 * n |-> ps[k]]
    OBVIOUS
  <2> HIDE DEF ps
  <2> QED
    BY <1>4, <2>1
<1> HIDE DEF ps
<1>6. ps \in Seq(AnyPacket) /\ Len(ps) = 2 * n
  BY <1>2, <1>5, IsSequence
<1> QED
  BY <1>1, <1>3, <1>4, <1>6 DEF h, n

InPairs(ps) ==
    /\ \E n \in Nat : Len(ps) = 2 * n
    /\ \A m \in Nat : 2 * m + 1 \in DOMAIN ps => ps[2 * m + 1].t = ps[2 * m + 2].t
    /\ ps # <<>> => ps[1].t = 0

LEMMA PairsAreSorted ==
    ASSUME NEW rows \in Seq(Row), NEW accel \in Int, NEW gyro \in Int, Sorted(rows),
           rows # <<>> => rows[1].t = 0
    PROVE  LET ps == AvPairs(rows, accel, gyro)
           IN  ps \in Seq(AnyPacket) /\ Sorted(ps) /\ InPairs(ps)
<1> DEFINE ps == AvPairs(rows, accel, gyro)
           h(k) == (k + 1) \div 2
<1>1. /\ ps \in Seq(AnyPacket) /\ Len(ps) = 2 * Len(rows)
      /\ \A k \in 1..2 * Len(rows) : h(k) \in 1..Len(rows) /\ ps[k].t = rows[h(k)].t
  BY PairsOfRows
<1>2. Len(rows) \in Nat /\ DOMAIN rows = 1..Len(rows)
  OBVIOUS
<1> HIDE DEF ps
<1>3. DOMAIN ps = 1..2 * Len(rows)
  BY <1>1
<1>4. \A k, l \in Nat : k <= l => h(k) <= h(l)
  BY HalvesAscend
<1>5. h(1) = 1 /\ \A m \in Nat : h(2 * m + 1) = h(2 * m + 2)
  <2>1. h(1) = 1
    OBVIOUS
  <2>2. ASSUME NEW m \in Nat PROVE h(2 * m + 1) = h(2 * m + 2)
    <3>1. m + 1 \in Nat \ {0} /\ 2 * (m + 1) = 2 * m + 2 /\ 2 * (m + 1) - 1 = 2 * m + 1
      OBVIOUS
    <3>2. (2 * (m + 1) - 1 + 1) \div 2 = m + 1 /\ (2 * (m + 1) + 1) \div 2 = m + 1
      BY <3>1, HalvesOfPair
    <3> QED
      BY <3>1, <3>2
  <2> QED
    BY <2>1, <2>2
<1> HIDE DEF h
<1>6. Sorted(ps)
  <2> SUFFICES ASSUME NEW i \in DOMAIN ps, NEW j \in DOMAIN ps, i <= j
               PROVE  ps[i].t <= ps[j].t
    BY DEF Sorted
  <2>1. i \in Nat /\ j \in Nat /\ i \in 1..2 * Len(rows) /\ j \in 1..2 * Len(rows)
    BY <1>2, <1>3
  <2>2. h(i) \in DOMAIN rows /\ h(j) \in DOMAIN rows /\ h(i) <= h(j)
    BY <2>1, <1>1, <1>2, <1>4
  <2> QED
    BY <2>1, <2>2, <1>1 DEF Sorted
<1>7. ASSUME NEW m \in Nat, 2 * m + 1 \in DOMAIN ps
      PROVE  ps[2 * m + 1].t = ps[2 * m + 2].t
  <2>1. 2 * m + 1 \in 1..2 * Len(rows) /\ 2 * m + 2 \in 1..2 * Len(rows)
    BY <1>2, <1>3, <1>7
  <2> QED
    BY <2>1, <1>1, <1>5
<1>8. ASSUME ps # <<>> PROVE ps[1].t = 0
  <2>1. Len(rows) # 0
    BY <1>1, <1>2, <1>8
  <2>2. 1 \in 1..2 * Len(rows) /\ rows # <<>>
    BY <1>2, <2>1
  <2> QED
    BY <2>2, <1>1, <1>5
<1>9. InPairs(ps)
  BY <1>1, <1>2, <1>7, <1>8 DEF InPairs
<1> QED
  BY <1>1, <1>6, <1>9 DEF ps

-----------------------------------------------------------------------------
(* Blue Raven *)

\* A set of positions has a first one.
LEMMA FirstOf ==
    ASSUME NEW T \in SUBSET Nat, T # {}
    PROVE  \E m \in T : \A k \in T : m <= k
<1> DEFINE R == OpToRel(<, Nat)
<1>1. \A x, y \in Nat : <<y, x>> \in R <=> y < x
  BY DEF OpToRel
<1>2. IsWellFoundedOn(R, Nat)
  BY NatLessThanWellFounded, Zenon
<1> HIDE DEF R
<1>3. PICK x \in T : \A y \in T : ~(<<y, x>> \in R)
  BY <1>2, WFMin, Zenon
<1>4. ASSUME NEW y \in T PROVE x <= y
  <2>1. x \in Nat /\ y \in Nat
    OBVIOUS
  <2>2. ~(y < x)
    BY <2>1, <1>1, <1>3
  <2> QED
    BY <2>1, <2>2
<1> QED
  BY <1>4

\* The closest row is one, and that of a later time is not before it.
LEMMA ClosestRows ==
    ASSUME NEW slow \in Seq(Int), slow # <<>>, NEW s \in Int, NEW t \in Int, s <= t
    PROVE  /\ ClosestRow(s, slow) \in DOMAIN slow
           /\ ClosestRow(t, slow) \in DOMAIN slow
           /\ ClosestRow(s, slow) <= ClosestRow(t, slow)
<1> DEFINE after(x) == {i \in DOMAIN slow : slow[i] >= x}
<1>1. Len(slow) \in Nat /\ Len(slow) >= 1 /\ DOMAIN slow = 1..Len(slow)
  OBVIOUS
<1>2. ASSUME NEW x \in Int
      PROVE  /\ ClosestRow(x, slow) \in DOMAIN slow
             /\ after(x) # {} => /\ ClosestRow(x, slow) \in after(x)
                                 /\ \A j \in after(x) : ClosestRow(x, slow) <= j
             /\ after(x) = {} => ClosestRow(x, slow) = Len(slow)
  <2>1. CASE after(x) = {}
    <3>1. ClosestRow(x, slow) = Len(slow)
      BY <2>1 DEF ClosestRow
    <3> HIDE DEF after
    <3> QED
      BY <1>1, <2>1, <3>1
  <2>2. CASE after(x) # {}
    <3>1. ClosestRow(x, slow) = CHOOSE i \in after(x) : \A j \in after(x) : i <= j
      BY <2>2 DEF ClosestRow
    <3>2. after(x) \subseteq DOMAIN slow /\ after(x) \in SUBSET Nat
      BY <1>1
    <3> HIDE DEF after
    <3>3. \E i \in after(x) : \A j \in after(x) : i <= j
      BY <2>2, <3>2, FirstOf
    <3>4. /\ ClosestRow(x, slow) \in after(x)
          /\ \A j \in after(x) : ClosestRow(x, slow) <= j
      BY <3>1, <3>3, Zenon
    <3> QED
      BY <2>2, <3>2, <3>4
  <2> QED
    BY <2>1, <2>2
<1>3. after(t) \subseteq after(s)
  BY <1>1
<1>4. ClosestRow(s, slow) \in 1..Len(slow) /\ ClosestRow(t, slow) \in 1..Len(slow)
  <2> HIDE DEF after
  <2> QED
    BY <1>1, <1>2
<1>5. ClosestRow(s, slow) <= ClosestRow(t, slow)
  <2>1. CASE after(t) = {}
    <3>1. ClosestRow(t, slow) = Len(slow)
      BY <1>2, <2>1
    <3> HIDE DEF after
    <3> QED
      BY <1>1, <1>4, <3>1
  <2>2. CASE after(t) # {}
    <3>1. ClosestRow(t, slow) \in after(t)
      BY <1>2, <2>2
    <3>2. after(s) # {} /\ ClosestRow(t, slow) \in after(s)
      <4> HIDE DEF after
      <4> QED
        BY <1>3, <3>1
    <3>3. \A j \in after(s) : ClosestRow(s, slow) <= j
      <4> HIDE DEF after
      <4> QED
        BY <1>2, <3>2
    <3> HIDE DEF after
    <3> QED
      BY <3>2, <3>3
  <2> QED
    BY <2>1, <2>2
<1> QED
  BY <1>1, <1>4, <1>5

\* The packets of a Blue Raven come in pairs, in the order of their times.
LEMMA BlueRavenIsSorted ==
    ASSUME NEW log, IsLog(log)
    PROVE  /\ BlueRavenPackets(log) \in Seq(AnyPacket)
           /\ Sorted(BlueRavenPackets(log))
<1> DEFINE fast == log.fast
           slow == log.slow
           times == MergedTimes(fast, slow)
           n == Len(fast)
           rows == [i \in DOMAIN times |-> [t |-> times[i] - times[1], state |-> 0]]
<1>1. /\ fast \in Seq(Int) /\ slow \in Seq(Int) /\ slow # <<>>
      /\ \A i, j \in DOMAIN fast : i <= j => fast[i] <= fast[j]
      /\ \A i, j \in DOMAIN slow : i <= j => slow[i] <= slow[j]
      /\ log.accel \in Int /\ log.gyro \in Int
  BY DEF IsLog, Ascending
<1>2. BlueRavenPackets(log) = AvPairs(rows, log.accel, log.gyro)
  BY DEF BlueRavenPackets
<1> HIDE DEF fast, slow
<1>3. n \in Nat /\ DOMAIN fast = 1..n
  BY <1>1
<1>4. DOMAIN times = 1..n /\ \A i \in 1..n : times[i] = slow[ClosestRow(fast[i], slow)]
  BY <1>3 DEF MergedTimes
<1> HIDE DEF times, n
<1>5. ASSUME NEW i \in 1..n, NEW j \in 1..n, i <= j
      PROVE  times[i] \in Int /\ times[j] \in Int /\ times[i] <= times[j]
  <2>0. i \in DOMAIN fast /\ j \in DOMAIN fast
    BY <1>3
  <2>1. fast[i] \in Int /\ fast[j] \in Int /\ fast[i] <= fast[j]
    BY <1>1, <1>5, <2>0
  <2>2. /\ ClosestRow(fast[i], slow) \in DOMAIN slow
        /\ ClosestRow(fast[j], slow) \in DOMAIN slow
        /\ ClosestRow(fast[i], slow) <= ClosestRow(fast[j], slow)
    BY <1>1, <2>1, ClosestRows
  <2>3. /\ slow[ClosestRow(fast[i], slow)] \in Int /\ slow[ClosestRow(fast[j], slow)] \in Int
        /\ slow[ClosestRow(fast[i], slow)] <= slow[ClosestRow(fast[j], slow)]
    BY <1>1, <2>2
  <2> QED
    BY <1>4, <2>3
<1>6. ASSUME NEW i \in 1..n
      PROVE  rows[i] \in Row /\ rows[i].t = times[i] - times[1]
  <2>1. 1 \in 1..n /\ 1 <= i
    BY <1>3
  <2>2. times[1] \in Int /\ times[i] \in Int /\ times[1] <= times[i]
    BY <1>5, <2>1
  <2> QED
    BY <1>4, <2>2 DEF Row
<1>7. rows \in Seq(Row) /\ Len(rows) = n
  <2>1. rows \in [1..n -> Row]
    <3>1. rows = [i \in 1..n |-> rows[i]]
      BY <1>4
    <3> HIDE DEF rows
    <3> QED
      BY <1>6, <3>1
  <2> HIDE DEF rows
  <2> QED
    BY <1>3, <2>1, IsSequence
<1> HIDE DEF rows
<1>8. Sorted(rows)
  <2> SUFFICES ASSUME NEW i \in DOMAIN rows, NEW j \in DOMAIN rows, i <= j
               PROVE  rows[i].t <= rows[j].t
    BY DEF Sorted
  <2>1. i \in 1..n /\ j \in 1..n /\ 1 \in 1..n /\ 1 <= i
    BY <1>3, <1>7
  <2>2. times[i] \in Int /\ times[j] \in Int /\ times[1] \in Int /\ times[i] <= times[j]
    BY <1>5, <2>1
  <2> QED
    BY <1>6, <2>1, <2>2
<1>9. rows # <<>> => rows[1].t = 0
  <2> SUFFICES ASSUME rows # <<>> PROVE rows[1].t = 0
    OBVIOUS
  <2>1. 1 \in 1..n /\ 1 <= 1
    BY <1>3, <1>7
  <2>2. times[1] \in Int /\ rows[1].t = times[1] - times[1]
    BY <1>5, <1>6, <2>1
  <2> QED
    BY <2>2
<1> QED
  BY <1>1, <1>2, <1>7, <1>8, <1>9, PairsAreSorted

-----------------------------------------------------------------------------
(* Simulated flights *)

\* Induction, with a set of numbers in place of a predicate.
LEMMA AllNumbers ==
    ASSUME NEW T, 0 \in T, \A n \in Nat : n \in T => n + 1 \in T
    PROVE  Nat \subseteq T
<1> SUFFICES ASSUME NEW n \in Nat, n \notin T PROVE FALSE
  OBVIOUS
<1> DEFINE U == {k \in Nat : k \notin T}
<1>1. U \in SUBSET Nat /\ U # {}
  OBVIOUS
<1>2. PICK m \in U : \A k \in U : m <= k
  <2> HIDE DEF U
  <2> QED
    BY <1>1, FirstOf
<1>3. m # 0 /\ m - 1 \in Nat /\ m - 1 \notin U
  BY <1>2
<1> QED
  BY <1>2, <1>3

\* The windows of the first n rows.
StartsTo(rows, n, f) ==
    f = [i \in 1..n |-> IF i = 1 THEN 1
                        ELSE IF rows[i].t <= rows[f[i - 1]].t + Window THEN f[i - 1] ELSE i]

LEMMA StartsExist ==
    ASSUME NEW rows
    PROVE  \A n \in Nat : \E f : StartsTo(rows, n, f)
<1> DEFINE T == {n \in Nat : \E f : StartsTo(rows, n, f)}
<1>1. 0 \in T
  <2>1. StartsTo(rows, 0, [i \in 1..0 |-> 1])
    BY DEF StartsTo
  <2> QED
    BY <2>1
<1>2. ASSUME NEW n \in Nat, n \in T PROVE n + 1 \in T
  <2>1. PICK f : StartsTo(rows, n, f)
    BY <1>2
  <2> DEFINE s == f[n]
             last == IF n + 1 = 1 THEN 1
                     ELSE IF rows[n + 1].t <= rows[s].t + Window THEN s ELSE n + 1
             g == [i \in 1..n + 1 |-> IF i = n + 1 THEN last ELSE f[i]]
             e(h, i) == IF i = 1 THEN 1
                        ELSE IF rows[i].t <= rows[h[i - 1]].t + Window THEN h[i - 1] ELSE i
  <2>2. f = [i \in 1..n |-> e(f, i)]
    BY <2>1 DEF StartsTo
  <2>3. ASSUME NEW i \in 1..n + 1 PROVE g[i] = e(g, i)
    <3>1. CASE i = n + 1 /\ i = 1
      BY <3>1
    <3>2. CASE i = n + 1 /\ i # 1
      <4>1. g[i] = last /\ g[i - 1] = s /\ i - 1 = n
        BY <3>2
      <4> HIDE DEF g
      <4> QED
        BY <3>2, <4>1
    <3>3. CASE i # n + 1
      <4>1. i \in 1..n /\ g[i] = f[i]
        BY <3>3
      <4>2. i # 1 => g[i - 1] = f[i - 1]
        BY <4>1
      <4>3. f[i] = e(f, i)
        <5> HIDE DEF e
        <5> QED
          BY <2>2, <4>1
      <4>4. e(g, i) = e(f, i)
        <5> HIDE DEF g
        <5> QED
          BY <4>2
      <4> HIDE DEF e, g
      <4> QED
        BY <4>1, <4>3, <4>4
    <3> HIDE DEF e, g
    <3> QED
      BY <3>1, <3>2, <3>3
  <2>4. g = [i \in 1..n + 1 |-> e(g, i)]
    <3>1. g = [i \in 1..n + 1 |-> g[i]]
      OBVIOUS
    <3> HIDE DEF e, g
    <3> QED
      BY <2>3, <3>1
  <2>5. StartsTo(rows, n + 1, g)
    <3> HIDE DEF g
    <3> QED
      BY <2>4 DEF StartsTo
  <2> QED
    BY <2>5
<1>3. Nat \subseteq T
  <2> HIDE DEF T
  <2> QED
    BY <1>1, <1>2, AllNumbers
<1> QED
  BY <1>3

\* The first window begins with the first row.
LEMMA FirstWindow ==
    ASSUME NEW n \in Nat \ {0}, NEW rows, DOMAIN rows = 1..n
    PROVE  WindowStarts(rows)[1] = 1
<1> DEFINE f == CHOOSE g : StartsTo(rows, n, g)
<1>1. StartsTo(rows, n, f)
  BY StartsExist, Zenon
<1>2. WindowStarts(rows) = f
  BY DEF WindowStarts, StartsTo
<1>3. f[1] = 1
  <2> HIDE DEF f
  <2> QED
    BY <1>1 DEF StartsTo
<1> QED
  BY <1>2, <1>3

LEMMA RowsOfFlight ==
    ASSUME NEW flight, IsFlight(flight)
    PROVE  LET rows == Rows(flight)
           IN  rows \in Seq(Row) /\ rows # <<>> /\ Sorted(rows)
<1> DEFINE n == Len(flight.times)
           rows == Rows(flight)
<1>1. /\ flight.times \in Seq(Nat) /\ n \in Nat \ {0} /\ DOMAIN flight.times = 1..n
      /\ \A i, j \in 1..n : i <= j => flight.times[i] <= flight.times[j]
      /\ \A i \in 1..n : flight.times[i] \in Nat
  BY DEF IsFlight, Ascending
<1> HIDE DEF n
<1>2. ASSUME NEW t PROVE FlightState(t, flight) \in Nat
  <2> DEFINE passed == <<t > 0, t >= flight.fastest, t >= flight.apogee,
                         t > flight.apogee, t >= Last(flight.times)>>
             M == {m \in 1..5 : passed[m]}
  <2>1. FlightState(t, flight) = Cardinality(M)
    BY DEF FlightState
  <2>2. M \subseteq 1..5
    OBVIOUS
  <2> HIDE DEF M
  <2>3. IsFiniteSet(M)
    <3>1. IsFiniteSet(1..5)
      <4>1. 1 \in Int /\ 5 \in Int
        OBVIOUS
      <4> QED
        BY <4>1, FS_Interval, Zenon
    <3> QED
      BY <2>2, <3>1, FS_Subset
  <2> QED
    BY <2>1, <2>3, FS_CardinalityType
<1>3. /\ rows = [i \in 1..n |-> [t |-> flight.times[i],
                                 state |-> FlightState(flight.times[i], flight)]]
  BY <1>1 DEF Rows
<1> HIDE DEF rows
<1>4. ASSUME NEW i \in 1..n
      PROVE  rows[i] \in Row /\ rows[i].t = flight.times[i]
  BY <1>1, <1>2, <1>3 DEF Row
<1>5. rows \in [1..n -> Row]
  <2>1. rows = [i \in 1..n |-> rows[i]]
    BY <1>3
  <2> QED
    BY <1>4, <2>1
<1>6. rows \in Seq(Row) /\ Len(rows) = n
  BY <1>1, <1>5, IsSequence
<1>7. Sorted(rows)
  BY <1>1, <1>4, <1>6 DEF Sorted
<1>8. rows # <<>>
  BY <1>1, <1>6
<1> QED
  BY <1>6, <1>7, <1>8 DEF rows

\* The delay comes first.
LEMMA InjectedRows ==
    ASSUME NEW rows \in Seq(Row), rows # <<>>, Sorted(rows)
    PROVE  LET all == Injected(rows)
           IN  all \in Seq(Row) /\ all # <<>> /\ Sorted(all) /\ all[1].t = 0
<1> DEFINE n == Len(rows)
           pad == [i \in 1..Delay |-> [t |-> i - 1, state |-> rows[1].state]]
           shifted == [i \in DOMAIN rows |-> [rows[i] EXCEPT !.t = @ + Delay]]
           all == Injected(rows)
<1>1. /\ n \in Nat /\ n >= 1 /\ DOMAIN rows = 1..n
      /\ Delay \in Nat /\ Delay >= 1
      /\ \A i \in 1..n : rows[i] \in Row
  BY FlightDataAssumption
<1>2. all = pad \o shifted
  BY DEF Injected
<1> HIDE DEF n
<1>3. ASSUME NEW i \in 1..Delay PROVE pad[i] \in Row /\ pad[i].t = i - 1
  <2>1. rows[1].state \in Nat
    BY <1>1 DEF Row
  <2> QED
    BY <1>1, <2>1 DEF Row
<1>4. ASSUME NEW i \in 1..n PROVE shifted[i] \in Row /\ shifted[i].t = rows[i].t + Delay
  <2>1. rows[i] \in Row
    BY <1>1
  <2> QED
    BY <1>1, <2>1, SMTT(30) DEF Row
<1>5. pad \in Seq(Row) /\ Len(pad) = Delay
  <2>1. pad \in [1..Delay -> Row]
    <3>1. pad = [i \in 1..Delay |-> pad[i]]
      OBVIOUS
    <3> HIDE DEF pad
    <3> QED
      BY <1>3, <3>1
  <2> HIDE DEF pad
  <2> QED
    BY <1>1, <2>1, IsSequence
<1>6. shifted \in Seq(Row) /\ Len(shifted) = n
  <2>1. shifted \in [1..n -> Row]
    <3>1. shifted = [i \in 1..n |-> shifted[i]]
      BY <1>1
    <3> HIDE DEF shifted
    <3> QED
      BY <1>4, <3>1
  <2> HIDE DEF shifted
  <2> QED
    BY <1>1, <2>1, IsSequence
<1> HIDE DEF pad, shifted, all
<1>7. /\ all \in Seq(Row) /\ Len(all) = Delay + n
      /\ \A i \in 1..Delay + n : all[i] = IF i <= Delay THEN pad[i] ELSE shifted[i - Delay]
  BY <1>2, <1>5, <1>6, ConcatProperties
<1>8. ASSUME NEW i \in 1..Delay + n, NEW j \in 1..Delay + n, i <= j
      PROVE  all[i].t <= all[j].t
  <2>1. CASE j <= Delay
    <3>1. i \in 1..Delay /\ j \in 1..Delay /\ all[i] = pad[i] /\ all[j] = pad[j]
      BY <1>1, <1>7, <1>8, <2>1
    <3> QED
      BY <1>8, <3>1, <1>3
  <2>2. CASE i <= Delay /\ j > Delay
    <3>1. i \in 1..Delay /\ j - Delay \in 1..n /\ all[i] = pad[i] /\ all[j] = shifted[j - Delay]
      BY <1>1, <1>7, <1>8, <2>2
    <3>2. all[i].t = i - 1 /\ all[j].t = rows[j - Delay].t + Delay
      BY <3>1, <1>3, <1>4
    <3>3. rows[j - Delay].t \in Nat
      BY <1>1, <3>1 DEF Row
    <3> QED
      BY <1>1, <3>1, <3>2, <3>3
  <2>3. CASE i > Delay
    <3>1. /\ i - Delay \in 1..n /\ j - Delay \in 1..n /\ i - Delay <= j - Delay
          /\ all[i] = shifted[i - Delay] /\ all[j] = shifted[j - Delay]
      BY <1>1, <1>7, <1>8, <2>3
    <3>2. all[i].t = rows[i - Delay].t + Delay /\ all[j].t = rows[j - Delay].t + Delay
      BY <3>1, <1>4
    <3>3. /\ rows[i - Delay].t \in Nat /\ rows[j - Delay].t \in Nat
          /\ rows[i - Delay].t <= rows[j - Delay].t
      BY <1>1, <3>1 DEF Row, Sorted
    <3> QED
      BY <1>1, <3>2, <3>3
  <2> QED
    BY <1>1, <2>1, <2>2, <2>3
<1>9. Sorted(all)
  <2>1. DOMAIN all = 1..Delay + n
    BY <1>7
  <2> QED
    BY <1>8, <2>1 DEF Sorted
<1>10. all # <<>> /\ all[1].t = 0
  <2>1. 1 \in 1..Delay /\ 1 \in 1..Delay + n
    BY <1>1
  <2>2. all[1] = pad[1] /\ pad[1].t = 1 - 1
    BY <1>1, <1>3, <1>7, <2>1
  <2> QED
    BY <1>1, <1>7, <2>2
<1> QED
  BY <1>7, <1>9, <1>10 DEF all

\* The first row of all is kept: nothing matters in the first window.
LEMMA FirstIsKept ==
    ASSUME NEW rows \in Seq(Row), rows # <<>>
    PROVE  1 \in Kept(rows) /\ Kept(rows) \subseteq DOMAIN rows
<1> DEFINE first == WindowStarts(rows)
           important == {i \in DOMAIN rows : Matters(rows, first[i], i)}
           best(s) == {i \in important : first[i] = s}
<1>1. 1 \in DOMAIN rows
  OBVIOUS
<1>2. first[1] = 1
  <2>1. Len(rows) \in Nat \ {0} /\ DOMAIN rows = 1..Len(rows)
    OBVIOUS
  <2> QED
    BY <2>1, FirstWindow
<1> HIDE DEF first
<1>3. best(1) = {}
  BY DEF Matters
<1>4. Kept(rows) = {i \in DOMAIN rows : IF best(first[i]) = {} THEN i = first[i]
                                        ELSE i \in best(first[i]) /\
                                             \A j \in best(first[i]) : i <= j}
  BY DEF Kept, first
<1> HIDE DEF best
<1> QED
  BY <1>1, <1>2, <1>3, <1>4

\* What is kept is in the order of its times, and begins at 0.
LEMMA CulledRows ==
    ASSUME NEW rows \in Seq(Row), rows # <<>>, Sorted(rows), rows[1].t = 0
    PROVE  LET culled == Culled(rows)
           IN  /\ culled \in Seq(Row) /\ Sorted(culled)
               /\ culled # <<>> => culled[1].t = 0
<1> DEFINE S == Kept(rows)
           R == {p \in S \X S : p[1] < p[2]}
           a == Arranged(S, R)
           n == Cardinality(S)
           culled == [k \in 1..n |-> rows[a[k]]]
<1>1. culled = Culled(rows)
  BY DEF Culled
<1>2. 1 \in S /\ S \subseteq DOMAIN rows
  BY FirstIsKept
<1> HIDE DEF S
<1>3. S \subseteq Nat /\ \A x \in S : x >= 1 /\ rows[x] \in Row
  BY <1>2
<1>4. \A x, y \in S : <<x, y>> \in R <=> x < y
  OBVIOUS
<1> HIDE DEF R
<1>5. Orders(R, S)
  <2>1. \A x \in S : <<x, x>> \notin R
    BY <1>3, <1>4
  <2>2. ASSUME NEW x \in S, NEW y \in S, x # y PROVE <<x, y>> \in R \/ <<y, x>> \in R
    <3>1. x \in Nat /\ y \in Nat
      BY <1>3
    <3>2. x < y \/ y < x
      BY <2>2, <3>1
    <3> QED
      BY <1>4, <3>2
  <2>3. ASSUME NEW x \in S, NEW y \in S, NEW z \in S, <<x, y>> \in R, <<y, z>> \in R
        PROVE  <<x, z>> \in R
    <3>1. x \in Nat /\ y \in Nat /\ z \in Nat /\ x < y /\ y < z
      BY <1>3, <1>4, <2>3
    <3>2. x < z
      BY <3>1
    <3> QED
      BY <1>4, <3>2
  <2> QED
    BY <2>1, <2>2, <2>3 DEF Orders
<1>6. /\ n \in Nat /\ Len(culled) = n /\ culled \in Seq(Row)
      /\ a \in [1..n -> S]
      /\ \A x \in S : \E k \in 1..n : a[k] = x
      /\ \A k, l \in 1..n : k < l => <<a[k], a[l]>> \in R
  <2>1. S \in SUBSET DOMAIN rows
    BY <1>2
  <2>2. Chosen(Row, rows, S, R)
    BY <2>1, <1>5, ChosenRows, Zenon
  <2> QED
    BY <2>2, Zenon DEF Chosen
<1>7. \A k \in 1..n : culled[k] = rows[a[k]]
  OBVIOUS
<1> HIDE DEF a, n, culled
<1>8. ASSUME NEW i \in 1..n, NEW j \in 1..n, i <= j
      PROVE  culled[i].t <= culled[j].t
  <2>1. a[i] \in S /\ a[j] \in S
    BY <1>6
  <2>2. a[i] <= a[j]
    <3>1. a[i] \in Nat /\ a[j] \in Nat
      BY <1>3, <2>1
    <3>2. CASE i = j
      BY <3>1, <3>2
    <3>3. CASE i < j
      <4>1. <<a[i], a[j]>> \in R
        BY <1>6, <3>3
      <4> QED
        BY <1>4, <2>1, <3>1, <4>1
    <3> QED
      BY <1>6, <1>8, <3>2, <3>3
  <2>3. rows[a[i]].t <= rows[a[j]].t
    BY <1>2, <2>1, <2>2 DEF Sorted
  <2> QED
    BY <1>7, <2>3
<1>9. Sorted(culled)
  <2>1. DOMAIN culled = 1..n
    BY <1>6
  <2> QED
    BY <1>8, <2>1 DEF Sorted
<1>10. culled # <<>> => culled[1].t = 0
  <2> SUFFICES ASSUME culled # <<>> PROVE culled[1].t = 0
    OBVIOUS
  <2>1. 1 \in 1..n
    BY <1>6
  <2>2. PICK k \in 1..n : a[k] = 1
    BY <1>2, <1>6
  <2>3. a[1] \in S /\ a[1] >= 1 /\ a[1] \in Nat
    BY <1>3, <1>6, <2>1
  <2>4. k = 1
    <3> SUFFICES ASSUME 1 < k PROVE FALSE
      BY <1>6, <2>2
    <3>1. a[1] < 1
      BY <1>2, <1>4, <1>6, <2>1, <2>2, <2>3
    <3> QED
      BY <2>3, <3>1
  <2> QED
    BY <1>7, <2>1, <2>2, <2>4
<1> QED
  BY <1>1, <1>6, <1>9, <1>10

\* The packets of a simulated flight come in pairs, in the order of their
\* times, the first at once.
LEMMA SimulationIsSorted ==
    ASSUME NEW flight, IsFlight(flight)
    PROVE  LET ps == SimulationPackets(flight)
           IN  ps \in Seq(AnyPacket) /\ Sorted(ps) /\ InPairs(ps)
<1> DEFINE rows == Rows(flight)
           all == Injected(rows)
           culled == Culled(all)
<1>1. rows \in Seq(Row) /\ rows # <<>> /\ Sorted(rows)
  BY RowsOfFlight
<1> HIDE DEF rows
<1>2. all \in Seq(Row) /\ all # <<>> /\ Sorted(all) /\ all[1].t = 0
  BY <1>1, InjectedRows
<1> HIDE DEF all
<1>3. culled \in Seq(Row) /\ Sorted(culled) /\ (culled # <<>> => culled[1].t = 0)
  BY <1>2, CulledRows
<1>4. SimulationPackets(flight) = AvPairs(culled, flight.accel, flight.gyro)
  BY DEF SimulationPackets, PostProcessed, culled, all, rows
<1> HIDE DEF culled
<1>5. flight.accel \in Int /\ flight.gyro \in Int
  BY DEF IsFlight
<1> QED
  BY <1>3, <1>4, <1>5, PairsAreSorted

-----------------------------------------------------------------------------
(* Where the program is *)

Places == Final \cup Building \cup {"next", "wait", "send", "row"}

ControlInv ==
    /\ source \in Sources
    /\ pc \in Places
    /\ cause # None <=> pc = "died"
    /\ running \in BOOLEAN /\ starts \in 1..MaxStarts

LEMMA ControlInit == Init => ControlInv
<1> SUFFICES ASSUME Init PROVE ControlInv
  OBVIOUS
<1>1. MaxStarts \in Nat /\ MaxStarts >= 1
  BY ReplayAssumption
<1> QED
  BY <1>1 DEF Init, ControlInv, Places, Building

\* A step that does not die has no cause, one that dies has.
LEMMA ControlStops ==
    ASSUME ControlInv, pc # "died", NEW why \in Places \ {"died"}, Stop(why),
           source' = source, running' \in BOOLEAN, starts' = starts
    PROVE  ControlInv'
  BY DEF ControlInv, Stop

LEMMA ControlDies ==
    ASSUME ControlInv, NEW why, why # None, Die(why),
           source' = source, running' \in BOOLEAN, starts' = starts
    PROVE  ControlInv'
  BY DEF ControlInv, Die, Places, Final

LEMMA ControlStays ==
    ASSUME ControlInv, UNCHANGED <<source, pc, cause, starts>>, running' \in BOOLEAN
    PROVE  ControlInv'
  BY DEF ControlInv

LEMMA CausesAreSome == \A why \in Causes : why # None
  BY CausesAssumption

LEMMA ControlPlays ==
    ASSUME ControlInv, pc # "died", NEW ps, Play(ps), UNCHANGED world
    PROVE  ControlInv'
<1>0. source' = source /\ running' \in BOOLEAN /\ starts' = starts
  BY DEF world, ControlInv
<1>1. CASE ps = <<>>
  <2>1. Die("no packets") /\ "no packets" # None
    BY <1>1, CausesAreSome DEF Play, Causes
  <2> QED
    BY <1>0, <2>1, ControlDies
<1>2. CASE ps # <<>>
  <2>1. Stop("next")
    BY <1>2 DEF Play, Begin
  <2>2. "next" \in Places \ {"died"}
    BY DEF Places
  <2> QED
    BY <1>0, <2>1, <2>2, ControlStops
<1> QED
  BY <1>1, <1>2

LEMMA ControlBuilds == ControlInv /\ Build => ControlInv'
<1> SUFFICES ASSUME ControlInv, Build PROVE ControlInv'
  OBVIOUS
<1>0. source' = source /\ running' \in BOOLEAN /\ starts' = starts /\ pc # "died"
  BY DEF Build, Look, RemoveFiles, MakeDirectory, MakeLock, Compute, ExportCsv,
         ExportJson, Unlock, world, ControlInv
<1>1. \/ \E why \in Building : Stop(why)
      \/ Die("no flight")
  <2>1. {"look", "remove", "make", "lock", "compute", "export", "note", "unlock", "load"}
          \subseteq Building
    BY DEF Building
  <2>2. Look => \E why \in Building : Stop(why)
    BY <2>1 DEF Look
  <2>3. RemoveFiles => \E why \in Building : Stop(why)
    BY <2>1 DEF RemoveFiles
  <2>4. MakeDirectory \/ MakeLock => \E why \in Building : Stop(why)
    BY <2>1 DEF MakeDirectory, MakeLock
  <2>5. Compute => Die("no flight") \/ \E why \in Building : Stop(why)
    BY <2>1 DEF Compute
  <2>6. ExportCsv \/ Unlock => \E why \in Building : Stop(why)
    BY <2>1 DEF ExportCsv, Unlock
  <2>7. ExportJson => \E why \in Building : Stop(why)
    BY <2>1 DEF ExportJson
  <2> QED
    BY <2>2, <2>3, <2>4, <2>5, <2>6, <2>7 DEF Build
<1>2. CASE Die("no flight")
  <2>1. "no flight" # None
    BY CausesAreSome DEF Causes
  <2> QED
    BY <1>0, <1>2, <2>1, ControlDies
<1>3. ASSUME NEW why \in Building, Stop(why) PROVE ControlInv'
  <2>1. why \in Places \ {"died"}
    BY DEF Places, Building
  <2> QED
    BY <1>0, <1>3, <2>1, ControlStops
<1> QED
  BY <1>1, <1>2, <1>3

LEMMA ObstacleIsCause ==
    ASSUME NEW p, Obstacle(p) # None
    PROVE  Obstacle(p) \in Causes
<1> DEFINE gse == {"GSE_TO_GCS_DATA_1", "GSE_TO_GCS_DATA_2"}
           first == IF ~Fits(p.accel * 1024) THEN "acceleration"
                    ELSE IF ~Fits((Capped(p.gyro) * 800) \div 7) THEN "turn rate" ELSE None
           second == IF p.nav THEN None ELSE "navigation status"
<1>0. Obstacle(p) = CASE p.type = "AV_TO_GCS_DATA_1" -> first
                      [] p.type = "AV_TO_GCS_DATA_2" -> second
                      [] p.type \in gse -> "undefined name"
                      [] OTHER -> None
  BY DEF Obstacle
<1>1. Obstacle(p) \in {None, first, second, "undefined name"}
  <2>1. CASE p.type = "AV_TO_GCS_DATA_1"
    <3>1. p.type # "AV_TO_GCS_DATA_2" /\ p.type \notin gse
      BY <2>1
    <3> HIDE DEF first, second, gse
    <3> QED
      BY <1>0, <2>1, <3>1, Zenon
  <2>2. CASE p.type = "AV_TO_GCS_DATA_2"
    <3>1. p.type # "AV_TO_GCS_DATA_1" /\ p.type \notin gse
      BY <2>2
    <3> HIDE DEF first, second, gse
    <3> QED
      BY <1>0, <2>2, <3>1, Zenon
  <2>3. CASE p.type \in gse
    <3>1. p.type # "AV_TO_GCS_DATA_1" /\ p.type # "AV_TO_GCS_DATA_2"
      BY <2>3
    <3> HIDE DEF first, second, gse
    <3> QED
      BY <1>0, <2>3, <3>1, Zenon
  <2>4. CASE p.type \notin gse \cup {"AV_TO_GCS_DATA_1", "AV_TO_GCS_DATA_2"}
    <3>1. p.type # "AV_TO_GCS_DATA_1" /\ p.type # "AV_TO_GCS_DATA_2" /\ p.type \notin gse
      BY <2>4
    <3> HIDE DEF first, second, gse
    <3> QED
      BY <1>0, <3>1, Zenon
  <2> HIDE DEF first, second
  <2> QED
    BY <2>1, <2>2, <2>3, <2>4
<1>2. first \in {"acceleration", "turn rate", None} /\ second \in {"navigation status", None}
  OBVIOUS
<1> HIDE DEF first, second
<1>3. Obstacle(p) \in {"acceleration", "turn rate", "navigation status", "undefined name"}
  BY <1>1, <1>2
<1> QED
  BY <1>3 DEF Causes

LEMMA ControlEngages == ControlInv /\ (Engage \/ Simulate) => ControlInv'
<1> SUFFICES ASSUME ControlInv, Engage \/ Simulate PROVE ControlInv'
  OBVIOUS
<1>0. source' = source /\ running' \in BOOLEAN /\ starts' = starts /\ pc # "died"
  BY DEF Engage, Simulate, Skip, Wait, Sleep, SendPacket, Handle, EndRound,
         SimulatorWait, SendRow, SimulatorEnds, Engine, world, ControlInv
<1>1. \/ \E why \in Places \ {"died"} : Stop(why)
      \/ \E why \in Causes : Die(why)
      \/ UNCHANGED <<source, pc, cause, starts>>
  <2>1. {"next", "wait", "send", "row", "ended", "stopped"} \subseteq Places \ {"died"}
    BY DEF Places, Final
  <2>2. Skip => UNCHANGED <<source, pc, cause, starts>>
    BY DEF Skip, world
  <2>3. Wait => Stop("wait")
    BY DEF Wait
  <2>4. Sleep => \E why \in Places \ {"died"} : Stop(why)
    BY <2>1 DEF Sleep
  <2>5. SendPacket => Stop("send") \/ Stop("stopped")
    BY DEF SendPacket
  <2>6. Handle => Stop("next") \/ \E why \in Causes : Die(why)
    BY ObstacleIsCause DEF Handle
  <2>7. EndRound => Stop("next") \/ Stop("ended") \/ Stop("stopped")
    BY DEF EndRound, Begin
  <2>8. SimulatorWait => Stop("row") \/ Stop("stopped")
    BY DEF SimulatorWait
  <2>9. SendRow => Stop("next") \/ Die("reading")
    BY DEF SendRow
  <2>10. SimulatorEnds => Stop("ended")
    BY DEF SimulatorEnds
  <2>11. "reading" \in Causes
    BY DEF Causes
  <2> QED
    BY <2>1, <2>2, <2>3, <2>4, <2>5, <2>6, <2>7, <2>8, <2>9, <2>10, <2>11
       DEF Engage, Simulate
<1>2. ASSUME NEW why \in Places \ {"died"}, Stop(why) PROVE ControlInv'
  BY <1>0, <1>2, ControlStops
<1>3. ASSUME NEW why \in Causes, Die(why) PROVE ControlInv'
  BY <1>0, <1>3, CausesAreSome, ControlDies
<1>4. CASE UNCHANGED <<source, pc, cause, starts>>
  BY <1>0, <1>4, ControlStays
<1> QED
  BY <1>1, <1>2, <1>3, <1>4

LEMMA ControlStep == ControlInv /\ [Next]_vars => ControlInv'
<1> SUFFICES ASSUME ControlInv, [Next]_vars PROVE ControlInv'
  OBVIOUS
<1>1. CASE Build
  BY <1>1, ControlBuilds
<1>2. CASE Engage \/ Simulate
  BY <1>2, ControlEngages
<1>3. CASE Start
  <2>1. pc # "died" /\ UNCHANGED world
    BY <1>3 DEF Start
  <2>2. source' = source /\ running' \in BOOLEAN /\ starts' = starts
    BY <2>1 DEF world, ControlInv
  <2>3. CASE \E ps : Play(ps)
    BY <2>1, <2>3, ControlPlays
  <2>4. CASE Die("arguments")
    BY <2>2, <2>4, CausesAreSome, ControlDies DEF Causes
  <2>5. CASE Stop("look")
    <3>1. "look" \in Places \ {"died"}
      BY DEF Places, Building
    <3> QED
      BY <2>1, <2>2, <2>5, <3>1, ControlStops
  <2> QED
    BY <1>3, <2>3, <2>4, <2>5 DEF Start
<1>4. CASE Load
  <2>1. pc # "died" /\ UNCHANGED world
    BY <1>4 DEF Load
  <2>2. source' = source /\ running' \in BOOLEAN /\ starts' = starts
    BY <2>1 DEF world, ControlInv
  <2>3. CASE \E ps : Play(ps)
    BY <2>1, <2>3, ControlPlays
  <2>4. CASE Die("cache")
    BY <2>2, <2>4, CausesAreSome, ControlDies DEF Causes
  <2> QED
    BY <1>4, <2>3, <2>4 DEF Load
<1>5. CASE Signal
  BY <1>5, ControlStays DEF Signal
<1>6. CASE Kill
  <2>1. source' = source /\ running' \in BOOLEAN /\ starts' = starts /\ pc # "died"
    BY <1>6 DEF Kill, world, ControlInv, Final
  <2>2. "killed" \in Places \ {"died"} /\ Stop("killed")
    BY <1>6 DEF Kill, Places, Final
  <2> QED
    BY <2>1, <2>2, ControlStops
<1>7. CASE Restart
  <2>1. starts + 1 \in 1..MaxStarts
    BY <1>7, ReplayAssumption DEF Restart, ControlInv
  <2> QED
    BY <1>7, <2>1 DEF Restart, ControlInv, Places, Building
<1>8. CASE UNCHANGED vars
  BY <1>8 DEF vars, ControlInv
<1> QED
  BY <1>1, <1>2, <1>3, <1>4, <1>5, <1>6, <1>7, <1>8 DEF Next

-----------------------------------------------------------------------------
(* What is played *)

AvTypes == {"AV_TO_GCS_DATA_1", "AV_TO_GCS_DATA_2"}

Plays ==
    /\ packets \in Seq(AnyPacket) /\ Sorted(packets)
    /\ source.mode = "simulator" => InPairs(packets)

\* Of the list, the packet at hand and what was sent of those before it.
Numbers ==
    /\ next \in 1..Len(packets) + 1 /\ now \in Nat
    /\ origin \in Int /\ chunk \in Int /\ remaining \in Int
    /\ earliest \in [AvTypes -> Int]
    /\ sent \in Seq([i : Nat, at : Nat])
    /\ \A k \in DOMAIN sent : sent[k].i \in 1..next - 1 /\ sent[k].at <= now
    /\ \A k, l \in DOMAIN sent : k < l => sent[k].i < sent[l].i

AtPlaces ==
    /\ pc \in {"next", "wait", "send", "row"} => packets # <<>>
    /\ pc \in {"wait", "send"} => source.mode # "simulator" /\ next \in DOMAIN packets
    /\ pc = "row" => source.mode = "simulator" /\ next \in DOMAIN packets
    /\ source.mode = "simulator" => \E m \in Nat : next = 2 * m + 1
    /\ pc \in Building => packets = <<>> /\ sent = <<>> /\ now = 0 /\ next = 1

\* A packet that is waited for has moved its limit, and is not written yet.
Count(type) == Cardinality(SentOf(type, next - 1))
AtHand(type) == pc # "next" /\ packets[next].type = type
Limiter ==
    running /\ source.mode # "simulator" /\ pc \in {"next", "wait", "send"} =>
        \A type \in AvTypes :
            /\ AtHand(type) => /\ earliest[type] = origin + Frame * (Count(type) + 1)
                               /\ packets[next].t >= Frame * Count(type)
            /\ ~AtHand(type) => earliest[type] = origin + Frame * Count(type)

LastAt == IF sent = <<>> THEN 0 ELSE sent[Len(sent)].at
LastIndex == IF sent = <<>> THEN 0 ELSE sent[Len(sent)].i
OnTime(i) == Later(Due(packets[i]) + Chunk - 1, LastAt)

\* How late the engine can be: since the last packet written, a sleep and the
\* time to send each packet since.
Clock ==
    source.mode # "simulator" =>
        /\ pc = "next" =>
             \/ now = LastAt /\ LastIndex = next - 1
             \/ /\ next > 1
                /\ now <= OnTime(next - 1) + (next - 1 - LastIndex) * SendTime
        /\ pc = "wait" =>
             /\ now <= OnTime(next) + (next - 1 - LastIndex) * SendTime
             /\ now + remaining = Due(packets[next])
             /\ remaining > 0 => chunk \in 1..Chunk
        /\ pc = "send" =>
             /\ now <= OnTime(next) + (next - LastIndex) * SendTime
             /\ now >= Due(packets[next]) + SendTime

\* The simulator's clock is the time of the row.
SimulatorClock ==
    source.mode = "simulator" =>
        /\ pc = "next" => now = IF next = 1 THEN 0 ELSE packets[next - 1].t
        /\ pc = "row" => now = packets[next].t

PlayInv ==
    /\ Plays /\ Numbers /\ AtPlaces /\ Limiter /\ Clock /\ SimulatorClock
    /\ EachTypeHasItsFrames /\ PlayedOnTime

\* The program has just been started.
Fresh ==
    /\ packets = <<>> /\ next = 1 /\ now = 0 /\ origin = 0 /\ earliest = Unlimited
    /\ chunk = 0 /\ remaining = 0 /\ sent = <<>> /\ pc = "start"

LEMMA PlayFresh == Fresh => PlayInv
<1> SUFFICES ASSUME Fresh PROVE PlayInv
  OBVIOUS
<1>1. packets = <<>> /\ sent = <<>> /\ next = 1 /\ now = 0 /\ pc = "start"
  BY DEF Fresh
<1>2. DOMAIN packets = {} /\ DOMAIN sent = {} /\ Len(packets) = 0
  BY <1>1
<1>3. Plays
  <2>1. packets \in Seq(AnyPacket)
    BY <1>1
  <2>2. Sorted(packets)
    BY <1>2 DEF Sorted
  <2>3. InPairs(packets)
    <3>1. 0 \in Nat /\ Len(packets) = 2 * 0
      BY <1>2
    <3> QED
      BY <1>1, <1>2, <3>1 DEF InPairs
  <2> QED
    BY <2>1, <2>2, <2>3 DEF Plays
<1>4. Numbers
  <2>1. earliest \in [AvTypes -> Int] /\ origin \in Int /\ chunk \in Int /\ remaining \in Int
    BY DEF Fresh, Unlimited, AvTypes
  <2> QED
    BY <1>1, <1>2, <2>1 DEF Numbers
<1>5. AtPlaces
  <2>1. 0 \in Nat /\ next = 2 * 0 + 1
    BY <1>1
  <2> QED
    BY <1>1, <2>1 DEF AtPlaces
<1>6. Limiter /\ Clock /\ SimulatorClock
  BY <1>1 DEF Limiter, Clock, SimulatorClock
<1>7. EachTypeHasItsFrames
  BY <1>1 DEF EachTypeHasItsFrames
<1>8. PlayedOnTime
  BY <1>2 DEF PlayedOnTime
<1> QED
  BY <1>3, <1>4, <1>5, <1>6, <1>7, <1>8 DEF PlayInv

LEMMA PlayFreshNext == Fresh' => PlayInv'
  BY PlayFresh, PTL

LEMMA PlayInit == Init => PlayInv
  BY PlayFresh DEF Init, Fresh

\* A step that plays nothing: it builds, goes on building, or ends.
LEMMA PlayRests ==
    ASSUME PlayInv, UNCHANGED <<player, source>>, running' => running,
           pc' \in Final \cup Building, pc' \in Building => pc \in Building
    PROVE  PlayInv'
<1>1. /\ packets' = packets /\ next' = next /\ now' = now /\ origin' = origin
      /\ earliest' = earliest /\ chunk' = chunk /\ remaining' = remaining /\ sent' = sent
      /\ source' = source
  BY DEF player
<1>2. pc' \notin {"next", "wait", "send", "row"}
  BY DEF Final, Building
<1>3. Plays' /\ Numbers'
  BY <1>1 DEF PlayInv, Plays, Numbers
<1>4. AtPlaces'
  BY <1>1, <1>2 DEF PlayInv, AtPlaces
<1>5. Limiter' /\ Clock' /\ SimulatorClock'
  BY <1>2 DEF Limiter, Clock, SimulatorClock
<1>6. EachTypeHasItsFrames'
  BY <1>1 DEF PlayInv, EachTypeHasItsFrames, SentOf
<1>7. PlayedOnTime'
  BY <1>1 DEF PlayInv, PlayedOnTime, Due
<1> QED
  BY <1>3, <1>4, <1>5, <1>6, <1>7 DEF PlayInv

\* A signal, or no step at all.
LEMMA PlayStays ==
    ASSUME PlayInv, UNCHANGED <<player, source, pc>>, running' => running
    PROVE  PlayInv'
<1>1. /\ packets' = packets /\ next' = next /\ now' = now /\ origin' = origin
      /\ earliest' = earliest /\ chunk' = chunk /\ remaining' = remaining /\ sent' = sent
      /\ source' = source /\ pc' = pc
  BY DEF player
<1>2. Plays' /\ Numbers'
  BY <1>1 DEF PlayInv, Plays, Numbers
<1>3. AtPlaces'
  BY <1>1 DEF PlayInv, AtPlaces
<1>4. Limiter'
  BY <1>1 DEF PlayInv, Limiter, AtHand, Count, SentOf
<1>5. Clock' /\ SimulatorClock'
  BY <1>1 DEF PlayInv, Clock, SimulatorClock, OnTime, LastAt, LastIndex, Due
<1>6. EachTypeHasItsFrames'
  BY <1>1 DEF PlayInv, EachTypeHasItsFrames, SentOf
<1>7. PlayedOnTime'
  BY <1>1 DEF PlayInv, PlayedOnTime, Due
<1> QED
  BY <1>2, <1>3, <1>4, <1>5, <1>6, <1>7 DEF PlayInv

LEMMA NoFrames ==
    ASSUME NEW a \in Int, NEW f \in Nat
    PROVE  a = a + f * 0
  OBVIOUS

\* A round begins.
LEMMA PlayBegins ==
    ASSUME NEW ps, ps \in Seq(AnyPacket), Sorted(ps), ps # <<>>,
           source.mode = "simulator" => InPairs(ps),
           Begin(ps), packets' = ps, source' = source,
           DOMAIN earliest = AvTypes, chunk' \in Int, remaining' \in Int
    PROVE  PlayInv'
<1>1. /\ next' = 1 /\ now' = 0 /\ sent' = <<>> /\ pc' = "next"
      /\ earliest' = [type \in AvTypes |-> origin']
  BY DEF Begin, Stop
<1>2. Len(ps) \in Nat /\ Len(ps) >= 1 /\ 1 \in DOMAIN ps
  OBVIOUS
<1>3. origin' \in Int
  <2>1. ps[1] \in AnyPacket
    BY <1>2
  <2>2. ps[1].t \in Nat
    BY <2>1 DEF AnyPacket
  <2>3. ValidTimeout(ps) \in Int
    BY <2>2, FlightDataAssumption, ReplayAssumption DEF ValidTimeout
  <2> QED
    BY <2>3 DEF Begin
<1>4. DOMAIN sent' = {}
  BY <1>1
<1>5. Plays'
  BY DEF Plays
<1>6. Numbers'
  BY <1>1, <1>2, <1>3, <1>4 DEF Numbers
<1>7. AtPlaces'
  <2>1. 0 \in Nat /\ next' = 2 * 0 + 1
    BY <1>1
  <2> QED
    BY <1>1, <2>1 DEF AtPlaces, Building
<1>8. Limiter'
  <2>1. ASSUME NEW type \in AvTypes
        PROVE  earliest'[type] = origin' + Frame * Cardinality(SentOf(type, next - 1)')
    <3>1. SentOf(type, next - 1)' = {}
      BY <1>4 DEF SentOf
    <3>2. Cardinality(SentOf(type, next - 1)') = 0
      BY <3>1, FS_EmptySet
    <3>3. earliest'[type] = origin'
      BY <1>1
    <3>4. origin' = origin' + Frame * 0
      BY <1>3, NoFrames, ReplayAssumption
    <3> QED
      BY <3>2, <3>3, <3>4
  <2> QED
    BY <1>1, <2>1 DEF Limiter, Count, AtHand
<1>9. Clock' /\ SimulatorClock'
  BY <1>1 DEF Clock, SimulatorClock, LastAt, LastIndex
<1>10. EachTypeHasItsFrames'
  BY <1>1 DEF EachTypeHasItsFrames
<1>11. PlayedOnTime'
  BY <1>4 DEF PlayedOnTime
<1> QED
  BY <1>5, <1>6, <1>7, <1>8, <1>9, <1>10, <1>11 DEF PlayInv

-----------------------------------------------------------------------------
(* What the steps of a round share *)

LEMMA PacketAt ==
    ASSUME Plays, NEW i \in DOMAIN packets
    PROVE  packets[i].t \in Nat
<1>1. packets[i] \in AnyPacket
  BY DEF Plays
<1> QED
  BY <1>1 DEF AnyPacket

LEMMA SentAt ==
    ASSUME Numbers
    PROVE  /\ Len(sent) \in Nat /\ DOMAIN sent = 1..Len(sent)
           /\ \A k \in DOMAIN sent : sent[k].i \in Nat /\ sent[k].at \in Nat
<1> DEFINE T == [i : Nat, at : Nat]
<1>1. sent \in Seq(T)
  BY DEF Numbers
<1>2. \A k \in DOMAIN sent : sent[k] \in T
  <2> HIDE DEF T
  <2> QED
    BY <1>1
<1>3. Len(sent) \in Nat /\ DOMAIN sent = 1..Len(sent)
  <2> HIDE DEF T
  <2> QED
    BY <1>1
<1> QED
  BY <1>2, <1>3

LEMMA LastTyped ==
    ASSUME Numbers
    PROVE  LastAt \in Nat /\ LastAt <= now /\ LastIndex \in 0..next - 1
<1>1. next \in Nat /\ next >= 1 /\ now \in Nat
  <2>1. Len(packets) \in Nat \/ next \in 1..Len(packets) + 1
    BY DEF Numbers
  <2> QED
    BY DEF Numbers
<1>2. CASE sent = <<>>
  BY <1>1, <1>2 DEF LastAt, LastIndex
<1>3. CASE sent # <<>>
  <2>1. Len(sent) \in DOMAIN sent
    <3>1. sent \in Seq([i : Nat, at : Nat])
      BY DEF Numbers
    <3> QED
      BY <1>3, <3>1
  <2>2. sent[Len(sent)].i \in 1..next - 1 /\ sent[Len(sent)].at <= now
    BY <2>1 DEF Numbers
  <2>3. sent[Len(sent)].at \in Nat
    BY <2>1, SentAt
  <2> QED
    BY <1>1, <1>3, <2>2, <2>3 DEF LastAt, LastIndex
<1> QED
  BY <1>2, <1>3

LEMMA OnTimeAscends ==
    ASSUME Plays, Numbers, NEW i \in DOMAIN packets, NEW j \in DOMAIN packets, i <= j
    PROVE  /\ OnTime(i) \in Int /\ OnTime(j) \in Int
           /\ OnTime(i) <= OnTime(j) /\ LastAt <= OnTime(i)
           /\ Due(packets[i]) + Chunk - 1 <= OnTime(i)
<1>1. packets[i].t \in Nat /\ packets[j].t \in Nat /\ packets[i].t <= packets[j].t
  BY PacketAt DEF Plays, Sorted
<1>2. LastAt \in Nat /\ origin \in Int /\ Chunk \in Nat
  BY LastTyped, ReplayAssumption DEF Numbers
<1> QED
  BY <1>1, <1>2 DEF OnTime, Due, Later

LEMMA SentFinite ==
    ASSUME Numbers, NEW type, NEW last
    PROVE  IsFiniteSet(SentOf(type, last)) /\ Cardinality(SentOf(type, last)) \in Nat
<1>1. SentOf(type, last) \subseteq 1..Len(sent) /\ Len(sent) \in Nat
  BY SentAt DEF SentOf
<1>2. IsFiniteSet(1..Len(sent))
  <2>1. 1 \in Int /\ Len(sent) \in Int
    BY <1>1
  <2> QED
    BY <2>1, FS_Interval, Zenon
<1>3. IsFiniteSet(SentOf(type, last))
  BY <1>1, <1>2, FS_Subset
<1> QED
  BY <1>3, FS_CardinalityType

\* All that was sent lies before the packet at hand.
LEMMA AllBefore ==
    ASSUME Numbers, NEW type, NEW last \in Int, last >= next - 1
    PROVE  SentOf(type, last) = SentOf(type, next - 1)
<1>1. next \in Int
  BY DEF Numbers
<1>2. ASSUME NEW k \in DOMAIN sent PROVE sent[k].i <= last /\ sent[k].i <= next - 1
  <2>1. sent[k].i \in 1..next - 1
    BY DEF Numbers
  <2> QED
    BY <1>1, <2>1
<1> QED
  BY <1>2 DEF SentOf

\* A step that writes nothing.
LEMMA NothingSent ==
    ASSUME PlayInv, UNCHANGED <<packets, origin, sent, source>>,
           next' \in 1..Len(packets) + 1, next <= next', now' \in Nat, now <= now',
           chunk' \in Int, remaining' \in Int, earliest' \in [AvTypes -> Int]
    PROVE  Plays' /\ Numbers' /\ PlayedOnTime'
<1> USE DEF PlayInv
<1>1. Plays'
  BY DEF Plays
<1>2. \A k \in DOMAIN sent : sent[k].i \in 1..next' - 1 /\ sent[k].at <= now'
  <2> SUFFICES ASSUME NEW k \in DOMAIN sent
               PROVE  sent[k].i \in 1..next' - 1 /\ sent[k].at <= now'
    OBVIOUS
  <2>1. sent[k].i \in 1..next - 1 /\ sent[k].at <= now /\ sent[k].at \in Nat
    BY SentAt DEF Numbers
  <2>2. next \in Int /\ now \in Int
    BY DEF Numbers
  <2> QED
    BY <2>1, <2>2
<1>3. Numbers'
  BY <1>2 DEF Numbers
<1>4. PlayedOnTime'
  BY DEF PlayedOnTime, Due
<1> QED
  BY <1>1, <1>3, <1>4

LEMMA FramesKept ==
    ASSUME PlayInv, UNCHANGED <<packets, sent, source, next>>, running' => running,
           earliest' \in [AvTypes -> Int]
    PROVE  EachTypeHasItsFrames'
<1>1. DOMAIN earliest = AvTypes /\ DOMAIN earliest' = AvTypes
  BY DEF PlayInv, Numbers
<1> QED
  BY <1>1 DEF PlayInv, EachTypeHasItsFrames, SentOf

\* A packet that is passed over, rightly.
LEMMA PassedOver ==
    ASSUME PlayInv, UNCHANGED <<packets, sent, source, earliest>>, next' = next + 1,
           running' => running,
           /\ running /\ source.mode # "simulator"
           /\ packets[next].type \in AvTypes
           => ~(packets[next].t >= Frame * Count(packets[next].type))
    PROVE  EachTypeHasItsFrames'
<1>1. DOMAIN earliest = AvTypes /\ next \in Nat /\ next >= 1
  BY DEF PlayInv, Numbers
<1> SUFFICES ASSUME source.mode # "simulator", running, NEW i \in 1..next,
                    packets[i].type \in AvTypes
             PROVE  (\E k \in DOMAIN sent : sent[k].i = i) <=>
                       (packets[i].t >= Frame * Cardinality(SentOf(packets[i].type, i - 1)))
  <2>1. next' - 1 = next
    BY <1>1
  <2> QED
    BY <1>1, <2>1 DEF EachTypeHasItsFrames, SentOf
<1>2. CASE i \in 1..next - 1
  BY <1>1, <1>2 DEF PlayInv, EachTypeHasItsFrames
<1>3. CASE i = next
  <2>1. ~ \E k \in DOMAIN sent : sent[k].i = i
    <3> SUFFICES ASSUME NEW k \in DOMAIN sent, sent[k].i = next PROVE FALSE
      BY <1>3
    <3>1. sent[k].i \in 1..next - 1
      BY DEF PlayInv, Numbers
    <3> QED
      BY <1>1, <3>1
  <2>2. ~(packets[i].t >= Frame * Cardinality(SentOf(packets[i].type, i - 1)))
    BY <1>3 DEF Count
  <2> QED
    BY <2>1, <2>2
<1> QED
  BY <1>1, <1>2, <1>3


-----------------------------------------------------------------------------
(* A round of the engine *)

\* Where the packet at hand is a number of the list.
LEMMA AtPacket ==
    ASSUME PlayInv, next <= Len(packets)
    PROVE  /\ next \in DOMAIN packets /\ next \in Nat /\ next >= 1
           /\ next + 1 \in 1..Len(packets) + 1
           /\ packets[next].t \in Nat /\ Due(packets[next]) \in Int
<1>1. packets \in Seq(AnyPacket) /\ next \in 1..Len(packets) + 1 /\ origin \in Int
  BY DEF PlayInv, Plays, Numbers
<1>2. next \in DOMAIN packets /\ next \in Nat /\ next >= 1 /\ next + 1 \in 1..Len(packets) + 1
  BY <1>1
<1>3. packets[next].t \in Nat
  BY <1>2, PacketAt DEF PlayInv
<1> QED
  BY <1>1, <1>2, <1>3 DEF Due

LEMMA FramesOf ==
    ASSUME NEW o \in Int, NEW t \in Int, NEW c \in Nat
    PROVE  /\ o + t < o + Frame * c <=> ~(t >= Frame * c)
           /\ o + Frame * c + Frame = o + Frame * (c + 1)
           /\ Frame * c \in Nat
<1>1. Frame \in Nat
  BY ReplayAssumption
<1>2. Frame * c \in Nat /\ Frame * (c + 1) = Frame * c + Frame
  BY <1>1
<1> QED
  BY <1>1, <1>2

LEMMA SkipPlays == PlayInv /\ Skip => PlayInv'
<1> SUFFICES ASSUME PlayInv, Skip PROVE PlayInv'
  OBVIOUS
<1> DEFINE p == packets[next]
<1>1. /\ pc = "next" /\ running /\ source.mode # "simulator" /\ next <= Len(packets)
      /\ p.type \in DOMAIN earliest /\ Due(p) < earliest[p.type]
      /\ next' = next + 1 /\ pc' = pc /\ running' = running
      /\ UNCHANGED <<packets, origin, sent, source, now, earliest, chunk, remaining>>
  BY DEF Skip, Engine, TooSoon, Advance, world
<1>2. /\ next \in DOMAIN packets /\ next \in Nat /\ next >= 1
      /\ next + 1 \in 1..Len(packets) + 1 /\ p.t \in Nat
  BY <1>1, AtPacket
<1>3. /\ DOMAIN earliest = AvTypes /\ earliest \in [AvTypes -> Int] /\ now \in Nat
      /\ chunk \in Int /\ remaining \in Int /\ origin \in Int /\ Numbers /\ Plays
  BY DEF PlayInv, Numbers
<1>4. Plays' /\ Numbers' /\ PlayedOnTime'
  BY <1>1, <1>2, <1>3, NothingSent
<1>5. \A type \in AvTypes : earliest[type] = origin + Frame * Count(type)
  BY <1>1 DEF PlayInv, Limiter, AtHand
<1>6. EachTypeHasItsFrames'
  <2>1. origin + p.t < origin + Frame * Count(p.type)
    BY <1>1, <1>3, <1>5 DEF Due
  <2>2. Count(p.type) \in Nat
    BY <1>3, SentFinite DEF Count
  <2>3. ~(p.t >= Frame * Count(p.type))
    BY <1>2, <1>3, <2>1, <2>2, FramesOf
  <2> QED
    BY <1>1, <2>3, PassedOver
<1>7. AtPlaces'
  BY <1>1 DEF PlayInv, AtPlaces, Building
<1>8. Limiter'
  <2>1. ASSUME NEW type \in AvTypes
        PROVE  earliest'[type] = origin' + Frame * Cardinality(SentOf(type, next - 1)')
    <3>1. SentOf(type, next - 1)' = SentOf(type, next)
      BY <1>1, <1>2 DEF SentOf
    <3>2. SentOf(type, next) = SentOf(type, next - 1)
      BY <1>2, <1>3, AllBefore
    <3> QED
      BY <1>1, <1>5, <3>1, <3>2 DEF Count
  <2> QED
    BY <1>1, <2>1 DEF Limiter, Count, AtHand
<1>9. Clock'
  <2>1. LastAt \in Nat /\ LastIndex \in 0..next - 1 /\ SendTime \in Nat
    BY <1>3, LastTyped, ReplayAssumption
  <2>2. now <= OnTime(next) + (next - LastIndex) * SendTime
    <3>1. CASE now = LastAt /\ LastIndex = next - 1
      <4>1. now <= OnTime(next) /\ OnTime(next) \in Int
        BY <1>2, <1>3, <3>1, OnTimeAscends
      <4>2. next - LastIndex = 1 /\ 1 * SendTime = SendTime
        BY <1>2, <2>1, <3>1
      <4> QED
        BY <1>3, <2>1, <4>1, <4>2
    <3>2. CASE next > 1 /\ now <= OnTime(next - 1) + (next - 1 - LastIndex) * SendTime
      <4>1. next - 1 \in DOMAIN packets
        BY <1>2, <1>3, <3>2 DEF Plays
      <4>2. OnTime(next - 1) <= OnTime(next) /\ OnTime(next - 1) \in Int /\ OnTime(next) \in Int
        BY <1>2, <1>3, <4>1, OnTimeAscends
      <4>3. /\ (next - LastIndex) * SendTime = (next - 1 - LastIndex) * SendTime + SendTime
            /\ (next - 1 - LastIndex) * SendTime \in Int
        BY <1>2, <2>1
      <4> QED
        BY <1>3, <2>1, <3>2, <4>2, <4>3
    <3> QED
      BY <1>1, <3>1, <3>2 DEF PlayInv, Clock
  <2>3. next' - 1 = next /\ next' > 1 /\ next' \in Int
    BY <1>1, <1>2
  <2>4. OnTime(next - 1)' = OnTime(next) /\ LastIndex' = LastIndex
    BY <1>1, <2>3 DEF OnTime, LastAt, LastIndex, Due
  <2> QED
    BY <1>1, <2>2, <2>3, <2>4 DEF Clock
<1>10. SimulatorClock'
  BY <1>1 DEF SimulatorClock
<1> QED
  BY <1>4, <1>6, <1>7, <1>8, <1>9, <1>10 DEF PlayInv

LEMMA WaitPlays == PlayInv /\ Wait => PlayInv'
<1> SUFFICES ASSUME PlayInv, Wait PROVE PlayInv'
  OBVIOUS
<1> DEFINE p == packets[next]
           wait == Due(p) - now
<1>1. /\ pc = "next" /\ running /\ source.mode # "simulator" /\ next <= Len(packets)
      /\ p.type \in DOMAIN earliest => ~(Due(p) < earliest[p.type])
      /\ earliest' = [type \in DOMAIN earliest |->
            IF type = p.type THEN earliest[type] + Frame ELSE earliest[type]]
      /\ chunk' = (IF wait < Chunk THEN wait ELSE Chunk) /\ remaining' = wait
      /\ pc' = "wait" /\ running' = running /\ next' = next
      /\ UNCHANGED <<packets, origin, sent, source, now>>
  BY DEF Wait, Engine, TooSoon, Stop, world
<1>2. /\ next \in DOMAIN packets /\ next \in Nat /\ next >= 1
      /\ p.t \in Nat /\ Due(p) \in Int
  BY <1>1, AtPacket
<1>3. /\ DOMAIN earliest = AvTypes /\ earliest \in [AvTypes -> Int] /\ now \in Nat
      /\ next \in 1..Len(packets) + 1 /\ origin \in Int /\ Numbers /\ Plays
      /\ Frame \in Nat /\ Chunk \in Nat /\ Chunk >= 1
  BY ReplayAssumption DEF PlayInv, Numbers
<1>4. Plays' /\ Numbers' /\ PlayedOnTime'
  <2>1. earliest' \in [AvTypes -> Int]
    BY <1>1, <1>3
  <2>2. wait \in Int /\ chunk' \in Int /\ remaining' \in Int
    BY <1>1, <1>2, <1>3
  <2> QED
    BY <1>1, <1>3, <2>1, <2>2, NothingSent
<1>5. \A type \in AvTypes : earliest[type] = origin + Frame * Count(type)
  BY <1>1 DEF PlayInv, Limiter, AtHand
<1>6. EachTypeHasItsFrames'
  <2>1. earliest' \in [AvTypes -> Int]
    BY <1>4 DEF Numbers
  <2> QED
    BY <1>1, <2>1, FramesKept
<1>7. AtPlaces'
  <2>1. packets # <<>>
    BY <1>1 DEF PlayInv, AtPlaces
  <2> QED
    BY <1>1, <1>2, <2>1 DEF AtPlaces, Building
<1>8. Limiter'
  <2> DEFINE c(type) == Cardinality(SentOf(type, next - 1))
  <2>1. ASSUME NEW type \in AvTypes
        PROVE  /\ p.type = type => /\ earliest'[type] = origin + Frame * (c(type) + 1)
                                   /\ p.t >= Frame * c(type)
               /\ p.type # type => earliest'[type] = origin + Frame * c(type)
    <3>1. c(type) \in Nat
      BY <1>3, SentFinite
    <3>2. earliest[type] = origin + Frame * c(type)
      BY <1>5 DEF Count
    <3>3. p.type = type => earliest'[type] = earliest[type] + Frame
      BY <1>1, <1>3
    <3>4. p.type # type => earliest'[type] = earliest[type]
      BY <1>1, <1>3
    <3>5. p.type = type => ~(origin + p.t < earliest[type])
      BY <1>1, <1>3 DEF Due
    <3> HIDE DEF c, p
    <3> QED
      BY <1>2, <1>3, <3>1, <3>2, <3>3, <3>4, <3>5, FramesOf
  <2>2. \A type : SentOf(type, next - 1)' = SentOf(type, next - 1)
    BY <1>1 DEF SentOf
  <2> QED
    BY <1>1, <2>1, <2>2 DEF Limiter, Count, AtHand
<1>9. Clock'
  <2>1. LastAt \in Nat /\ LastIndex \in 0..next - 1 /\ SendTime \in Nat
    BY <1>3, LastTyped, ReplayAssumption
  <2>2. now <= OnTime(next) + (next - 1 - LastIndex) * SendTime
    <3>1. CASE now = LastAt /\ LastIndex = next - 1
      <4>1. now <= OnTime(next) /\ OnTime(next) \in Int
        BY <1>2, <1>3, <3>1, OnTimeAscends
      <4>2. (next - 1 - LastIndex) = 0 /\ 0 * SendTime = 0
        BY <1>2, <2>1, <3>1
      <4> QED
        BY <1>3, <2>1, <4>1, <4>2
    <3>2. CASE next > 1 /\ now <= OnTime(next - 1) + (next - 1 - LastIndex) * SendTime
      <4>1. next - 1 \in DOMAIN packets
        BY <1>2, <1>3, <3>2 DEF Plays
      <4>2. OnTime(next - 1) <= OnTime(next) /\ OnTime(next - 1) \in Int /\ OnTime(next) \in Int
        BY <1>2, <1>3, <4>1, OnTimeAscends
      <4>3. (next - 1 - LastIndex) * SendTime \in Int
        BY <1>2, <2>1
      <4> QED
        BY <1>3, <2>1, <3>2, <4>2, <4>3
    <3> QED
      BY <1>1, <3>1, <3>2 DEF PlayInv, Clock
  <2>3. /\ OnTime(next)' = OnTime(next) /\ LastIndex' = LastIndex
        /\ Due(packets[next])' = Due(p)
    BY <1>1 DEF OnTime, LastAt, LastIndex, Due
  <2>4. now + wait = Due(p) /\ (wait > 0 => chunk' \in 1..Chunk)
    BY <1>1, <1>2, <1>3
  <2> HIDE DEF p, wait
  <2> QED
    BY <1>1, <2>2, <2>3, <2>4 DEF Clock
<1>10. SimulatorClock'
  BY <1>1 DEF SimulatorClock
<1> QED
  BY <1>4, <1>6, <1>7, <1>8, <1>9, <1>10 DEF PlayInv


LEMMA SleepPlays == PlayInv /\ Sleep => PlayInv'
<1> SUFFICES ASSUME PlayInv, Sleep PROVE PlayInv'
  OBVIOUS
<1>1. /\ pc = "wait" /\ remaining > 0 /\ pc' \in {"wait", "stopped"}
      /\ now' = now + chunk /\ remaining' = remaining - chunk
      /\ running' = running
      /\ UNCHANGED <<packets, next, origin, sent, source, earliest, chunk>>
  BY DEF Sleep, Stop, world
<1>2. /\ source.mode # "simulator" /\ next \in DOMAIN packets
      /\ earliest \in [AvTypes -> Int] /\ now \in Nat /\ remaining \in Int
      /\ next \in 1..Len(packets) + 1 /\ origin \in Int /\ Numbers /\ Plays
      /\ Chunk \in Nat
  BY <1>1, ReplayAssumption DEF PlayInv, Numbers, AtPlaces
<1>3. /\ now + remaining = Due(packets[next]) /\ chunk \in 1..Chunk
  BY <1>1, <1>2 DEF PlayInv, Clock
<1>4. now' \in Nat /\ now <= now' /\ remaining' \in Int /\ chunk' \in Int
  BY <1>1, <1>2, <1>3
<1>5. Plays' /\ Numbers' /\ PlayedOnTime'
  <2>1. next \in Int
    BY <1>2
  <2> QED
    BY <1>1, <1>2, <1>4, <2>1, NothingSent
<1>6. EachTypeHasItsFrames'
  BY <1>1, <1>2, FramesKept
<1>7. AtPlaces'
  BY <1>1 DEF PlayInv, AtPlaces, Building
<1>8. Limiter'
  BY <1>1 DEF PlayInv, Limiter, AtHand, Count, SentOf
<1>9. Clock'
  <2>1. now' <= OnTime(next) /\ OnTime(next) \in Int
    <3>1. Due(packets[next]) + Chunk - 1 <= OnTime(next) /\ OnTime(next) \in Int
      BY <1>2, OnTimeAscends
    <3>2. packets[next].t \in Nat
      BY <1>2, PacketAt
    <3>3. Due(packets[next]) \in Int
      BY <1>2, <3>2 DEF Due
    <3> QED
      BY <1>1, <1>2, <1>3, <3>1, <3>3
  <2>2. (next - 1 - LastIndex) * SendTime \in Nat
    <3>1. LastIndex \in 0..next - 1 /\ SendTime \in Nat /\ next \in Nat
      BY <1>2, LastTyped, ReplayAssumption
    <3>2. next - 1 - LastIndex \in Nat
      BY <3>1
    <3> QED
      BY <3>1, <3>2
  <2>3. now' <= OnTime(next) + (next - 1 - LastIndex) * SendTime
    BY <1>4, <2>1, <2>2
  <2>4. /\ OnTime(next)' = OnTime(next) /\ LastIndex' = LastIndex
        /\ Due(packets[next])' = Due(packets[next])
    BY <1>1 DEF OnTime, LastAt, LastIndex, Due
  <2>5. now' + remaining' = Due(packets[next])
    BY <1>1, <1>2, <1>3
  <2> QED
    BY <1>1, <1>3, <2>3, <2>4, <2>5 DEF Clock
<1>10. SimulatorClock'
  BY <1>1, <1>2 DEF SimulatorClock
<1> QED
  BY <1>5, <1>6, <1>7, <1>8, <1>9, <1>10 DEF PlayInv

LEMMA SendPlays == PlayInv /\ SendPacket => PlayInv'
<1> SUFFICES ASSUME PlayInv, SendPacket PROVE PlayInv'
  OBVIOUS
<1>1. /\ pc = "wait" /\ remaining <= 0 /\ running' = running
      /\ \/ pc' = "send" /\ now' = now + SendTime
         \/ pc' = "stopped" /\ now' = now
      /\ chunk' = 0 /\ remaining' = 0
      /\ UNCHANGED <<packets, next, origin, sent, source, earliest>>
  BY DEF SendPacket, Stop, world
<1>2. /\ source.mode # "simulator" /\ next \in DOMAIN packets
      /\ earliest \in [AvTypes -> Int] /\ now \in Nat /\ remaining \in Int
      /\ next \in 1..Len(packets) + 1 /\ origin \in Int /\ Numbers /\ Plays
      /\ SendTime \in Nat
  BY <1>1, ReplayAssumption DEF PlayInv, Numbers, AtPlaces
<1>3. /\ now + remaining = Due(packets[next])
      /\ now <= OnTime(next) + (next - 1 - LastIndex) * SendTime
  BY <1>1, <1>2 DEF PlayInv, Clock
<1>4. now' \in Nat /\ now <= now' /\ remaining' \in Int /\ chunk' \in Int
  BY <1>1, <1>2
<1>5. Plays' /\ Numbers' /\ PlayedOnTime'
  <2>1. next \in Int
    BY <1>2
  <2> QED
    BY <1>1, <1>2, <1>4, <2>1, NothingSent
<1>6. EachTypeHasItsFrames'
  BY <1>1, <1>2, FramesKept
<1>7. AtPlaces'
  BY <1>1 DEF PlayInv, AtPlaces, Building
<1>8. Limiter'
  BY <1>1 DEF PlayInv, Limiter, AtHand, Count, SentOf
<1>9. Clock'
  <2>1. LastIndex \in 0..next - 1 /\ next \in Nat
    BY <1>2, LastTyped
  <2>2. OnTime(next) \in Int
    BY <1>2, OnTimeAscends
  <2>3. (next - LastIndex) * SendTime = (next - 1 - LastIndex) * SendTime + SendTime
    BY <1>2, <2>1
  <2>4. (next - 1 - LastIndex) * SendTime \in Int
    BY <1>2, <2>1
  <2>5. now + SendTime <= OnTime(next) + (next - LastIndex) * SendTime
    BY <1>2, <1>3, <2>2, <2>3, <2>4
  <2>6. now + SendTime >= Due(packets[next]) + SendTime
    BY <1>1, <1>2, <1>3
  <2>7. /\ OnTime(next)' = OnTime(next) /\ LastIndex' = LastIndex
        /\ Due(packets[next])' = Due(packets[next])
    BY <1>1 DEF OnTime, LastAt, LastIndex, Due
  <2> QED
    BY <1>1, <2>5, <2>6, <2>7 DEF Clock
<1>10. SimulatorClock'
  BY <1>1, <1>2 DEF SimulatorClock
<1> QED
  BY <1>5, <1>6, <1>7, <1>8, <1>9, <1>10 DEF PlayInv


\* A packet is written.
Entry == [i |-> next, at |-> now]
SentIn(s, type, last) == {k \in DOMAIN s : s[k].i <= last /\ packets[s[k].i].type = type}

LEMMA Appended ==
    ASSUME Numbers, NEW s, s = Append(sent, Entry)
    PROVE  LET n == Len(sent) + 1
           IN  /\ s \in Seq([i : Nat, at : Nat]) /\ n \in Nat /\ n >= 1
               /\ DOMAIN s = 1..n /\ Len(s) = n /\ s[n].i = next /\ s[n].at = now
               /\ s # <<>> /\ DOMAIN sent = 1..n - 1
               /\ \A k \in 1..n - 1 : s[k] = sent[k]
<1> DEFINE T == [i : Nat, at : Nat]
<1>1. Entry \in T /\ Entry.i = next /\ Entry.at = now
  BY DEF Entry, Numbers
<1>2. sent \in Seq(T)
  BY DEF Numbers
<1> HIDE DEF T
<1>3. /\ s \in Seq(T) /\ Len(sent) \in Nat /\ Len(s) = Len(sent) + 1
      /\ DOMAIN s = 1..Len(sent) + 1 /\ s[Len(sent) + 1] = Entry
      /\ \A k \in 1..Len(sent) : s[k] = sent[k]
      /\ DOMAIN sent = 1..Len(sent)
  BY <1>1, <1>2
<1>4. s # <<>>
  BY <1>3
<1> QED
  BY <1>1, <1>3, <1>4 DEF T

LEMMA SentMore ==
    ASSUME Numbers, NEW s, s = Append(sent, Entry), NEW type, NEW last \in Int
    PROVE  /\ last < next => SentIn(s, type, last) = SentIn(sent, type, last)
           /\ last >= next /\ packets[next].type = type =>
                SentIn(s, type, last) = SentIn(sent, type, next - 1) \cup {Len(sent) + 1}
           /\ last >= next /\ packets[next].type # type =>
                SentIn(s, type, last) = SentIn(sent, type, next - 1)
<1> DEFINE n == Len(sent) + 1
<1>1. /\ n \in Nat /\ n >= 1 /\ DOMAIN s = 1..n /\ s[n].i = next
      /\ DOMAIN sent = 1..n - 1 /\ \A k \in 1..n - 1 : s[k] = sent[k]
  BY Appended
<1>2. next \in Int
  BY DEF Numbers
<1> HIDE DEF n
<1>3. \A k \in 1..n - 1 : sent[k].i \in Int /\ sent[k].i <= next - 1
  <2> SUFFICES ASSUME NEW k \in 1..n - 1 PROVE sent[k].i \in Int /\ sent[k].i <= next - 1
    OBVIOUS
  <2>1. sent[k].i \in 1..next - 1
    BY <1>1 DEF Numbers
  <2> QED
    BY <1>2, <2>1
<1>4. DOMAIN s = DOMAIN sent \cup {n} /\ n \notin DOMAIN sent
  BY <1>1
<1>5. \A k \in DOMAIN sent : s[k] = sent[k] /\ sent[k].i \in Int /\ sent[k].i <= next - 1
  BY <1>1, <1>3
<1>6. CASE last < next
  <2>1. ~(s[n].i <= last)
    BY <1>1, <1>2, <1>6
  <2> QED
    BY <1>2, <1>4, <1>5, <1>6, <2>1 DEF SentIn
<1>7. CASE last >= next
  <2>1. s[n].i <= last
    BY <1>1, <1>2, <1>7
  <2>2. \A k \in DOMAIN sent : s[k].i <= last
    BY <1>2, <1>5, <1>7
  <2>3. CASE packets[next].type = type
    <3>1. packets[s[n].i].type = type
      BY <1>1, <2>3
    <3>2. SentIn(s, type, last) = SentIn(sent, type, next - 1) \cup {n}
      BY <1>4, <1>5, <2>1, <2>2, <3>1 DEF SentIn
    <3> QED
      BY <1>2, <1>7, <2>3, <3>2 DEF n
  <2>4. CASE packets[next].type # type
    <3>1. packets[s[n].i].type # type
      BY <1>1, <2>4
    <3>2. SentIn(s, type, last) = SentIn(sent, type, next - 1)
      BY <1>4, <1>5, <2>2, <3>1 DEF SentIn
    <3> QED
      BY <1>2, <1>7, <2>4, <3>2
  <2> QED
    BY <2>3, <2>4
<1> QED
  BY <1>2, <1>6, <1>7

LEMMA CountMore ==
    ASSUME Numbers, NEW s, s = Append(sent, Entry), NEW type
    PROVE  Cardinality(SentIn(s, type, next)) =
             IF packets[next].type = type THEN Count(type) + 1 ELSE Count(type)
<1>1. SentIn(sent, type, next - 1) = SentOf(type, next - 1)
  BY DEF SentIn, SentOf
<1>2. next \in Int
  BY DEF Numbers
<1>3. CASE packets[next].type = type
  <2>1. SentIn(s, type, next) = SentOf(type, next - 1) \cup {Len(sent) + 1}
    <3>1. next >= next
      BY <1>2
    <3>2. SentIn(s, type, next) = SentIn(sent, type, next - 1) \cup {Len(sent) + 1}
      BY <1>2, <1>3, <3>1, SentMore
    <3> QED
      BY <1>1, <3>2
  <2>2. Len(sent) + 1 \notin SentOf(type, next - 1)
    BY SentAt DEF SentOf
  <2>3. IsFiniteSet(SentOf(type, next - 1))
    BY SentFinite
  <2> QED
    BY <1>3, <2>1, <2>2, <2>3, FS_AddElement DEF Count
<1>4. CASE packets[next].type # type
  <2>1. next >= next
    BY <1>2
  <2>2. SentIn(s, type, next) = SentIn(sent, type, next - 1)
    BY <1>2, <1>4, <2>1, SentMore
  <2> QED
    BY <1>1, <1>4, <2>2 DEF Count
<1> QED
  BY <1>3, <1>4

LEMMA WritePlays ==
    ASSUME PlayInv, pc = "send", running, running' = running, pc' = "next",
           next' = next + 1, sent' = Append(sent, Entry),
           UNCHANGED <<packets, now, origin, source, earliest, chunk, remaining>>
    PROVE  PlayInv'
<1> DEFINE n == Len(sent) + 1
<1>1. /\ source.mode # "simulator" /\ next \in DOMAIN packets
      /\ earliest \in [AvTypes -> Int] /\ DOMAIN earliest = AvTypes /\ now \in Nat
      /\ next \in 1..Len(packets) + 1 /\ origin \in Int /\ Numbers /\ Plays
      /\ SendTime \in Nat /\ chunk \in Int /\ remaining \in Int
  BY ReplayAssumption DEF PlayInv, Numbers, AtPlaces
<1>2. /\ sent' \in Seq([i : Nat, at : Nat]) /\ n \in Nat /\ n >= 1
      /\ DOMAIN sent' = 1..n /\ Len(sent') = n /\ sent'[n].i = next /\ sent'[n].at = now
      /\ sent' # <<>> /\ DOMAIN sent = 1..n - 1
      /\ \A k \in 1..n - 1 : sent'[k] = sent[k]
  BY <1>1, Appended
<1>3. /\ next \in Nat /\ next >= 1 /\ next' \in Nat /\ next' > 1 /\ next' - 1 = next
      /\ next' \in 1..Len(packets) + 1 /\ packets # <<>>
  <2>1. packets \in Seq(AnyPacket)
    BY <1>1 DEF Plays
  <2> QED
    BY <1>1, <2>1
<1> HIDE DEF n
<1>4. \A k \in 1..n - 1 : /\ sent[k].i \in 1..next - 1 /\ sent[k].i \in Nat
                          /\ sent[k].at <= now /\ sent[k].at \in Nat
  BY <1>1, <1>2, SentAt DEF Numbers
<1>5. Plays'
  BY <1>1 DEF Plays
<1>6. Numbers'
  <2>1. \A k \in 1..n : sent'[k].i \in 1..next /\ sent'[k].at <= now
    <3> SUFFICES ASSUME NEW k \in 1..n PROVE sent'[k].i \in 1..next /\ sent'[k].at <= now
      OBVIOUS
    <3>1. CASE k = n
      BY <1>1, <1>2, <1>3, <3>1
    <3>2. CASE k \in 1..n - 1
      BY <1>2, <1>3, <1>4, <3>2, SMTT(30)
    <3> QED
      BY <1>2, <3>1, <3>2
  <2>2. ASSUME NEW k \in 1..n, NEW l \in 1..n, k < l PROVE sent'[k].i < sent'[l].i
    <3>1. k \in 1..n - 1 /\ (l = n \/ l \in 1..n - 1)
      BY <1>2, <2>2
    <3>2. CASE l = n
      BY <1>2, <1>3, <1>4, <3>1, <3>2, SMTT(30)
    <3>3. CASE l \in 1..n - 1
      <4>1. sent[k].i < sent[l].i
        BY <1>1, <1>2, <2>2, <3>1, <3>3 DEF Numbers
      <4> QED
        BY <1>2, <3>1, <3>3, <4>1
    <3> QED
      BY <3>1, <3>2, <3>3
  <2> QED
    BY <1>1, <1>2, <1>3, <2>1, <2>2 DEF Numbers
<1>7. AtPlaces'
  BY <1>1, <1>3 DEF AtPlaces, Building
<1>8. ASSUME NEW type \in AvTypes
      PROVE  /\ packets[next].type = type =>
                   /\ earliest[type] = origin + Frame * (Count(type) + 1)
                   /\ packets[next].t >= Frame * Count(type)
             /\ packets[next].type # type => earliest[type] = origin + Frame * Count(type)
  BY <1>1 DEF PlayInv, Limiter, AtHand
<1>9. Limiter'
  <2>1. ASSUME NEW type \in AvTypes
        PROVE  earliest'[type] = origin' + Frame * Cardinality(SentOf(type, next - 1)')
    <3>1. SentOf(type, next - 1)' = SentIn(sent', type, next)
      BY <1>3 DEF SentOf, SentIn
    <3>2. Cardinality(SentIn(sent', type, next)) =
             IF packets[next].type = type THEN Count(type) + 1 ELSE Count(type)
      BY <1>1, CountMore
    <3> QED
      BY <1>8, <3>1, <3>2
  <2> QED
    BY <2>1 DEF Limiter, Count, AtHand
<1>10. EachTypeHasItsFrames'
  <2> SUFFICES ASSUME NEW i \in 1..next, packets[i].type \in AvTypes
               PROVE  (\E k \in 1..n : sent'[k].i = i) <=>
                         (packets[i].t >=
                             Frame * Cardinality(SentIn(sent', packets[i].type, i - 1)))
    <3>1. /\ packets' = packets /\ DOMAIN earliest' = AvTypes /\ next' - 1 = next
          /\ 1..n = DOMAIN sent'
      BY <1>1, <1>2, <1>3
    <3>2. \A type, last : SentOf(type, last)' = SentIn(sent', type, last)
      BY <3>1 DEF SentIn, SentOf
    <3>3. \A i \in 1..next : packets[i].type \in AvTypes =>
             (\E k \in 1..n : sent'[k].i = i) <=>
                (packets[i].t >= Frame * Cardinality(SentOf(packets[i].type, i - 1)'))
      BY <3>2
    <3> QED
      BY <3>1, <3>3 DEF EachTypeHasItsFrames
  <2>1. SentIn(sent', packets[i].type, i - 1) = SentOf(packets[i].type, i - 1)
    <3>1. i - 1 \in Int /\ i - 1 < next
      BY <1>3
    <3>2. SentIn(sent', packets[i].type, i - 1) = SentIn(sent, packets[i].type, i - 1)
      BY <1>1, <3>1, SentMore, ZenonT(30)
    <3> QED
      BY <3>2 DEF SentIn, SentOf
  <2>2. CASE i = next
    <3>1. packets[i].t >= Frame * Cardinality(SentOf(packets[i].type, i - 1))
      BY <1>8, <2>2 DEF Count
    <3>2. n \in 1..n /\ sent'[n].i = i
      BY <1>2, <2>2
    <3> QED
      BY <2>1, <3>1, <3>2
  <2>3. CASE i \in 1..next - 1
    <3>1. (\E k \in 1..n - 1 : sent[k].i = i) <=>
             (packets[i].t >= Frame * Cardinality(SentOf(packets[i].type, i - 1)))
      <4>1. /\ source.mode # "simulator" /\ running
            /\ i \in 1..next - 1 /\ packets[i].type \in DOMAIN earliest
        BY <1>1, <2>3
      <4>2. (\E k \in DOMAIN sent : sent[k].i = i) <=>
               (packets[i].t >= Frame * Cardinality(SentOf(packets[i].type, i - 1)))
        BY <4>1, Zenon DEF PlayInv, EachTypeHasItsFrames
      <4> QED
        BY <1>2, <4>2, Zenon
    <3>2. (\E k \in 1..n - 1 : sent[k].i = i) <=> (\E k \in 1..n : sent'[k].i = i)
      <4>1. n \in Nat /\ n >= 1 /\ next \in Nat /\ sent'[n].i = next
        BY <1>2, <1>3, Zenon
      <4>2. \A k : k \in 1..n <=> k \in 1..n - 1 \/ k = n
        BY <4>1
      <4>3. i # next
        BY <2>3, <4>1
      <4>4. \A k \in 1..n - 1 : sent'[k].i = sent[k].i
        BY <1>2, Zenon
      <4> QED
        BY <4>1, <4>2, <4>3, <4>4, Zenon
    <3> QED
      BY <2>1, <3>1, <3>2
  <2>4. i = next \/ i \in 1..next - 1
    BY <1>3
  <2> QED
    BY <2>2, <2>3, <2>4, Zenon
<1>11. LastAt' = now /\ LastIndex' = next
  BY <1>2 DEF LastAt, LastIndex
<1>12. Clock' /\ SimulatorClock'
  BY <1>1, <1>3, <1>11 DEF Clock, SimulatorClock
<1>13. /\ now >= Due(packets[next]) + SendTime
       /\ now <= OnTime(next) + (next - LastIndex) * SendTime
  BY <1>1 DEF PlayInv, Clock
<1>14. PlayedOnTime'
  <2> SUFFICES ASSUME NEW k \in 1..n
               PROVE  LET p == packets[sent'[k].i]
                          passed == IF k = 1 THEN sent'[k].i ELSE sent'[k].i - sent'[k - 1].i
                          lag == IF k = 1 THEN 0 ELSE sent'[k - 1].at
                      IN  /\ sent'[k].at >= Due(p) + SendTime
                          /\ sent'[k].at <= Later(Due(p) + Chunk - 1, lag) + passed * SendTime
    BY <1>1, <1>2 DEF PlayedOnTime, Due
  <2>1. CASE k = n
    <3>1. CASE k = 1
      <4>1. sent = <<>>
        <5>1. Len(sent) = 0 /\ sent \in Seq([i : Nat, at : Nat])
          BY <1>1, <2>1, <3>1, SentAt DEF n, Numbers
        <5> QED
          BY <5>1
      <4>2. LastAt = 0 /\ LastIndex = 0 /\ next - 0 = next
        BY <1>3, <4>1 DEF LastAt, LastIndex
      <4> QED
        BY <1>2, <1>13, <2>1, <3>1, <4>2 DEF OnTime
    <3>2. CASE k # 1
      <4>1. n - 1 \in 1..n - 1 /\ n - 1 = Len(sent) /\ sent # <<>>
        BY <1>1, <1>2, <2>1, <3>2, SentAt DEF n
      <4>2. LastAt = sent'[n - 1].at /\ LastIndex = sent'[n - 1].i
        BY <1>2, <4>1 DEF LastAt, LastIndex
      <4> QED
        BY <1>2, <1>13, <2>1, <3>2, <4>2 DEF OnTime
    <3> QED
      BY <3>1, <3>2
  <2>2. CASE k \in 1..n - 1
    <3>1. sent'[k] = sent[k] /\ (k # 1 => sent'[k - 1] = sent[k - 1])
      BY <1>2, <2>2, SMTT(30)
    <3>2. LET p == packets[sent[k].i]
              passed == IF k = 1 THEN sent[k].i ELSE sent[k].i - sent[k - 1].i
              lag == IF k = 1 THEN 0 ELSE sent[k - 1].at
          IN  /\ sent[k].at >= Due(p) + SendTime
              /\ sent[k].at <= Later(Due(p) + Chunk - 1, lag) + passed * SendTime
      BY <1>1, <1>2, <2>2 DEF PlayInv, PlayedOnTime
    <3> QED
      BY <3>1, <3>2
  <2>3. k = n \/ k \in 1..n - 1
    BY <1>2
  <2> QED
    BY <2>1, <2>2, <2>3, Zenon
<1> QED
  BY <1>5, <1>6, <1>7, <1>9, <1>10, <1>12, <1>14 DEF PlayInv


LEMMA HandlePlays == PlayInv /\ Handle => PlayInv'
<1> SUFFICES ASSUME PlayInv, Handle PROVE PlayInv'
  OBVIOUS
<1> DEFINE p == packets[next]
<1>1. /\ pc = "send" /\ running' = running
      /\ UNCHANGED <<packets, now, origin, source, earliest, chunk, remaining>>
  BY DEF Handle, world
<1>2. CASE (p.type \in Unwritten \/ ~running) /\ Stop("next") /\ Advance /\ sent' = sent
  <2>1. pc' = "next" /\ next' = next + 1 /\ sent' = sent
    BY <1>2 DEF Stop, Advance
  <2>2. /\ source.mode # "simulator" /\ next \in DOMAIN packets
        /\ earliest \in [AvTypes -> Int] /\ DOMAIN earliest = AvTypes /\ now \in Nat
        /\ chunk \in Int /\ remaining \in Int /\ Numbers /\ Plays /\ packets # <<>>
    BY <1>1 DEF PlayInv, Numbers, AtPlaces
  <2>3. /\ next \in Nat /\ next >= 1 /\ next + 1 \in 1..Len(packets) + 1
        /\ next' - 1 = next /\ next' > 1 /\ next <= next'
    <3>1. packets \in Seq(AnyPacket)
      BY <2>2 DEF Plays
    <3> QED
      BY <2>1, <2>2, <3>1
  <2>4. Plays' /\ Numbers' /\ PlayedOnTime'
    BY <1>1, <2>1, <2>2, <2>3, NothingSent
  <2>5. running => p.type \notin AvTypes
    BY <1>2 DEF Unwritten, AvTypes
  <2>6. EachTypeHasItsFrames'
    BY <1>1, <2>1, <2>5, PassedOver
  <2>7. AtPlaces'
    BY <1>1, <2>1, <2>2 DEF PlayInv, AtPlaces, Building
  <2>8. Limiter'
    <3>1. ASSUME NEW type \in AvTypes, running
          PROVE  earliest'[type] = origin' + Frame * Cardinality(SentOf(type, next - 1)')
      <4>1. SentOf(type, next - 1)' = SentOf(type, next)
        BY <1>1, <2>1, <2>3 DEF SentOf
      <4>2. SentOf(type, next) = SentOf(type, next - 1)
        BY <2>2, <2>3, AllBefore
      <4>3. earliest[type] = origin + Frame * Count(type)
        BY <1>1, <2>2, <2>5, <3>1 DEF PlayInv, Limiter, AtHand
      <4> QED
        BY <1>1, <4>1, <4>2, <4>3 DEF Count
    <3> QED
      BY <1>1, <2>1, <3>1 DEF Limiter, Count, AtHand
  <2>9. Clock'
    <3>1. now <= OnTime(next) + (next - LastIndex) * SendTime
      BY <1>1, <2>2 DEF PlayInv, Clock
    <3>2. OnTime(next - 1)' = OnTime(next) /\ LastIndex' = LastIndex
      BY <1>1, <2>1, <2>3 DEF OnTime, LastAt, LastIndex, Due
    <3> QED
      BY <1>1, <2>1, <2>3, <3>1, <3>2 DEF Clock
  <2>10. SimulatorClock'
    BY <1>1, <2>2 DEF SimulatorClock
  <2> QED
    BY <2>4, <2>6, <2>7, <2>8, <2>9, <2>10 DEF PlayInv
<1>3. CASE Die(Obstacle(p)) /\ UNCHANGED <<next, sent>>
  <2>1. pc' = "died" /\ UNCHANGED <<player, source>>
    BY <1>1, <1>3 DEF Die, player
  <2> QED
    BY <1>1, <2>1, PlayRests DEF Final, Building
<1>4. CASE running /\ Stop("next") /\ Advance /\ sent' = Append(sent, [i |-> next, at |-> now])
  <2>1. pc' = "next" /\ next' = next + 1 /\ sent' = Append(sent, Entry)
    BY <1>4 DEF Stop, Advance, Entry
  <2> QED
    BY <1>1, <1>4, <2>1, WritePlays
<1>5. \/ (p.type \in Unwritten \/ ~running) /\ Stop("next") /\ Advance /\ sent' = sent
      \/ Die(Obstacle(p)) /\ UNCHANGED <<next, sent>>
      \/ running /\ Stop("next") /\ Advance /\ sent' = Append(sent, [i |-> next, at |-> now])
  BY DEF Handle
<1> QED
  BY <1>2, <1>3, <1>4, <1>5

LEMMA RoundEnds == PlayInv /\ EndRound => PlayInv'
<1> SUFFICES ASSUME PlayInv, EndRound PROVE PlayInv'
  OBVIOUS
<1>1. /\ pc = "next" /\ running' = running
      /\ UNCHANGED <<source, packets, chunk, remaining>>
  BY DEF EndRound, Engine, world
<1>2. CASE Begin(packets)
  <2>1. /\ packets \in Seq(AnyPacket) /\ Sorted(packets) /\ packets # <<>>
        /\ source.mode = "simulator" => InPairs(packets)
        /\ chunk' \in Int /\ remaining' \in Int /\ DOMAIN earliest = AvTypes
    BY <1>1 DEF PlayInv, Plays, AtPlaces, Numbers
  <2> QED
    BY <1>1, <1>2, <2>1, PlayBegins
<1>3. CASE /\ pc' \in {"ended", "stopped"}
           /\ UNCHANGED <<next, now, origin, earliest, sent>>
  <2>1. UNCHANGED <<player, source>>
    BY <1>1, <1>3 DEF player
  <2> QED
    BY <1>1, <1>3, <2>1, PlayRests DEF Final, Building
<1> QED
  BY <1>2, <1>3 DEF EndRound, Stop

-----------------------------------------------------------------------------
(* The rounds of the simulator *)

LEMMA OddNumbers ==
    ASSUME NEW n \in Nat, NEW m \in Nat, NEW i, i = 2 * m + 1, i \in 1..2 * n
    PROVE  /\ i + 1 \in 1..2 * n /\ i + 2 \in 1..2 * n + 1
           /\ m + 1 \in Nat /\ i + 2 = 2 * (m + 1) + 1
  OBVIOUS

LEMMA SimulatorWaitPlays == PlayInv /\ SimulatorWait => PlayInv'
<1> SUFFICES ASSUME PlayInv, SimulatorWait PROVE PlayInv'
  OBVIOUS
<1>1. /\ pc = "next" /\ source.mode = "simulator" /\ next <= Len(packets)
      /\ now' = (IF next > 1 /\ packets[next].t > now THEN packets[next].t ELSE now)
      /\ pc' \in {"row", "stopped"} /\ running' = running
      /\ UNCHANGED <<packets, next, origin, earliest, chunk, remaining, sent, source>>
  BY DEF SimulatorWait, Stop, world
<1>2. /\ next \in DOMAIN packets /\ next \in Nat /\ next >= 1 /\ packets[next].t \in Nat
  BY <1>1, AtPacket
<1>3. /\ earliest \in [AvTypes -> Int] /\ now \in Nat /\ Numbers /\ Plays
      /\ next \in 1..Len(packets) + 1 /\ chunk \in Int /\ remaining \in Int
      /\ packets # <<>> /\ InPairs(packets)
      /\ now = IF next = 1 THEN 0 ELSE packets[next - 1].t
  BY <1>1 DEF PlayInv, Numbers, Plays, AtPlaces, SimulatorClock
<1>4. now' = packets[next].t /\ now <= now'
  <2>1. CASE next = 1
    BY <1>1, <1>2, <1>3, <2>1 DEF InPairs
  <2>2. CASE next # 1
    <3>1. next - 1 \in DOMAIN packets /\ next - 1 <= next
      BY <1>2, <1>3, <2>2 DEF Plays
    <3>2. packets[next - 1].t <= packets[next].t
      BY <1>2, <1>3, <3>1 DEF Plays, Sorted
    <3>3. packets[next - 1].t \in Nat
      BY <1>3, <3>1, PacketAt
    <3> QED
      BY <1>1, <1>2, <1>3, <2>2, <3>2, <3>3
  <2> QED
    BY <2>1, <2>2
<1>5. Plays' /\ Numbers' /\ PlayedOnTime'
  BY <1>1, <1>2, <1>3, <1>4, NothingSent
<1>6. EachTypeHasItsFrames' /\ Limiter' /\ Clock'
  BY <1>1 DEF EachTypeHasItsFrames, Limiter, Clock
<1>7. AtPlaces'
  BY <1>1, <1>2 DEF PlayInv, AtPlaces, Building
<1>8. SimulatorClock'
  BY <1>1, <1>4 DEF SimulatorClock
<1> QED
  BY <1>5, <1>6, <1>7, <1>8 DEF PlayInv

\* Both packets of a row are written at once.
Pair == <<[i |-> next, at |-> now], [i |-> next + 1, at |-> now]>>

LEMMA PairAppended ==
    ASSUME Numbers, NEW s, s = sent \o Pair
    PROVE  LET n == Len(sent)
           IN  /\ s \in Seq([i : Nat, at : Nat]) /\ n \in Nat
               /\ DOMAIN s = 1..n + 2 /\ DOMAIN sent = 1..n
               /\ \A k \in 1..n : s[k] = sent[k]
               /\ s[n + 1].i = next /\ s[n + 1].at = now
               /\ s[n + 2].i = next + 1 /\ s[n + 2].at = now
<1> DEFINE T == [i : Nat, at : Nat]
<1>1. next \in Nat /\ now \in Nat
  BY DEF Numbers
<1>2. /\ Pair \in Seq(T) /\ Len(Pair) = 2
      /\ Pair[1].i = next /\ Pair[1].at = now /\ Pair[2].i = next + 1 /\ Pair[2].at = now
  BY <1>1 DEF Pair
<1>3. sent \in Seq(T)
  BY DEF Numbers
<1> HIDE DEF T
<1>4. /\ s \in Seq(T) /\ Len(sent) \in Nat /\ Len(s) = Len(sent) + 2
      /\ DOMAIN s = 1..Len(sent) + 2 /\ DOMAIN sent = 1..Len(sent)
  <2>1. Len(sent) \in Nat /\ DOMAIN sent = 1..Len(sent)
    BY <1>3
  <2>2. s \in Seq(T) /\ Len(s) = Len(sent) + Len(Pair)
    BY <1>2, <1>3, ConcatProperties
  <2>3. Len(s) = Len(sent) + 2
    BY <1>2, <2>2
  <2>4. DOMAIN s = 1..Len(s)
    BY <2>2
  <2> QED
    BY <2>1, <2>2, <2>3, <2>4
<1>5. \A k \in 1..Len(sent) : s[k] = sent[k]
  BY <1>2, <1>3
<1>6. s[Len(sent) + 1] = Pair[1] /\ s[Len(sent) + 2] = Pair[2]
  BY <1>2, <1>3, <1>4
<1> QED
  BY <1>2, <1>4, <1>5, <1>6 DEF T

LEMMA RowPlays == PlayInv /\ SendRow => PlayInv'
<1> SUFFICES ASSUME PlayInv, SendRow PROVE PlayInv'
  OBVIOUS
<1>1. /\ pc = "row" /\ running' = running
      /\ UNCHANGED <<packets, now, origin, source, earliest, chunk, remaining>>
  BY DEF SendRow, world
<1>2. CASE Die("reading") /\ UNCHANGED <<next, sent>>
  <2>1. pc' = "died" /\ UNCHANGED <<player, source>>
    BY <1>1, <1>2 DEF Die, player
  <2> QED
    BY <1>1, <2>1, PlayRests DEF Final, Building
<1>3. CASE /\ Stop("next") /\ next' = next + 2
           /\ sent' = sent \/ sent' = sent \o Pair
  <2>1. /\ source.mode = "simulator" /\ next \in DOMAIN packets /\ packets # <<>>
        /\ earliest \in [AvTypes -> Int] /\ now \in Nat /\ Numbers /\ Plays
        /\ chunk \in Int /\ remaining \in Int /\ InPairs(packets)
        /\ now = packets[next].t /\ pc' = "next" /\ next' = next + 2 /\ origin \in Int
    BY <1>1, <1>3 DEF PlayInv, Numbers, Plays, AtPlaces, SimulatorClock, Stop
  <2>2. PICK m \in Nat : next = 2 * m + 1
    BY <2>1 DEF PlayInv, AtPlaces
  <2>3. PICK n \in Nat : Len(packets) = 2 * n
    BY <2>1 DEF InPairs
  <2>4. /\ next \in 1..2 * n /\ DOMAIN packets = 1..2 * n
    BY <2>1, <2>3 DEF Plays
  <2>5. /\ next + 1 \in DOMAIN packets /\ next' \in 1..Len(packets) + 1
        /\ m + 1 \in Nat /\ next' = 2 * (m + 1) + 1
    BY <2>1, <2>2, <2>3, <2>4, OddNumbers
  <2>6. next \in Nat /\ next >= 1 /\ next <= next' /\ next' - 1 = next + 1 /\ next' # 1
    BY <2>1, <2>4
  <2>7. packets[next + 1].t = now
    <3>1. next + 1 = 2 * m + 2
      BY <2>2
    <3> QED
      BY <2>1, <2>2, <3>1 DEF InPairs
  <2>8. EachTypeHasItsFrames' /\ Limiter' /\ Clock'
    BY <1>1, <2>1 DEF EachTypeHasItsFrames, Limiter, Clock
  <2>9. AtPlaces'
    BY <1>1, <2>1, <2>5 DEF AtPlaces, Building
  <2>10. SimulatorClock'
    BY <1>1, <2>1, <2>6, <2>7 DEF SimulatorClock
  <2>11. CASE sent' = sent
    <3>1. Plays' /\ Numbers' /\ PlayedOnTime'
      BY <1>1, <2>1, <2>5, <2>6, <2>11, NothingSent
    <3> QED
      BY <2>8, <2>9, <2>10, <3>1 DEF PlayInv
  <2>12. CASE sent' = sent \o Pair
    <3> DEFINE l == Len(sent)
    <3>1. /\ sent' \in Seq([i : Nat, at : Nat]) /\ l \in Nat
          /\ DOMAIN sent' = 1..l + 2 /\ DOMAIN sent = 1..l
          /\ \A k \in 1..l : sent'[k] = sent[k]
          /\ sent'[l + 1].i = next /\ sent'[l + 1].at = now
          /\ sent'[l + 2].i = next + 1 /\ sent'[l + 2].at = now
      BY <2>1, <2>12, PairAppended
    <3> HIDE DEF l
    <3>2. \A k \in 1..l : sent'[k].i \in 1..next - 1 /\ sent'[k].at <= now
      BY <2>1, <3>1 DEF Numbers
    <3>3. \A k \in 1..l + 2 : k \in 1..l \/ k = l + 1 \/ k = l + 2
      BY <3>1
    <3>4. \A k \in 1..l + 2 : sent'[k].i \in 1..next' - 1 /\ sent'[k].at <= now
      <4> SUFFICES ASSUME NEW k \in 1..l + 2
                   PROVE  sent'[k].i \in 1..next' - 1 /\ sent'[k].at <= now
        OBVIOUS
      <4>1. CASE k \in 1..l
        BY <2>6, <3>2, <4>1
      <4>2. CASE k = l + 1
        BY <2>1, <2>6, <3>1, <4>2, SMTT(30)
      <4>3. CASE k = l + 2
        BY <2>1, <2>6, <3>1, <4>3, SMTT(30)
      <4> QED
        BY <3>3, <4>1, <4>2, <4>3
    <3>5. ASSUME NEW j \in 1..l + 2, NEW k \in 1..l + 2, j < k
          PROVE  sent'[j].i < sent'[k].i
      <4>1. CASE k \in 1..l
        <5>1. j \in 1..l
          BY <3>1, <3>5, <4>1
        <5>2. sent[j].i < sent[k].i
          BY <2>1, <3>1, <3>5, <4>1, <5>1 DEF Numbers
        <5> QED
          BY <3>1, <4>1, <5>1, <5>2
      <4>2. CASE k = l + 1
        <5>1. j \in 1..l
          BY <3>1, <3>5, <4>2
        <5>2. sent'[j].i \in 1..next - 1
          BY <3>2, <5>1
        <5>3. sent'[k].i = next
          BY <3>1, <4>2
        <5> QED
          BY <2>6, <5>2, <5>3
      <4>3. CASE k = l + 2
        <5>1. j \in 1..l \/ j = l + 1
          BY <3>1, <3>5, <4>3
        <5>2. sent'[j].i \in 1..next - 1 \/ sent'[j].i = next
          BY <3>1, <3>2, <5>1
        <5>3. sent'[k].i = next + 1
          BY <3>1, <4>3
        <5> QED
          BY <2>6, <5>2, <5>3
      <4> QED
        BY <3>3, <4>1, <4>2, <4>3
    <3>6. Plays'
      BY <1>1, <2>1 DEF Plays
    <3>7. Numbers'
      BY <1>1, <2>1, <2>5, <3>1, <3>4, <3>5 DEF Numbers
    <3>8. PlayedOnTime'
      <4>1. \A k \in 1..l : sent[k].at = packets[sent[k].i].t
        BY <2>1, <3>1 DEF PlayInv, PlayedOnTime
      <4>2. \A k \in 1..l + 2 : sent'[k].at = packets[sent'[k].i].t
        BY <2>1, <2>7, <3>1, <3>3, <4>1
      <4> QED
        BY <1>1, <2>1, <3>1, <4>2 DEF PlayedOnTime
    <3> QED
      BY <2>8, <2>9, <2>10, <3>6, <3>7, <3>8 DEF PlayInv
  <2> QED
    BY <1>3, <2>11, <2>12
<1> QED
  BY <1>2, <1>3 DEF SendRow, Pair


-----------------------------------------------------------------------------
(* Every step *)

LEMMA BuildPlays == PlayInv /\ Build => PlayInv'
<1> SUFFICES ASSUME PlayInv, Build PROVE PlayInv'
  OBVIOUS
<1>1. UNCHANGED <<player, source>> /\ running' = running /\ pc \in Building
  BY DEF Build, Look, RemoveFiles, MakeDirectory, MakeLock, Compute, ExportCsv,
         ExportJson, Unlock, world, Building
<1>2. pc' \in Final \cup Building
  BY DEF Build, Look, RemoveFiles, MakeDirectory, MakeLock, Compute, ExportCsv,
         ExportJson, Unlock, Stop, Die, Final, Building
<1> QED
  BY <1>1, <1>2, PlayRests

\* What is loaded is played from its beginning, or the program dies of nothing
\* to play.
LEMMA LoadPlays ==
    ASSUME PlayInv, pc \in Building, UNCHANGED <<source, running>>, NEW ps,
           Play(ps), ps \in Seq(AnyPacket), Sorted(ps),
           source.mode = "simulator" => InPairs(ps)
    PROVE  PlayInv'
<1>1. /\ packets = <<>> /\ chunk \in Int /\ remaining \in Int /\ DOMAIN earliest = AvTypes
      /\ packets' = ps /\ chunk' = chunk /\ remaining' = remaining /\ now' = now
  BY DEF Play, PlayInv, AtPlaces, Numbers
<1>2. CASE ps = <<>>
  <2>1. pc' = "died" /\ UNCHANGED <<next, now, origin, earliest, sent>>
    BY <1>2 DEF Play, Die
  <2>2. UNCHANGED <<player, source>>
    BY <1>1, <1>2, <2>1 DEF player
  <2> QED
    BY <2>1, <2>2, PlayRests DEF Final, Building
<1>3. CASE ps # <<>>
  <2>1. Begin(ps)
    BY <1>3 DEF Play
  <2> QED
    BY <1>1, <1>3, <2>1, PlayBegins
<1> QED
  BY <1>2, <1>3

LEMMA StartPlays == ControlInv /\ PlayInv /\ Start => PlayInv'
<1> SUFFICES ASSUME ControlInv, PlayInv, Start PROVE PlayInv'
  OBVIOUS
<1>1. pc = "start" /\ source' = source /\ running' = running /\ pc \in Building
  BY DEF Start, world, Building
<1>2. CASE pc' \in {"died", "look"} /\ UNCHANGED player
  <2>1. UNCHANGED <<player, source>>
    BY <1>1, <1>2
  <2>2. pc' \in Final \cup Building
    BY <1>2 DEF Final, Building
  <2> QED
    BY <1>1, <2>1, <2>2, PlayRests
<1> DEFINE ps == IF source.mission # None THEN MissionPackets(source.data)
                                          ELSE BlueRavenPackets(source.data)
<1>3. CASE ~RefusedArguments /\ ~IsSimulated /\ Play(ps)
  <2>1. source \in Sources /\ source.mode = "mission"
    BY <1>3, SourcesAssumption DEF ControlInv, IsSimulated
  <2>2. CASE source.mission # None
    <3>1. IsMission(source.data) /\ ps = MissionPackets(source.data)
      BY <2>1, <2>2, SourcesAssumption
    <3>2. ps \in Seq(AnyPacket) /\ Sorted(ps)
      BY <3>1, MissionIsSorted
    <3> HIDE DEF ps
    <3> QED
      BY <1>1, <1>3, <2>1, <3>2, LoadPlays
  <2>3. CASE source.mission = None
    <3>1. source.raven # None
      BY <1>3, <2>1, <2>3 DEF RefusedArguments
    <3>2. IsLog(source.data) /\ ps = BlueRavenPackets(source.data)
      BY <2>1, <2>3, <3>1, SourcesAssumption
    <3>3. ps \in Seq(AnyPacket) /\ Sorted(ps)
      BY <3>2, BlueRavenIsSorted
    <3> HIDE DEF ps
    <3> QED
      BY <1>1, <1>3, <2>1, <3>3, LoadPlays
  <2> QED
    BY <2>2, <2>3
<1> QED
  BY <1>2, <1>3 DEF Start, Stop, Die

\* Only a simulated flight is looked for in a cache.
CachedInv == pc \in Building \ {"start"} => IsSimulated

LEMMA CachedStep == CachedInv /\ [Next]_vars => CachedInv'
<1> SUFFICES ASSUME CachedInv, [Next]_vars PROVE CachedInv'
  OBVIOUS
<1> USE DEF CachedInv
<1>1. CASE Start
  <2>1. source' = source /\ (pc' \in {"died", "next"} \/ IsSimulated)
    BY <1>1 DEF Start, Play, Begin, Stop, Die, world
  <2> QED
    BY <2>1 DEF Building, IsSimulated
<1>2. CASE Build
  <2>1. source' = source /\ pc \in Building \ {"start"}
    BY <1>2 DEF Build, Look, RemoveFiles, MakeDirectory, MakeLock, Compute, ExportCsv,
               ExportJson, Unlock, world, Building
  <2> QED
    BY <2>1 DEF IsSimulated
<1>3. CASE Load
  <2>1. pc' \in {"died", "next"}
    BY <1>3 DEF Load, Play, Begin, Stop, Die
  <2> QED
    BY <2>1 DEF Building
<1>4. CASE Engage \/ Simulate
  <2>1. pc' \in {"next", "wait", "send", "row", "ended", "stopped", "died"}
    BY <1>4 DEF Engage, Simulate, Skip, Wait, Sleep, SendPacket, Handle, EndRound,
                SimulatorWait, SendRow, SimulatorEnds, Engine, Begin, Stop, Die
  <2> QED
    BY <2>1 DEF Building
<1>5. CASE Signal
  BY <1>5 DEF Signal, IsSimulated
<1>6. CASE Kill \/ Restart
  BY <1>6 DEF Kill, Restart, Stop, Building
<1>7. CASE UNCHANGED vars
  BY <1>7 DEF vars, IsSimulated
<1> QED
  BY <1>1, <1>2, <1>3, <1>4, <1>5, <1>6, <1>7 DEF Next

LEMMA CachePlays == ControlInv /\ CachedInv /\ PlayInv /\ Load => PlayInv'
<1> SUFFICES ASSUME ControlInv, CachedInv, PlayInv, Load PROVE PlayInv'
  OBVIOUS
<1>1. pc = "load" /\ source' = source /\ running' = running /\ pc \in Building
  BY DEF Load, world, Building
<1>2. CASE Die("cache") /\ UNCHANGED player
  <2>1. pc' = "died" /\ UNCHANGED <<player, source>>
    BY <1>1, <1>2 DEF Die
  <2> QED
    BY <1>1, <2>1, PlayRests DEF Final, Building
<1>3. CASE Play(SimulationPackets(source.data))
  <2>1. source.mode # "mission" => IsFlight(source.data)
    BY SourcesAssumption DEF ControlInv
  <2>2. source.mode # "mission"
    BY <1>1 DEF CachedInv, IsSimulated
  <2> QED
    BY <1>1, <1>3, <2>1, <2>2, SimulationIsSorted, LoadPlays
<1> QED
  BY <1>2, <1>3 DEF Load

LEMMA PlayStep == ControlInv /\ CachedInv /\ PlayInv /\ [Next]_vars => PlayInv'
<1> SUFFICES ASSUME ControlInv, CachedInv, PlayInv, [Next]_vars PROVE PlayInv'
  OBVIOUS
<1>1. CASE Start
  BY <1>1, StartPlays
<1>2. CASE Build
  BY <1>2, BuildPlays
<1>3. CASE Load
  BY <1>3, CachePlays
<1>4. CASE Engage
  BY <1>4, SkipPlays, WaitPlays, SleepPlays, SendPlays, HandlePlays, RoundEnds DEF Engage
<1>5. CASE Simulate
  <2>1. CASE SimulatorEnds
    <3>1. UNCHANGED <<player, source>> /\ running' = running /\ pc' = "ended"
      BY <2>1 DEF SimulatorEnds, Stop, world
    <3> QED
      BY <3>1, PlayRests DEF Final, Building
  <2> QED
    BY <1>5, <2>1, SimulatorWaitPlays, RowPlays DEF Simulate
<1>6. CASE Signal
  BY <1>6, PlayStays DEF Signal
<1>7. CASE Kill
  <2>1. UNCHANGED <<player, source>> /\ running' = running /\ pc' = "killed"
    BY <1>7 DEF Kill, Stop, world
  <2> QED
    BY <2>1, PlayRests DEF Final, Building
<1>8. CASE Restart
  <2>1. Fresh'
    BY <1>8 DEF Restart, Fresh, Unlimited
  <2> QED
    BY <2>1, PlayFreshNext
<1>9. CASE UNCHANGED vars
  BY <1>9, PlayStays DEF vars, player
<1> QED
  BY <1>1, <1>2, <1>3, <1>4, <1>5, <1>6, <1>7, <1>8, <1>9 DEF Next

\* What is played is a flight at its own pace: with all of the data, every frame
\* rate, length of a sleep and time to send, each type of avionics packet has its
\* frames, and each packet is played at its time, however often the program is
\* killed, started again or told to stop, and however many rounds DEMO plays.
THEOREM PacedTheorem == Spec => []PlayedAsPaced
<1>1. Init => ControlInv /\ CachedInv /\ PlayInv
  <2>1. Init => CachedInv
    BY DEF Init, CachedInv
  <2> QED
    BY <2>1, ControlInit, PlayInit
<1>2. ControlInv /\ CachedInv /\ PlayInv /\ [Next]_vars
        => (ControlInv /\ CachedInv /\ PlayInv)'
  BY ControlStep, CachedStep, PlayStep
<1>3. Spec => [](ControlInv /\ CachedInv /\ PlayInv)
  BY <1>1, <1>2, PTL DEF Spec
<1>4. IInv /\ ControlInv /\ PlayInv => PlayedAsPaced
  <2> SUFFICES ASSUME IInv, ControlInv, PlayInv PROVE PlayedAsPaced
    OBVIOUS
  <2>1. source.mode \in {"mission", "simulation", "simulator"}
    BY SourcesAssumption DEF ControlInv
  <2>2. \A k \in DOMAIN sent : sent[k].i \in DOMAIN packets /\ sent[k].at <= now
    <3> SUFFICES ASSUME NEW k \in DOMAIN sent
                 PROVE  sent[k].i \in DOMAIN packets /\ sent[k].at <= now
      OBVIOUS
    <3>1. sent[k].i \in 1..next - 1 /\ sent[k].at <= now /\ next \in 1..Len(packets) + 1
      BY DEF PlayInv, Numbers
    <3>2. packets \in Seq(AnyPacket)
      BY DEF PlayInv, Plays
    <3> QED
      BY <3>1, <3>2
  <2>3. TypeOK
    BY <2>1, <2>2 DEF TypeOK, IInv, Typed, ControlInv, Places, Building, PlayInv, Numbers
  <2> QED
    BY <2>3 DEF PlayedAsPaced, PlayInv
<1> QED
  BY <1>3, <1>4, Inductive, PTL

=============================================================================
