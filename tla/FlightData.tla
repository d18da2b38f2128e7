----------------------------- MODULE FlightData -----------------------------
(***************************************************************************)
(* The packets a replay is given: the files of a recorded mission, the two *)
(* logs of a Blue Raven flight computer, or a simulated flight of which    *)
(* one row is kept per interval (replay_engine.process_csv_packets,        *)
(* blue_raven_processor.py, run_simulation.py, flight_simulation.py).      *)
(*                                                                         *)
(* Times are whole units.  Of a packet's data the model keeps what decides *)
(* its fate: its reading of the acceleration and of the turn rate, the     *)
(* flight state, and whether there is a navigation status.                 *)
(***************************************************************************)
EXTENDS Integers, Sequences, FiniteSets, SequencesExt

CONSTANTS
    MinTime,    \* min_timeout_ms: earlier rows of a mission are left out
    Delay,      \* rows put before a simulated flight: INJECTION_DELAY_S
    Window,     \* timeout_interval_ms
    None

ASSUME FlightDataAssumption ==
    MinTime \in Nat /\ Window \in Nat /\ Delay \in Nat /\ Delay > Window + 1

-----------------------------------------------------------------------------
\* Packets

\* In the order of PacketType, the order in which the files are read.
PacketTypes == <<"GCS_TO_AV_STATE_CMD", "GSE_TO_GCS_DATA_1",
                 "GSE_TO_GCS_DATA_2", "GSE_TO_GCS_DATA_3",
                 "AV_TO_GCS_DATA_1", "AV_TO_GCS_DATA_2",
                 "AV_TO_GCS_DATA_3", "GCS_TO_GSE_STATE_CMD">>
Rank(type) == CHOOSE i \in DOMAIN PacketTypes : PacketTypes[i] = type

AnyPacket == [type : Range(PacketTypes), t : Nat, state : Nat, accel : Int, gyro : Int,
              nav : BOOLEAN]

\* The members of a finite set in an order, which is a set of pairs.
Arranged(S, order) ==
    [k \in 1..Cardinality(S) |->
        CHOOSE x \in S : Cardinality({y \in S : <<y, x>> \in order}) = k - 1]

\* Neither a Blue Raven log nor a simulated flight has a navigation status.
AvPair(row, accel, gyro) ==
    <<[type |-> "AV_TO_GCS_DATA_1", t |-> row.t, state |-> row.state,
       accel |-> accel, gyro |-> gyro, nav |-> FALSE],
      [type |-> "AV_TO_GCS_DATA_2", t |-> row.t, state |-> row.state,
       accel |-> 0, gyro |-> 0, nav |-> FALSE]>>
AvPairs(rows, accel, gyro) ==
    [k \in 1..2 * Len(rows) |->
        AvPair(rows[(k + 1) \div 2], accel, gyro)[2 - (k % 2)]]

\* A mission: the rows after MinTime of every file, sorted by time; rows of
\* the same time stay in the order of the files, and of a file in its order.
Precedes(rows, i, j) ==
    \/ rows[i].t < rows[j].t
    \/ /\ rows[i].t = rows[j].t
       /\ \/ Rank(rows[i].type) < Rank(rows[j].type)
          \/ Rank(rows[i].type) = Rank(rows[j].type) /\ i < j

MissionPackets(rows) ==
    LET taken == {i \in DOMAIN rows : rows[i].t > MinTime}
        order == {p \in taken \X taken : Precedes(rows, p[1], p[2])}
    IN  [k \in 1..Cardinality(taken) |-> rows[Arranged(taken, order)[k]]]

-----------------------------------------------------------------------------
\* Blue Raven: every row of the fast log is given the columns, and so the
\* time, of the first row of the slow log that is not before it.

ClosestRow(time, slow) ==
    LET after == {i \in DOMAIN slow : slow[i] >= time}
    IN  IF after = {} THEN Len(slow) ELSE CHOOSE i \in after :
                                            \A j \in after : i <= j

MergedTimes(fast, slow) ==
    [i \in DOMAIN fast |-> slow[ClosestRow(fast[i], slow)]]

BlueRavenPackets(log) ==
    LET times == MergedTimes(log.fast, log.slow)
        rows == [i \in DOMAIN times |-> [t |-> times[i] - times[1], state |-> 0]]
    IN  AvPairs(rows, log.accel, log.gyro)

-----------------------------------------------------------------------------
\* A simulated flight: its times, when it is fastest and when it is highest

\* The state is the number of milestones passed; at the apogee it is 3 for an
\* instant (a hundred-thousandth of the time, less than a unit).
FlightState(t, flight) ==
    LET passed == <<t > 0, t >= flight.fastest, t >= flight.apogee,
                    t > flight.apogee, t >= Last(flight.times)>>
    IN  Cardinality({m \in 1..5 : passed[m]})

Rows(flight) ==
    [i \in DOMAIN flight.times |->
        [t |-> flight.times[i], state |-> FlightState(flight.times[i], flight)]]

\* The first row is repeated during a delay on the pad.
Injected(rows) ==
    [i \in 1..Delay |-> [t |-> i - 1, state |-> rows[1].state]]
        \o [i \in DOMAIN rows |-> [rows[i] EXCEPT !.t = @ + Delay]]

\* The first row of the window of each row: a row more than Window after the
\* start of the window begins another.
WindowStarts(rows) ==
    LET first[i \in DOMAIN rows] ==
            IF i = 1 THEN 1
            ELSE LET s == first[i - 1]
                 IN  IF rows[i].t <= rows[s].t + Window THEN s ELSE i
    IN  first

\* A row matters if its state differs from that of the last row before its
\* window.  (All rows of the first window matter alike, as if none did.)
Matters(rows, start, i) == start > 1 /\ rows[start - 1].state # rows[i].state

\* Of each window the first of its most important rows is kept.
Kept(rows) ==
    LET first == WindowStarts(rows)
        important == {i \in DOMAIN rows : Matters(rows, first[i], i)}
        best(s) == {i \in important : first[i] = s}
    IN  {i \in DOMAIN rows : IF best(first[i]) = {} THEN i = first[i]
                             ELSE i \in best(first[i]) /\
                                  \A j \in best(first[i]) : i <= j}

Culled(rows) ==
    LET kept == Kept(rows)
        order == {p \in kept \X kept : p[1] < p[2]}
    IN  [k \in 1..Cardinality(kept) |-> rows[Arranged(kept, order)[k]]]

PostProcessed(flight) == Culled(Injected(Rows(flight)))

SimulationPackets(flight) ==
    AvPairs(PostProcessed(flight), flight.accel, flight.gyro)

-----------------------------------------------------------------------------
\* The data as they are recorded: the rows of a mission in any order, the two
\* logs in that of time (bisect looks a time up in the slow one), the times of a
\* simulated flight sorted.

Ascending(times) == \A i, j \in DOMAIN times : i <= j => times[i] <= times[j]
IsMission(rows) == rows \in Seq(AnyPacket)
IsLog(log) ==
    /\ log.fast \in Seq(Int) /\ log.slow \in Seq(Int) /\ log.slow # <<>>
    /\ Ascending(log.fast) /\ Ascending(log.slow)
    /\ log.accel \in Int /\ log.gyro \in Int
IsFlight(flight) ==
    /\ flight.times \in Seq(Nat) /\ flight.times # <<>> /\ Ascending(flight.times)
    /\ flight.accel \in Int /\ flight.gyro \in Int

-----------------------------------------------------------------------------
\* Properties of the culled flight

\* A row of another state than the row before it is kept, unless the state
\* had already changed within the last window's time.
Changes(rows) == {i \in 2..Len(rows) : rows[i].state # rows[i - 1].state}
KeepsChanges(rows, kept) ==
    \A i \in Changes(rows) :
        \/ \E j \in Changes(rows) : /\ j < i
                                    /\ rows[i].t - rows[j].t <= Window
        \/ rows[i] \in Range(kept)

\* At most one row is kept per window: kept rows are in order, and each row
\* of the flight has one within a window's time of it.
KeepsPace(rows, kept) ==
    /\ \A k \in 2..Len(kept) : kept[k - 1].t < kept[k].t
    /\ \A i \in DOMAIN rows : \E k \in DOMAIN kept :
          kept[k].t - rows[i].t \in -Window..Window

\* Thinning a simulated flight to a row per window keeps its changes of state.
ThinningKeepsTheFlight(flight) ==
    LET rows == Injected(Rows(flight))
        kept == Culled(rows)
    IN  KeepsChanges(rows, kept) /\ KeepsPace(rows, kept)

=============================================================================
