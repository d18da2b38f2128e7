------------------------------ MODULE MCReplay ------------------------------
(* Missions with every choice of a few times for the packets of the        *)
(* avionics, the packets that cannot be written, and simulated flights     *)
(* with every choice of times and milestones.  A unit is about 10 ms.      *)
EXTENDS Replay

Arguments(mode, mission, raven, simulation, data) ==
    [mode |-> mode, mission |-> mission, raven |-> raven,
     simulation |-> simulation, data |-> data]

Packet(type, t, accel, gyro, nav) ==
    [type |-> type, t |-> t, state |-> 0, accel |-> accel, gyro |-> gyro, nav |-> nav]
Av1(t) == Packet("AV_TO_GCS_DATA_1", t, 31, -300, FALSE)
Av2(t) == Packet("AV_TO_GCS_DATA_2", t, 0, 0, TRUE)
InOrder(times) == SelectSeq([i \in 1..13 |-> i - 1], LAMBDA t : t \in times)
RowsAt(av1, av2) ==
    LET s == InOrder(av1) t == InOrder(av2)
    IN  [i \in DOMAIN s |-> Av1(s[i])] \o [i \in DOMAIN t |-> Av2(t[i])]

Odd(type) == <<Av1(1), Packet(type, 2, 0, 0, TRUE), Av2(12)>>
Recorded == {RowsAt(av1, av2) : av1 \in SUBSET {0, 1, 2, 4, 12}, av2 \in SUBSET {1, 2, 12}}
Unusual == {Odd(PacketTypes[i]) : i \in DOMAIN PacketTypes}
             \cup {<<Packet("AV_TO_GCS_DATA_1", 3, 32, 0, FALSE)>>}
Missions == {Arguments("mission", "recorded", None, None, rows) : rows \in Recorded \cup Unusual}

Log == [fast |-> <<1, 2, 3, 7>>, slow |-> <<2, 4>>, accel |-> 2, gyro |-> 0]
Documented ==
    {Arguments("mission", None, "recorded", None, Log),
     Arguments("simulation", None, None, "TEST",
               [times |-> <<0, 2, 4>>, fastest |-> 1, apogee |-> 3, accel |-> 30, gyro |-> 1])}

Flight(times, fastest, apogee, accel, gyro) ==
    [times |-> InOrder(times), fastest |-> fastest, apogee |-> apogee,
     accel |-> accel, gyro |-> gyro]
Flights == {Flight({0, 7} \cup times, f, a, 90, -4) :
              times \in SUBSET (1..6), f \in {1, 2, 4}, a \in {3, 5, 6}}
            \cup {Flight({0, 7}, 1, 3, 157, 0), Flight({0, 7}, 1, 3, 0, 6)}
Simulated ==
    {Arguments("simulator", None, None, None, flight) : flight \in Flights}

Refused ==
    {Arguments("mission", "recorded", "recorded", None, <<>>),
     Arguments("mission", None, None, None, <<>>),
     Arguments("mission", "missing", None, None, <<>>),
     Arguments("simulation", None, None, "FAIL", Flight({0, 2, 7}, 1, 3, 90, -4))}

Restarted ==
    {Arguments(mode, None, None, IF mode = "simulation" THEN "DEMO" ELSE None,
               Flight({0, 2, 7}, 1, 3, 90, -4)) : mode \in {"simulation", "simulator"}}

\* Every simulated flight is thinned as it should be.
ASSUME Thinning == \A s \in Simulated : ThinningKeepsTheFlight(s.data)

AllSources == Missions \cup Documented \cup Simulated \cup Refused \cup Restarted
=============================================================================
