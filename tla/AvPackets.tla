----------------------------- MODULE AvPackets ------------------------------
(***************************************************************************)
(* The three avionics packets as the emulator puts them together           *)
(* (device_emulator.py with the encoders of metric.py) and as the          *)
(* middleware's parsers take them apart (include/payloads).  A packet on   *)
(* the wire is the sequence of its fields, each a kind (width, signedness, *)
(* byte order) and a value; a parser that asks for other kinds than those  *)
(* that were written reads something else.                                 *)
(*                                                                         *)
(* Numbers are scaled: a 16 bit integer of the code has Width bits here,   *)
(* and a wave takes the values phase / Steps of its amplitude.  A quotient *)
(* stays a pair, the number divided and what it is divided by.             *)
(***************************************************************************)
EXTENDS Integers, Sequences, SequencesExt

CONSTANTS
    Width,      \* bits of a short integer
    Steps       \* a wave is at its peak at this phase

ASSUME WidthAssumption == Width \in Nat /\ Width >= 2
ASSUME StepsAssumption == Steps \in Nat /\ Steps >= 1

Ids == {3, 4, 5}
Shorts == -(2^(Width - 1)) .. 2^(Width - 1) - 1

\* A group of fields of one kind.
Kind(kind, names) == [i \in DOMAIN names |-> <<kind, names[i]>>]

StateNames == <<"dual_board_connectivity", "recovery_checks_complete",
                "gps_fix", "payload_connection", "camera_controller">>
ShortNames == <<"accel_low_x", "accel_low_y", "accel_low_z",
                "accel_high_x", "accel_high_y", "accel_high_z",
                "gyro_x", "gyro_y", "gyro_z">>
ApogeeNames == <<"apogee_primary_complete", "apogee_secondary_complete",
                 "apogee_primary_results", "apogee_secondary_results">>
MainNames == <<"main_primary_complete", "main_secondary_complete",
               "main_primary_results", "main_secondary_results">>
QuaternionNames == <<"qw", "qx", "qy", "qz">>

-----------------------------------------------------------------------------
\* What the emulator sends

\* An amplitude's share at a phase: int() cuts towards zero.
Wave(phase, amplitude) ==
    IF phase >= 0 THEN (amplitude * phase) \div Steps
    ELSE -((amplitude * (-phase)) \div Steps)

\* Low acceleration and turn rate stay below the top of the range, high
\* acceleration goes up to it.
Amplitude(name) ==
    IF name \in {"accel_high_x", "accel_high_y", "accel_high_z"}
    THEN 2^(Width - 1) ELSE 2^(Width - 1) - 1

\* What an acceleration in g, or a turn rate in units of 0.00875, is multiplied
\* by; the sign is put before the cut number.
UnitsSent(name) ==
    CASE name \in {"accel_low_x", "accel_low_y"}   -> 2048
      [] name = "accel_low_z"                      -> -2048
      [] name \in {"accel_high_x", "accel_high_y"} -> -1024
      [] name = "accel_high_z"                     -> 1024
      [] name \in {"gyro_x", "gyro_y", "gyro_z"}   -> 1
Sign(name) == IF UnitsSent(name) < 0 THEN -1 ELSE 1

\* The arguments a packet is made of, and their values in a round.
CommonNames == {"rssi", "snr", "flight_state"} \cup Range(StateNames)
TestNames   == Range(ApogeeNames) \cup Range(MainNames)
Carried(id) ==
    CommonNames \cup
        CASE id = 3 -> Range(ShortNames) \cup {"altitude", "velocity"}
                           \cup TestNames \cup {"broadcast"}
          [] id = 4 -> {"latitude", "longitude", "nav_status"}
                           \cup Range(QuaternionNames)
          [] id = 5 -> {}

Sampled(name, phase, experimental) ==
    CASE name = "flight_state" -> IF experimental THEN phase % 8 ELSE 0
      [] name \in Range(StateNames) ->
            IF experimental THEN phase % 2 = 1 ELSE name # "recovery_checks_complete"
      [] name \in Range(ShortNames) -> Sign(name) * Wave(phase, Amplitude(name))
      [] name \in TestNames \cup {"broadcast"} -> experimental /\ phase % 2 = 1
      [] name = "nav_status" -> IF experimental /\ phase % 2 = 1 THEN "NF" ELSE "G2"
      [] OTHER -> phase
Arguments(id, phase, experimental) ==
    [n \in Carried(id) |-> Sampled(n, phase, experimental)]

\* Flipped bits: a flag may become either value; an integer is cut to the
\* bits it had, without its sign; a number that is none becomes the largest;
\* the navigation status, a string, keeps its bits.
Size(value) == IF value < 0 THEN -value ELSE value
BitLength(value) == CHOOSE n \in 0..Width : \A m \in 0..Width :
                                                Size(value) < 2^m <=> n <= m

Corrupted(name, value) ==
    CASE name \in Range(StateNames) \cup TestNames \cup {"broadcast"} -> BOOLEAN
      [] name \in Range(ShortNames) \cup {"flight_state"} ->
            0 .. 2^BitLength(value) - 1
      [] name = "nav_status" -> {value}
      [] OTHER -> {value, Steps}

\* Values the encoders take; they refuse the others with a ValueError.
Encodable(arguments) ==
    /\ arguments["flight_state"] \in 0..7
    /\ \A n \in Range(ShortNames) \cap DOMAIN arguments : arguments[n] \in Shorts

-----------------------------------------------------------------------------
\* The fields in the order the emulator writes them

StateFlagsReversed ==             \* MUTANT: the flags from the last to the first
    Kind("u3", <<"flight_state">>) \o Kind("u1", Reverse(StateNames))

StateFlags == Kind("u3", <<"flight_state">>) \o Kind("u1", StateNames)
Results(names) == Kind("u1", SubSeq(names, 1, 2)) \o Kind("u4", <<"fixed">>)
                      \o Kind("u1", SubSeq(names, 3, 4))
Gps == Kind("f32le", <<"latitude", "longitude">>)

Payload(id) ==
    CASE id = 3 -> StateFlags \o Kind("i16", ShortNames)
                       \o Kind("f32be", <<"altitude", "velocity">>)
                       \o Results(ApogeeNames) \o Results(MainNames)
                       \o Kind("u8", <<"broadcast", "dummy">>)
      [] id = 4 -> StateFlags \o Gps \o Kind("s2", <<"nav_status">>)
                       \o Kind("f32le", QuaternionNames)
      [] id = 5 -> StateFlags \o Kind("u8", [i \in 1..30 |-> "dummy"])

\* A quaternion is divided as if it were one of a 16 bit integer's units.
QuaternionUnits == 32768

Encoded(arguments, name) ==
    CASE name = "fixed"     -> 10
      [] name = "dummy"     -> 0
      [] name = "broadcast" -> IF arguments[name] THEN 170 ELSE 0
      [] name \in Range(QuaternionNames) -> <<arguments[name], QuaternionUnits>>
      [] OTHER              -> arguments[name]

\* The packet the test interface gets: the signal quality is put behind the ID.
Layout(id) == Kind("f32be", <<"rssi", "snr">>) \o Payload(id)
Layouts == [id \in Ids |-> Layout(id)]
Wire(id, arguments) ==
    [i \in DOMAIN Layouts[id] |-> Encoded(arguments, Layouts[id][i][2])]

\* The E5's text form gives the signal quality in whole units; the interface
\* puts it back behind the ID.  (A unit is two steps of a phase.)
Rounded(value) == IF value % 2 = 0 THEN value
                  ELSE IF value % 4 = 1 THEN value - 1 ELSE value + 1
WireUart(id, arguments) ==
    Wire(id, [n \in DOMAIN arguments |->
                  IF n \in {"rssi", "snr"} THEN Rounded(arguments[n])
                  ELSE arguments[n]])

-----------------------------------------------------------------------------
\* What the middleware's parsers read

FlagsRead == Kind("u3", <<"flight_state">>) \o Kind("u1", StateNames)
ResultsRead(names) == Kind("u1", SubSeq(names, 1, 2)) \o Kind("u4", <<"skipped">>)
                          \o Kind("u1", SubSeq(names, 3, 4))

PayloadRead(id) ==
    CASE id = 3 -> FlagsRead \o Kind("i16", ShortNames)
                       \o Kind("f32be", <<"altitude", "velocity">>)
                       \o ResultsRead(ApogeeNames) \o ResultsRead(MainNames)
                       \o Kind("u8", <<"broadcast", "skipped">>)
      [] id = 4 -> FlagsRead \o Kind("f32le", <<"latitude", "longitude">>)
                       \o Kind("s2", <<"nav_status">>)
                       \o Kind("f32le", QuaternionNames)
      [] id = 5 -> FlagsRead \o Kind("u8", [i \in 1..30 |-> "skipped"])

ParserFields(id) == Kind("f32be", <<"rssi", "snr">>) \o PayloadRead(id)

\* A field is read where the kinds before it and its own are those written.
\* The second packet's flight state is skipped.
Position ==
    [id \in Ids |->
        LET fields  == ParserFields(id)
            written == Layout(id)
            read == {i \in DOMAIN fields :
                        /\ i <= Len(written)
                        /\ \A j \in 1..i : written[j][1] = fields[j][1]
                        /\ fields[i][2] # "skipped"
                        /\ id # 4 \/ fields[i][2] # "flight_state"}
        IN  [n \in {fields[i][2] : i \in read} |->
                CHOOSE i \in read : fields[i][2] = n]]

\* calc_flight_state: eight patterns of bits, seven flight states.
FlightStateNames == <<"PRE_FLIGHT_NO_FLIGHT_READY", "LAUNCH", "COAST", "APOGEE",
                      "DESCENT", "LANDED", "OH_NO", "OH_NO">>

\* What an acceleration that was read is divided by; a turn rate is multiplied.
UnitsRead(name) ==
    CASE name \in {"accel_low_x", "accel_low_y", "accel_high_z"}  -> 1024
      [] name \in {"accel_low_z", "accel_high_x", "accel_high_y"} -> -1024
      [] name \in {"gyro_x", "gyro_y", "gyro_z"}                  -> 1

\* The parser turns a field into a member.  (A broadcast byte other than the two
\* the emulator writes would leave the member unset.)
Member(name, value) ==
    CASE name = "broadcast"          -> value = 170
      [] name = "flight_state"       -> FlightStateNames[value + 1]
      [] name \in Range(ShortNames)  -> <<value, UnitsRead(name)>>
      [] OTHER                       -> value

Parsed(id, wire) ==
    [n \in DOMAIN Position[id] |-> Member(n, wire[Position[id][n]])]

=============================================================================
