---------------------------- MODULE EventViewer -----------------------------
(***************************************************************************)
(* event_viewer.py: a viewer makes a folder of CSV files for its session,  *)
(* then writes a row for every packet and tells the operator what changed. *)
(* The packets are what the middleware's parsers (include/payloads) make   *)
(* of the state the rocket and the ground equipment report; PubStream      *)
(* models how they get here.                                               *)
(*                                                                         *)
(* The handlers of avionics and of ground packets share nothing, so a      *)
(* scenario follows one of them, or the start of several viewers.          *)
(***************************************************************************)
EXTENDS Integers, Sequences, FiniteSets, SequencesExt

CONSTANTS
    Viewers,        \* viewers started within the same second
    MaxFolder,      \* the longest folder name is followed by so many suffixes
    FlightStates,   \* the flight states reported
    AvFlags,        \* the state flags of the avionics reported
    Tests,          \* the continuity tests reported
    Speeds,         \* the velocities reported, in m/s
    GseFlags,       \* the state flags of the ground equipment reported
    MaxFailures,    \* rows that may not get written
    None            \* what a memory holds before the first packet

LoadCells == {"load_cell_2_error", "load_cell_3_error"}
GseErrors == LoadCells \cup {"ignition_error"}
Scenarios == {"start", "av", "gse"}

ASSUME SpeedsAssumption  == Speeds \subseteq Nat /\ 0 \in Speeds
ASSUME FlightsAssumption == FlightStates \subseteq 0..7 /\ FlightStates # {}
ASSUME NamesAssumption   ==
    /\ AvFlags \cap (GseErrors \cup {"flight", "supersonic", "broadcast"}) = {}
    /\ GseFlags \cap (GseErrors \cup {"flight", "supersonic", "broadcast"}) = {}
ASSUME BoundsAssumption  == MaxFolder \in Nat /\ MaxFailures \in Nat

VARIABLES
    scenario,   \* what this behaviour follows
    stage,      \* how far each viewer has come
    folder,     \* the session folder each viewer has settled on
    folders,    \* the folders that exist: 0 is the time stamp, n has n suffixes
    seen,       \* the last report a handler finished with
    av,         \* the memory of the handler of AV_TO_GCS_DATA_1
    gse,        \* the memory the handlers of both ground packets share
    age,        \* time since each handler displayed its readings
    output,       \* the row, and the messages on tests and readings, of the last packet
    console,    \* the console's last word on each item that changes
    failures    \* rows that were not written so far

vars == <<scenario, stage, folder, folders, seen, av, gse, age, output, console,
          failures>>
startup == <<stage, folder, folders>>

-----------------------------------------------------------------------------
\* The files of a session

Meta == <<"rssi", "snr", "timestamp", "count_av", "count_gse">>

\* The header line each CSV file gets, in groups of columns.
Header ==
    [AV1  |-> Meta \o <<"FlightState", "av_flags", "accel_low", "accel_high",
                        "gyro", "altitude", "velocity", "apogee_complete",
                        "apogee_results", "main_complete", "main_results",
                        "broadcast_flag">>,
     AV2  |-> Meta \o <<"FlightState", "av_flags", "GPS", "nav_status", "q">>,
     AV3  |-> Meta \o <<"FlightState", "av_flags">>,
     GSE1 |-> Meta \o <<"gse_flags", "transducers", "thermocouples", "gse_errors">>,
     GSE2 |-> Meta \o <<"gse_flags", "internal_temp", "wind_speed", "bottles",
                        "voltages", "currents", "gse_errors">>]

\* The fields of each message, by their numbers in the proto files: toProtobuf
\* sets them all, and ListFields returns the fields that are set in this order.
Fields ==
    [AV1  |-> <<"meta", "FlightState", "av_flags", "accel_low", "accel_high",
                "gyro", "altitude", "velocity", "apogee_complete",
                "apogee_results", "main_complete", "main_results",
                "broadcast_flag">>,
     AV2  |-> <<"meta", "FlightState", "av_flags", "GPS", "nav_status", "q">>,
     AV3  |-> <<"meta", "FlightState", "av_flags">>,
     GSE1 |-> <<"meta", "gse_flags", "transducers", "thermocouples",
                "gse_errors">>,
     GSE2 |-> <<"meta", "gse_flags", "internal_temp", "wind_speed", "bottles",
                "voltages", "currents", "gse_errors">>]

\* The row of a packet after its time stamp: the values of nested messages take
\* a column each, and so does what can be iterated over: the two characters of
\* navigation_status.
Columns(field) == CASE field = "meta"       -> Meta
                    [] field = "nav_status" -> <<"nav_status[0]", "nav_status[1]">>
                    [] OTHER                -> <<field>>
Row(kind) == FlattenSeq([i \in DOMAIN Fields[kind] |-> Columns(Fields[kind][i])])

\* A folder exists for the time stamp: append a suffix and look again.
LookForFolder(v) ==
    /\ stage[v] = "looking"
    /\ IF folder[v] \in folders
       THEN /\ folder[v] < MaxFolder
            /\ folder' = [folder EXCEPT ![v] = @ + 1]
            /\ UNCHANGED stage
       ELSE /\ stage' = [stage EXCEPT ![v] = "making"]
            /\ UNCHANGED folder
    /\ UNCHANGED <<scenario, folders, seen, av, gse, age, output, console,
                   failures>>

\* MUTANT: os.makedirs(..., exist_ok=True).
MakeFolderOrReuse(v) ==
    /\ stage[v] = "making"
    /\ folders' = folders \cup {folder[v]}
    /\ stage' = [stage EXCEPT ![v] = "listening"]
    /\ UNCHANGED <<scenario, folder, seen, av, gse, age, output, console,
                   failures>>

\* os.mkdir fails when another viewer was faster, which ends the viewer.
MakeFolder(v) ==
    /\ stage[v] = "making"
    /\ stage' = [stage EXCEPT ![v] = IF folder[v] \in folders THEN "failed"
                                     ELSE "listening"]
    /\ folders' = folders \cup {folder[v]}
    /\ UNCHANGED <<scenario, folder, seen, av, gse, age, output, console,
                   failures>>

-----------------------------------------------------------------------------
\* The packets

\* What the radios carry: the broadcast byte has a value for yes, one for no,
\* and 254 others.
RocketReports == [flight : FlightStates, flags : SUBSET AvFlags, speed : Speeds,
                  complete : SUBSET Tests, results : SUBSET Tests,
                  broadcast : {"yes", "no", "other"}]
GroundReports == [flags : SUBSET GseFlags, errors : SUBSET GseErrors]

\* The parser of AV_TO_GCS_DATA_1 leaves broadcast_flag_ unset on an unknown
\* byte: it may then read as either.
BroadcastFlag(report) == IF report.broadcast = "other" THEN BOOLEAN
                         ELSE {report.broadcast = "yes"}

\* The getters of GSE_TO_GCS_DATA_1 exchange two load cells, those of
\* GSE_TO_GCS_DATA_2 do not.
Exchanged(error) == CASE error = "load_cell_2_error" -> "load_cell_3_error"
                      [] error = "load_cell_3_error" -> "load_cell_2_error"
                      [] OTHER -> error
ErrorFlags(kind, report) ==
    IF kind = "GSE1" THEN {Exchanged(e) : e \in report.errors}
    ELSE report.errors

\* Mach: the temperature of the standard atmosphere at an altitude in m, in
\* 0.1 mK, and whether v / c >= 1 with c * c = 1.4 * 8.3145 * T / 0.0289645.

IsaTemp(altitude) ==
    CASE altitude < 11000 -> 2881500 - 65 * altitude
      [] altitude \in 11000..19999 -> 2166500
      [] altitude \in 20000..31999 -> 2166500 + 10 * (altitude - 20000)
      [] altitude \in 32000..46999 -> 2286500 + 28 * (altitude - 32000)
      [] altitude \in 47000..50999 -> 2706500
      [] altitude \in 51000..70999 -> 2706500 - 28 * (altitude - 51000)
      [] altitude \in 71000..84851 -> 2146500 - 20 * (altitude - 71000)
      [] altitude \in 84852..89999 -> 1869500
      [] OTHER -> 1869500 + 40 * (altitude - 90000)

Supersonic(speed) == 10000 * speed * speed >= 4019 * (IsaTemp(0) \div 100)

-----------------------------------------------------------------------------
\* AVPacket and AV_TO_GCS_DATA_1

Fast == 1       \* 0.7 s, once the rocket broadcasts
Slow == 2       \* 5 s
Ages == 0..Slow + 1

Maybe == BOOLEAN \cup {None}

NoMemory == [flight |-> None, flags |-> [f \in AvFlags |-> None],
             complete |-> [t \in Tests |-> None],
             results |-> [t \in Tests |-> None],
             awaiting |-> [t \in Tests |-> FALSE],
             timeout |-> Slow, supersonic |-> FALSE, max |-> 0, newMax |-> FALSE,
             broadcast |-> FALSE]

\* The console hears of an item when it differs from what is remembered.
Tell(item, remembered, value) ==
    IF remembered[item] = value THEN console[item] ELSE value

\* _process_flight_state, _process_state_flags, supersonic and broadcast.
TellAv(report, flag) ==
    [i \in DOMAIN console |->
        CASE i = "flight"     -> Tell(i, av, report.flight)
          [] i = "supersonic" -> Tell(i, av, Supersonic(report.speed))
          [] i = "broadcast"  -> Tell(i, av, flag)
          [] i \in AvFlags    -> Tell(i, av.flags, i \in report.flags)]

\* __process_test for one pair of bits: what it says of the test ...
SaidOfTest(t, complete, result) ==
    LET first   == av.complete[t] = None
        changed == av.complete[t] # complete
        awaited == av.awaiting[t]
    IN  {m \in {<<t, "complete">>}                   : changed /\ awaited /\ complete} \cup
        {m \in {<<t, "not complete">>}               : changed /\ awaited /\ ~complete} \cup
        {m \in {<<t, "unprompted">>}                 : changed /\ ~awaited /\ complete} \cup
        {m \in {<<t, "first result", result>>}       : changed /\ first} \cup
        {m \in {<<t, "result", result>>}             : changed /\ ~first} \cup
        {m \in {<<t, "changed without completion">>} : ~changed /\ av.results[t] # result}

\* MUTANT: the history follows the bit only while a result is awaited.
RememberTestsAwaited(report) ==
    [av EXCEPT !.complete = [t \in Tests |->
                    IF av.awaiting[t] \/ av.complete[t] = None
                    THEN t \in report.complete ELSE av.complete[t]],
               !.results = [t \in Tests |-> t \in report.results],
               !.awaiting = [t \in Tests |->
                    ~(av.awaiting[t] /\ av.complete[t] # (t \in report.complete))]]

\* ... and what it leaves behind.
RememberTests(report) ==
    [av EXCEPT !.complete = [t \in Tests |-> t \in report.complete],
               !.results = [t \in Tests |-> t \in report.results],
               !.awaiting = [t \in Tests |->
                    ~(av.awaiting[t] /\ av.complete[t] # (t \in report.complete))]]

\* Readings are displayed when the last time is longer ago than the timeout.
Display(kind, timeout) ==
    age' = [age EXCEPT ![kind] = IF @ > timeout THEN 0 ELSE @]

SaidOfReadings(kind, timeout) ==
    {m \in {<<"readings", kind>>} : age[kind] > timeout}


\* A maximum not displayed yet.
PendingMax(speed) == av.newMax \/ speed > av.max

\* Packet.process runs first: a row that cannot be written is an exception,
\* which skips the rest of the handler.
LoseRow ==
    /\ failures < MaxFailures
    /\ failures' = failures + 1
    /\ output' = {}
    /\ UNCHANGED <<scenario, startup, seen, gse, age, console>>

\* MUTANT: the flight state is remembered before the row is written.
LoseAv1Late(report) ==
    /\ scenario = "av"
    /\ LoseRow
    /\ av' = [av EXCEPT !.flight = report.flight]

LoseAv1(report) ==
    /\ scenario = "av"
    /\ LoseRow
    /\ UNCHANGED av

HandleAv1(report) ==
    /\ scenario = "av"
    /\ \E flag \in BroadcastFlag(report) :
        /\ av' = [RememberTests(report) EXCEPT
                    !.flight = report.flight,
                    !.flags = [f \in AvFlags |-> f \in report.flags],
                    !.supersonic = Supersonic(report.speed),
                    !.max = IF report.speed > @ THEN report.speed ELSE @,
                    !.newMax = PendingMax(report.speed) /\ age["AV1"] <= av.timeout,
                    !.broadcast = flag,
                    !.timeout = IF flag THEN Fast ELSE @]
        /\ console' = TellAv(report, flag)
        /\ seen' = [report EXCEPT !.broadcast = flag]
    /\ output' = {<<"row", "AV1">>} \cup SaidOfReadings("AV1", av.timeout)
               \cup {m \in {<<"new max", report.speed>>} :
                       age["AV1"] > av.timeout /\ PendingMax(report.speed)}
               \cup UNION {SaidOfTest(t, t \in report.complete, t \in report.results) :
                               t \in Tests}
    /\ Display("AV1", av.timeout)
    /\ UNCHANGED <<scenario, startup, gse, failures>>

\* AV_TO_GCS_DATA_2 and _3 are written to their files and not looked at.
HandleAv2(kind) ==
    /\ scenario = "av"
    /\ output' = {<<"row", kind>>}
    /\ UNCHANGED <<scenario, startup, seen, av, gse, age, console, failures>>

-----------------------------------------------------------------------------
\* GSEPacket, GSE_TO_GCS_DATA_1 and GSE_TO_GCS_DATA_2

NoGseMemory == [flags |-> [f \in GseFlags |-> None],
                errors |-> [e \in GseErrors |-> None]]

TellGse(report, errors) ==
    [i \in DOMAIN console |->
        IF i \in GseFlags THEN Tell(i, gse.flags, i \in report.flags)
        ELSE Tell(i, gse.errors, i \in errors)]

\* _process_gse_state_flags and _process_gse_errors remember in the class: the
\* two packets share what they remember.
RememberGse(report, errors) ==
    gse' = [flags  |-> [f \in GseFlags |-> f \in report.flags],
            errors |-> [e \in GseErrors |-> e \in errors]]

HandleGse(kind, report) ==
    /\ scenario = "gse"
    /\ LET errors == ErrorFlags(kind, report)
       IN  /\ RememberGse(report, errors)
           /\ console' = TellGse(report, errors)
    /\ seen' = report
    /\ output' = {<<"row", kind>>} \cup SaidOfReadings(kind, Slow)
    /\ Display(kind, Slow)
    /\ UNCHANGED <<scenario, startup, av, failures>>

LoseGse ==
    /\ scenario = "gse"
    /\ LoseRow
    /\ UNCHANGED av

-----------------------------------------------------------------------------
Watched(s) == CASE s = "av"    -> {"flight", "supersonic", "broadcast"} \cup AvFlags
                [] s = "gse"   -> GseFlags \cup GseErrors
                [] s = "start" -> {}

Displays(s) == CASE s = "av"    -> {"AV1"}
                 [] s = "gse"   -> {"GSE1", "GSE2"}
                 [] s = "start" -> {}

Tick ==
    /\ \E k \in DOMAIN age : age[k] <= Slow
    /\ age' = [k \in DOMAIN age |-> IF age[k] <= Slow THEN age[k] + 1 ELSE age[k]]
    /\ output' = {}
    /\ UNCHANGED <<scenario, startup, seen, av, gse, console, failures>>

Init ==
    /\ scenario \in Scenarios
    /\ stage = [v \in Viewers |-> IF scenario = "start" THEN "looking" ELSE "listening"]
    /\ folder = [v \in Viewers |-> 0]
    /\ folders \in IF scenario = "start" THEN SUBSET {0} ELSE {{}}
    /\ seen = None
    /\ av = NoMemory
    /\ gse = NoGseMemory
    /\ age = [k \in Displays(scenario) |-> 0]
    /\ output = {}
    /\ console = [i \in Watched(scenario) |->
                    IF i \in {"supersonic", "broadcast"} THEN FALSE ELSE None]
    /\ failures = 0

Next ==
    \/ \E v \in Viewers : LookForFolder(v) \/ MakeFolder(v)
    \/ \E report \in RocketReports : HandleAv1(report) \/ LoseAv1(report)
    \/ \E kind \in {"AV2", "AV3"} : HandleAv2(kind)
    \/ \E report \in GroundReports :
        \E kind \in {"GSE1", "GSE2"} : HandleGse(kind, report)
    \/ LoseGse
    \/ Tick

\* Time passes, and the middleware keeps publishing the packets of which the
\* viewer displays readings, in rows that get written.
Fairness ==
    /\ WF_vars(Tick)
    /\ \A kind \in {"AV1", "GSE1", "GSE2"} :
        []<>(kind \in Displays(scenario) => <<"row", kind>> \in output)

Spec == Init /\ [][Next]_vars /\ Fairness

-----------------------------------------------------------------------------
\* Properties

TypeOK ==
    /\ scenario \in Scenarios
    /\ stage \in [Viewers -> {"looking", "making", "listening", "failed"}]
    /\ folder \in [Viewers -> 0..MaxFolder]
    /\ folders \subseteq 0..MaxFolder
    /\ seen = None \/ seen \in GroundReports
       \/ seen \in [flight : FlightStates, flags : SUBSET AvFlags, speed : Speeds,
                    complete : SUBSET Tests, results : SUBSET Tests,
                    broadcast : BOOLEAN]
    /\ av \in [flight : FlightStates \cup {None}, flags : [AvFlags -> Maybe],
               complete : [Tests -> Maybe], results : [Tests -> Maybe],
               awaiting : [Tests -> BOOLEAN], timeout : {Fast, Slow},
               supersonic : BOOLEAN, max : Speeds, newMax : BOOLEAN,
               broadcast : BOOLEAN]
    /\ gse \in [flags : [GseFlags -> Maybe], errors : [GseErrors -> Maybe]]
    /\ age \in [Displays(scenario) -> Ages]
    /\ DOMAIN console = Watched(scenario)
    /\ failures \in 0..MaxFailures

\* Two viewers never write into the same folder, although each looks whether
\* the folder exists before it makes it ("As the directory is named per
\* instance, this should not need to be looped for name uniqueness").
SessionsHaveOwnFolder ==
    scenario = "start" =>
    \A v, w \in Viewers :
        v # w /\ stage[v] = "listening" /\ stage[w] = "listening"
        => folder[v] # folder[w]

\* Every value is written under the header that names it, nested messages
\* included (the assumption in Packet.process: "all in order of the csv
\* headers"), but in the file of AV_TO_GCS_DATA_2: what follows its navigation
\* status stands one column to the right of its header.
RowsFitHeaders ==
    /\ \A kind \in DOMAIN Header \ {"AV2"} : Row(kind) = Header[kind]
    /\ LET at == CHOOSE i \in DOMAIN Header.AV2 : Header.AV2[i] = "nav_status"
       IN  /\ Len(Row("AV2")) = Len(Header.AV2) + 1
           /\ \A i \in DOMAIN Header.AV2 \ {at} :
                  Row("AV2")[IF i < at THEN i ELSE i + 1] = Header.AV2[i]

\* The layers of the standard atmosphere meet: no boundary changes the
\* temperature by more than a metre of the steepest layer does.
AtmosphereIsContinuous ==
    \A a \in {11000, 20000, 32000, 47000, 51000, 71000, 84852, 90000} :
        IsaTemp(a) - IsaTemp(a - 1) \in -65..65

\* Once a packet is handled, the last word of the console on the flight state,
\* each flag, the broadcast and the sound barrier is what the packet reports,
\* whatever packets failed in between.
ConsoleIsCurrent ==
    seen # None =>
    \A i \in DOMAIN console :
        console[i] = CASE i = "flight"     -> seen.flight
                       [] i = "broadcast"  -> seen.broadcast
                       [] i = "supersonic" -> Supersonic(seen.speed)
                       [] i \in LoadCells  -> console[i]
                       [] i = "ignition_error" -> i \in seen.errors
                       [] OTHER            -> i \in seen.flags

\* A test that completes between two handled packets does not go unnoticed,
\* awaited or not, whatever failed in between.
CompletionIsNotSilent ==
    [][\A t \in Tests :
        (/\ scenario = "av" /\ seen # None /\ seen' # seen
         /\ t \notin seen.complete /\ t \in seen'.complete)
        => {<<t, "complete">>, <<t, "unprompted">>} \cap output' # {}]_vars

=============================================================================
