------------------------------- MODULE Replay -------------------------------
(***************************************************************************)
(* The two programs that play a flight into the fake serial device:        *)
(* replay_engine.main, which paces the packets of a recorded mission, of a *)
(* Blue Raven or of a simulated flight, and run_simulation.main, which     *)
(* plays a simulated flight directly.  A simulated flight is computed once *)
(* and kept in a cache directory, in which a file building.lock says that  *)
(* it is not complete; the process may be killed, and started again, at    *)
(* any point of that.                                                      *)
(*                                                                         *)
(* Time is relative to the moment the packets are loaded; the writes       *)
(* themselves (device_emulator's MockPacket, modelled in Emulator) take no *)
(* time.                                                                   *)
(***************************************************************************)
EXTENDS FlightData

CONSTANTS
    Sources,    \* the arguments of the program, with the data they name
    Frame,      \* 1 / max_frame_rate
    Chunk,      \* sleep_buffer_error: the longest single sleep
    SendTime,   \* the sleep before a packet is handled
    Killed,     \* bound: those whose program is killed and started again
    MaxStarts   \* bound: times it is started

ASSUME ReplayAssumption ==
    /\ Frame \in Nat \ {0} /\ Chunk \in Nat \ {0} /\ SendTime \in Nat
    /\ MaxStarts \in Nat \ {0} /\ Killed \subseteq Sources

ASSUME SourcesAssumption ==
    \A s \in Sources :
        /\ s.mode \in {"mission", "simulation", "simulator"}
        /\ s.mode # "mission" => IsFlight(s.data)
        /\ s.mode = "mission" /\ s.mission # None => IsMission(s.data)
        /\ s.mode = "mission" /\ s.mission = None /\ s.raven # None => IsLog(s.data)

\* What the program dies of.
Causes == {"arguments", "no packets", "no flight", "cache", "acceleration", "turn rate",
           "navigation status", "undefined name", "reading"}
ASSUME CausesAssumption == None \notin Causes

VARIABLES
    source,     \* what is played
    cache,      \* the cache directory of the simulated flight
    pc,         \* where the program is
    cause,      \* why it died
    running,    \* service_helper's flag: no signal so far
    starts,     \* times it was started
    packets,    \* what it plays
    next,       \* the index of the packet at hand
    now,        \* the time since the replay, or this round of DEMO, began
    origin,     \* start_time: the time at which packet time is 0
    earliest,   \* next_earliest_frame_time_av1 and _av2
    chunk,      \* the length of the sleeps of the current wait
    remaining,  \* how much of it is left
    sent        \* history: [i, at] of every packet written in this round

vars == <<source, cache, pc, cause, running, starts, packets, next, now, origin,
          earliest, chunk, remaining, sent>>
player == <<packets, next, now, origin, earliest, chunk, remaining, sent>>
world  == <<source, running, starts>>

Final == {"ended", "stopped", "died", "killed"}

Stop(why) == pc' = why /\ UNCHANGED cause
Die(why)  == pc' = "died" /\ cause' = why

-----------------------------------------------------------------------------
\* Which flight is played

\* argparse admits the modes and the simulations; the rest is raised by main.
RefusedArguments ==
    \/ source.mode = "mission" /\ source.mission # None /\ source.raven # None
    \/ source.mode = "mission" /\ source.mission = None /\ source.raven = None
    \/ source.mode = "mission" /\ "missing" \in {source.mission, source.raven}
    \/ source.mode = "simulation" /\ source.simulation \notin {"TEST", "DEMO"}

IsSimulated == source.mode \in {"simulation", "simulator"}
Demo == source.simulation = "DEMO"

\* The first wait is made no longer than a sleep.
ValidTimeout(ps) ==
    IF ps[1].t > MinTime + Chunk THEN ps[1].t - Chunk ELSE MinTime

Unlimited == [type \in {"AV_TO_GCS_DATA_1", "AV_TO_GCS_DATA_2"} |-> 0]

Begin(ps) ==
    /\ next' = 1
    /\ now' = 0
    /\ origin' = -ValidTimeout(ps)
    /\ earliest' = [type \in DOMAIN earliest |-> origin']
    /\ sent' = <<>>
    /\ Stop("next")

\* A reader that fails (a file is missing) has logged that and returned no
\* packets: the list is then not None, and its first packet is looked up.
Play(ps) ==
    /\ packets' = ps
    /\ IF ps = <<>>
       THEN Die("no packets") /\ UNCHANGED <<next, now, origin, earliest, sent>>
       ELSE Begin(ps)
    /\ UNCHANGED <<now, chunk, remaining>>

Start ==
    /\ pc = "start"
    /\ IF RefusedArguments THEN Die("arguments") /\ UNCHANGED player
       ELSE IF IsSimulated THEN Stop("look") /\ UNCHANGED player
       ELSE Play(IF source.mission # None THEN MissionPackets(source.data)
                                          ELSE BlueRavenPackets(source.data))
    /\ UNCHANGED <<world, cache>>

-----------------------------------------------------------------------------
\* The cache of the simulated flight: a directory with a lock, the table of the
\* flight and its milestones, each missing, begun or whole

NoCache == [dir |-> FALSE, lock |-> FALSE, csv |-> "none", json |-> "none"]
Complete(c) == c.csv = "whole" /\ c.json = "whole"

LookAtDirectory ==   \* MUTANT: any directory is taken for a cache
    /\ pc = "look"
    /\ Stop(IF ~cache.dir THEN "make" ELSE "load")
    /\ UNCHANGED <<world, cache, player>>

Look ==
    /\ pc = "look"
    /\ Stop(IF ~cache.dir THEN "make" ELSE IF cache.lock THEN "remove" ELSE "load")
    /\ UNCHANGED <<world, cache, player>>

\* rmtree removes the files in the order the directory lists them.
RemoveFiles ==
    /\ pc = "remove"
    /\ \/ cache.lock /\ cache' = [cache EXCEPT !.lock = FALSE]
       \/ cache.csv # "none" /\ cache' = [cache EXCEPT !.csv = "none"]
       \/ cache.json # "none" /\ cache' = [cache EXCEPT !.json = "none"]
       \/ cache = [NoCache EXCEPT !.dir = TRUE] /\ cache' = NoCache
    /\ Stop(IF cache'.dir THEN "remove" ELSE "make")
    /\ UNCHANGED <<world, player>>

MakeDirectory ==
    /\ pc = "make"
    /\ cache' = [cache EXCEPT !.dir = TRUE]
    /\ Stop("lock")
    /\ UNCHANGED <<world, player>>

MakeLock ==
    /\ pc = "lock"
    /\ cache' = [cache EXCEPT !.lock = TRUE]
    /\ Stop("compute")
    /\ UNCHANGED <<world, player>>

\* run_flight returns None once a signal has been seen, and None cannot be
\* exported: the lock stays.
Compute ==
    /\ pc = "compute"
    /\ IF running THEN Stop("export") ELSE Die("no flight")
    /\ cache' = [cache EXCEPT !.csv = "begun"]
    /\ UNCHANGED <<world, player>>

ExportCsv ==
    /\ pc = "export"
    /\ cache' = [cache EXCEPT !.csv = "whole"]
    /\ Stop("note")
    /\ UNCHANGED <<world, player>>

ExportJsonFirst ==   \* MUTANT: the milestones are written before the table
    /\ pc \in {"export", "note"}
    /\ cache' = IF pc = "export" THEN [cache EXCEPT !.json = "whole"]
                                 ELSE [cache EXCEPT !.csv = "whole"]
    /\ Stop(IF pc = "export" THEN "note" ELSE "unlock")
    /\ UNCHANGED <<world, player>>

ExportJson ==
    /\ pc = "note"
    /\ cache' = [cache EXCEPT !.json = IF @ = "begun" THEN "whole" ELSE "begun"]
    /\ Stop(IF cache'.json = "whole" THEN "unlock" ELSE "note")
    /\ UNCHANGED <<world, player>>

Unlock ==
    /\ pc = "unlock"
    /\ cache' = [cache EXCEPT !.lock = FALSE]
    /\ Stop("load")
    /\ UNCHANGED <<world, player>>

\* A table cut short can be read, one without a header cannot; milestones that
\* are missing or cut short cannot.
Load ==
    /\ pc = "load"
    /\ \/ /\ cache.json = "whole" /\ cache.csv # "none"
          /\ Play(SimulationPackets(source.data))
       \/ /\ cache.json # "whole" \/ cache.csv # "whole"
          /\ Die("cache") /\ UNCHANGED player
    /\ UNCHANGED <<world, cache>>

-----------------------------------------------------------------------------
\* replay_engine.replay_packets

Engine == pc = "next" /\ source.mode # "simulator"
Due(p) == origin + p.t
TooSoonAfterAny(p) ==   \* MUTANT: one limit for both packets of the avionics
    p.type \in DOMAIN earliest /\ \E type \in DOMAIN earliest : Due(p) < earliest[type]

TooSoon(p) == p.type \in DOMAIN earliest /\ Due(p) < earliest[p.type]
Advance == next' = next + 1

Skip ==
    /\ Engine /\ running /\ next <= Len(packets)
    /\ TooSoon(packets[next])
    /\ Advance
    /\ UNCHANGED <<world, cache, pc, cause, packets, now, origin, earliest, chunk,
                   remaining, sent>>

\* The limit moves on by a frame from where it was, not from this packet.
Wait ==
    /\ Engine /\ running /\ next <= Len(packets)
    /\ LET p == packets[next]
           wait == Due(p) - now
       IN  /\ ~TooSoon(p)
           /\ earliest' = [type \in DOMAIN earliest |->
                 IF type = p.type THEN earliest[type] + Frame ELSE earliest[type]]
           /\ chunk' = IF wait < Chunk THEN wait ELSE Chunk
           /\ remaining' = wait
    /\ Stop("wait")
    /\ UNCHANGED <<world, cache, packets, next, now, origin, sent>>

\* The last sleep is as long as the others.
Sleep ==
    /\ pc = "wait" /\ remaining > 0
    /\ now' = now + chunk
    /\ remaining' = remaining - chunk
    /\ Stop(IF running THEN "wait" ELSE "stopped")
    /\ UNCHANGED <<world, cache, packets, next, origin, earliest, chunk, sent>>

SendPacket ==
    /\ pc = "wait" /\ remaining <= 0
    /\ IF running THEN Stop("send") /\ now' = now + SendTime
                  ELSE Stop("stopped") /\ UNCHANGED now
    /\ chunk' = 0 /\ remaining' = 0
    /\ UNCHANGED <<world, cache, packets, next, origin, earliest, sent>>

\* What stands in the way of each packet: 16 bit accelerations in units of
\* 1/1024, turn rates in units of 0.00875, a status that only missions have,
\* and the classes of the GSE packets, which the engine does not import.
Capped(rate) == IF rate > 245 THEN 245 ELSE IF rate < -245 THEN -245 ELSE rate

Fits(units) == units \in -32768..32767
Obstacle(p) ==
    CASE p.type = "AV_TO_GCS_DATA_1" ->
            IF ~Fits(p.accel * 1024) THEN "acceleration"
            ELSE IF ~Fits((Capped(p.gyro) * 800) \div 7) THEN "turn rate" ELSE None
      [] p.type = "AV_TO_GCS_DATA_2" -> IF p.nav THEN None ELSE "navigation status"
      [] p.type \in {"GSE_TO_GCS_DATA_1", "GSE_TO_GCS_DATA_2"} -> "undefined name"
      [] OTHER -> None
Unwritten == {"GCS_TO_AV_STATE_CMD", "GSE_TO_GCS_DATA_3", "AV_TO_GCS_DATA_3",
              "GCS_TO_GSE_STATE_CMD"}

Handle ==
    /\ pc = "send"
    /\ LET p == packets[next]
       IN  IF p.type \in Unwritten \/ ~running
           THEN Stop("next") /\ Advance /\ UNCHANGED sent
           ELSE IF Obstacle(p) # None
           THEN Die(Obstacle(p)) /\ UNCHANGED <<next, sent>>
           ELSE /\ Stop("next") /\ Advance
                /\ sent' = Append(sent, [i |-> next, at |-> now])
    /\ UNCHANGED <<world, cache, packets, now, origin, earliest, chunk, remaining>>

\* A replay is over after the last packet; DEMO begins it again unless a signal
\* has been seen.
EndRound ==
    /\ Engine /\ (~running \/ next > Len(packets))
    /\ IF Demo /\ running
       THEN Begin(packets)
       ELSE /\ Stop(IF running THEN "ended" ELSE "stopped")
            /\ UNCHANGED <<next, now, origin, earliest, sent>>
    /\ UNCHANGED <<world, cache, packets, chunk, remaining>>

-----------------------------------------------------------------------------
\* run_simulation.run_emulator: a row is a pair of packets.  The first is sent
\* at once, the others at their time: the end of each wait is spent busily.

SimulatorFits(p) == /\ Fits((p.accel * 204800) \div 981)
                    /\ Fits((p.gyro * 45837) \div 7)   \* 180 / pi / 0.00875

SimulatorWait ==
    /\ pc = "next" /\ source.mode = "simulator" /\ next <= Len(packets)
    /\ now' = IF next > 1 /\ packets[next].t > now THEN packets[next].t ELSE now
    /\ Stop(IF running THEN "row" ELSE "stopped")
    /\ UNCHANGED <<world, cache, packets, next, origin, earliest, chunk, remaining, sent>>

\* A signal seen now drops this row; the next look at the flag ends the program.
SendRow ==
    /\ pc = "row"
    /\ IF ~SimulatorFits(packets[next])
       THEN Die("reading") /\ UNCHANGED <<next, sent>>
       ELSE /\ Stop("next") /\ next' = next + 2
            /\ sent' = IF ~running THEN sent
                       ELSE sent \o <<[i |-> next, at |-> now],
                                     [i |-> next + 1, at |-> now]>>
    /\ UNCHANGED <<world, cache, packets, now, origin, earliest, chunk, remaining>>

SimulatorEnds ==
    /\ pc = "next" /\ source.mode = "simulator" /\ next > Len(packets)
    /\ Stop("ended")
    /\ UNCHANGED <<world, cache, player>>

-----------------------------------------------------------------------------
\* Signals, and a launcher or a user that kills the program and starts it again

Signal ==
    /\ pc \notin Final /\ running
    /\ running' = FALSE
    /\ UNCHANGED <<source, cache, pc, cause, starts, player>>

Kill ==
    /\ pc \notin Final /\ source \in Killed /\ starts < MaxStarts
    /\ Stop("killed")
    /\ UNCHANGED <<world, cache, player>>

Restart ==
    /\ pc \in Final /\ source \in Killed /\ starts < MaxStarts
    /\ starts' = starts + 1 /\ running' = TRUE
    /\ pc' = "start" /\ cause' = None
    /\ packets' = <<>> /\ next' = 1 /\ now' = 0 /\ origin' = 0
    /\ earliest' = Unlimited /\ chunk' = 0 /\ remaining' = 0 /\ sent' = <<>>
    /\ UNCHANGED <<source, cache>>

Init ==
    /\ source \in Sources
    /\ cache = NoCache
    /\ pc = "start" /\ cause = None /\ running = TRUE /\ starts = 1
    /\ packets = <<>> /\ next = 1 /\ now = 0 /\ origin = 0
    /\ earliest = Unlimited /\ chunk = 0 /\ remaining = 0 /\ sent = <<>>

Build   == Look \/ RemoveFiles \/ MakeDirectory \/ MakeLock \/ Compute \/ ExportCsv
             \/ ExportJson \/ Unlock
Engage  == Skip \/ Wait \/ Sleep \/ SendPacket \/ Handle \/ EndRound
Simulate == SimulatorWait \/ SendRow \/ SimulatorEnds
Next == Start \/ Build \/ Load \/ Engage \/ Simulate \/ Signal \/ Kill \/ Restart

\* A program that runs goes on to its next step, which matters for the cache.
Spec == Init /\ [][Next]_vars
FairSpec == Spec /\ WF_vars(Build)

-----------------------------------------------------------------------------
\* Properties

TypeOK ==
    /\ source.mode \in {"mission", "simulation", "simulator"}
    /\ cache \in [dir : BOOLEAN, lock : BOOLEAN, csv : {"none", "begun", "whole"},
                  json : {"none", "begun", "whole"}]
    /\ pc \in Final \cup {"start", "look", "remove", "make", "lock", "compute",
                           "export", "note", "unlock", "load", "next", "wait",
                           "send", "row"}
    /\ cause # None <=> pc = "died"
    /\ running \in BOOLEAN /\ starts \in 1..MaxStarts
    /\ next \in 1..Len(packets) + 1
    /\ now \in Nat /\ origin \in Int /\ chunk \in Int /\ remaining \in Int
    /\ \A k \in DOMAIN sent : sent[k].i \in DOMAIN packets /\ sent[k].at <= now

\* The limiter of replay_packets: of each type of avionics packet the first is
\* played, then every packet that comes when as many frames have passed as
\* were played, whatever packets of the other type lie in between.
SentOf(type, last) ==
    {k \in DOMAIN sent : sent[k].i <= last /\ packets[sent[k].i].type = type}
EachTypeHasItsFrames ==
    source.mode # "simulator" /\ running =>
        \A i \in 1..next - 1 :
            packets[i].type \in DOMAIN earliest =>
                (\E k \in DOMAIN sent : sent[k].i = i) <=>
                    (packets[i].t >= Frame * Cardinality(SentOf(packets[i].type, i - 1)))

\* No packet is played before its time.  The simulator plays each at its time;
\* the engine, which sleeps in whole chunks, is late by less than one, beyond
\* what it still lags from the packet before.
Later(a, b) == IF a > b THEN a ELSE b
PlayedOnTime ==
    \A k \in DOMAIN sent :
        LET p == packets[sent[k].i]
            passed == IF k = 1 THEN sent[k].i ELSE sent[k].i - sent[k - 1].i
            lag == IF k = 1 THEN 0 ELSE sent[k - 1].at
        IN  IF source.mode = "simulator" THEN sent[k].at = p.t
            ELSE /\ sent[k].at >= Due(p) + SendTime
                 /\ sent[k].at <= Later(Due(p) + Chunk - 1, lag) + passed * SendTime

\* What is played is a flight at its own pace: for each type the rate of the
\* limiter, for each packet its time.
PlayedAsPaced == TypeOK /\ EachTypeHasItsFrames /\ PlayedOnTime

\* The lock and the order of the writes keep a flight that was not written to
\* its end from being played, wherever the program was killed.
NeverPlaysHalf == IsSimulated /\ packets # <<>> => Complete(cache)

\* What a killed process left is removed and computed again.
HalfIsRebuilt ==
    (pc = "look" /\ cache.lock) ~> (Complete(cache) \/ pc = "killed" \/ ~running)

\* After a signal nothing is written, and the sleep in progress is the last.
StopIsPrompt ==
    [][~running /\ ~running' =>
          sent' = sent /\ (now' # now => pc' \in {"stopped", "row"})]_vars
=============================================================================
