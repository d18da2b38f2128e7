--------------------------- MODULE Services_proofs ---------------------------
(***************************************************************************)
(* Proofs about the services of the ground station.  EventViewer: types,   *)
(* every session has a folder of its own, the console is current after     *)
(* every packet that is handled, and no completed test goes unnoticed.     *)
(* Launcher: nothing runs before what it relies on is up, and no process   *)
(* is left behind.  FrontendApi: the tasks of a session come and go        *)
(* together, no stale packet is sent, and the rows of LabVIEW go forward.  *)
(***************************************************************************)
EXTENDS EventViewer, Launcher, FrontendApi, FiniteSetTheorems,
        SequenceTheorems, WellFoundedInduction, TLAPS

-----------------------------------------------------------------------------
\* Types.

StartTypes ==
    /\ scenario \in Scenarios
    /\ stage \in [Viewers -> {"looking", "making", "listening", "failed"}]
    /\ folder \in [Viewers -> 0..MaxFolder]
    /\ folders \subseteq 0..MaxFolder

SeenReports ==
    {None} \cup GroundReports
    \cup [flight : FlightStates, flags : SUBSET AvFlags, speed : Speeds,
          complete : SUBSET Tests, results : SUBSET Tests, broadcast : BOOLEAN]

Memories ==
    [flight : FlightStates \cup {None}, flags : [AvFlags -> Maybe],
     complete : [Tests -> Maybe], results : [Tests -> Maybe],
     awaiting : [Tests -> BOOLEAN], timeout : {Fast, Slow},
     supersonic : BOOLEAN, max : Speeds, newMax : BOOLEAN, broadcast : BOOLEAN]

GseMemories == [flags : [GseFlags -> Maybe], errors : [GseErrors -> Maybe]]

ServiceTypes ==
    /\ age \in [Displays(scenario) -> Ages]
    /\ DOMAIN console = Watched(scenario)
    /\ failures \in 0..MaxFailures

LEMMA TypeParts ==
    TypeOK <=> /\ StartTypes /\ seen \in SeenReports /\ av \in Memories
               /\ gse \in GseMemories /\ ServiceTypes
  BY Zenon
     DEF TypeOK, StartTypes, SeenReports, Memories, GseMemories, ServiceTypes

LEMMA TypeInit == Init => TypeOK
<1> SUFFICES ASSUME Init PROVE TypeOK
  OBVIOUS
<1>1. StartTypes
  BY BoundsAssumption DEF Init, StartTypes
<1>2. seen \in SeenReports
  BY Zenon DEF Init, SeenReports
<1>3. av \in Memories
  BY SpeedsAssumption DEF Init, NoMemory, Memories, Maybe
<1>4. gse \in GseMemories
  BY DEF Init, NoGseMemory, GseMemories, Maybe
<1>5. ServiceTypes
  BY BoundsAssumption DEF Init, ServiceTypes, Ages, Slow
<1> QED
  BY <1>1, <1>2, <1>3, <1>4, <1>5, TypeParts, Zenon

LEMMA StartStep ==
    ASSUME TypeOK, NEW v \in Viewers, LookForFolder(v) \/ MakeFolder(v)
    PROVE  TypeOK'
<1>1. UNCHANGED <<scenario, seen, av, gse, age, console, failures>>
  BY Zenon DEF LookForFolder, MakeFolder
<1>2. StartTypes'
  <2>1. CASE LookForFolder(v)
    BY <2>1, TypeParts, BoundsAssumption DEF LookForFolder, StartTypes
  <2>2. CASE MakeFolder(v)
    BY <2>2, TypeParts, BoundsAssumption DEF MakeFolder, StartTypes
  <2> QED
    BY <2>1, <2>2
<1> QED
  BY <1>1, <1>2 DEF TypeOK, StartTypes, Displays, Watched

\* What the reports become in a memory.
LEMMA Bits ==
    ASSUME NEW S, NEW T
    PROVE  [x \in S |-> x \in T] \in [S -> Maybe]
<1>1. \A x \in S : (x \in T) \in Maybe
  BY DEF Maybe
<1> QED
  BY <1>1

LEMMA HandleAv1Typed ==
    ASSUME TypeOK, NEW report \in RocketReports, HandleAv1(report)
    PROVE  TypeOK'
<1>1. scenario = "av" /\ UNCHANGED <<scenario, startup, gse, failures>>
  BY Zenon DEF HandleAv1
<1>2. PICK flag \in BroadcastFlag(report) :
        /\ av' = [RememberTests(report) EXCEPT
                    !.flight = report.flight,
                    !.flags = [f \in AvFlags |-> f \in report.flags],
                    !.supersonic = Supersonic(report.speed),
                    !.max = IF report.speed > @ THEN report.speed ELSE @,
                    !.newMax = PendingMax(report.speed) /\ age["AV1"] <= av.timeout,
                    !.broadcast = flag,
                    !.timeout = IF flag THEN Fast ELSE @]
        /\ console' = TellAv(report, flag)
        /\ seen' = [report EXCEPT !.broadcast = flag]
  BY Zenon DEF HandleAv1
<1>3. flag \in BOOLEAN
  BY <1>2 DEF BroadcastFlag
<1>4. seen' \in SeenReports
  <2>1. [report EXCEPT !.broadcast = flag] \in
          [flight : FlightStates, flags : SUBSET AvFlags, speed : Speeds,
           complete : SUBSET Tests, results : SUBSET Tests, broadcast : BOOLEAN]
    BY <1>3 DEF RocketReports
  <2> QED
    BY <1>2, <2>1, Zenon DEF SeenReports
<1> DEFINE k == RememberTests(report)
           flags == [f \in AvFlags |-> f \in report.flags]
           complete == [t \in Tests |-> t \in report.complete]
           results == [t \in Tests |-> t \in report.results]
           awaiting == [t \in Tests |->
                          ~(av.awaiting[t] /\ av.complete[t] # (t \in report.complete))]
           supersonic == Supersonic(report.speed)
           newMax == PendingMax(report.speed) /\ age["AV1"] <= av.timeout
           max == IF report.speed > k.max THEN report.speed ELSE k.max
           timeout == IF flag THEN Fast ELSE k.timeout
<1>5. /\ flags \in [AvFlags -> Maybe] /\ complete \in [Tests -> Maybe]
      /\ results \in [Tests -> Maybe] /\ awaiting \in [Tests -> BOOLEAN]
  BY Bits, Zenon
<1>6. k = [av EXCEPT !.complete = complete, !.results = results, !.awaiting = awaiting]
  BY Zenon DEF RememberTests
<1>7. av \in Memories
  BY TypeParts, Zenon
<1>8. k.max \in Speeds /\ k.timeout \in {Fast, Slow}
  <2> HIDE DEF complete, results, awaiting, k
  <2> QED
    BY <1>6, <1>7 DEF Memories
<1>9. report.flight \in FlightStates /\ report.speed \in Speeds
  BY DEF RocketReports
<1>10. max \in Speeds /\ timeout \in {Fast, Slow}
  BY <1>8, <1>9, Zenon
<1>11. supersonic \in BOOLEAN /\ newMax \in BOOLEAN
  <2>1. supersonic \in BOOLEAN
    BY <1>9, SpeedsAssumption DEF Supersonic
  <2>2. newMax \in BOOLEAN
    BY Zenon
  <2> QED
    BY <2>1, <2>2
<1>12. av' = [[av EXCEPT !.complete = complete, !.results = results,
                      !.awaiting = awaiting]
               EXCEPT !.flight = report.flight, !.flags = flags,
                      !.supersonic = supersonic, !.max = max,
                      !.newMax = newMax, !.broadcast = flag,
                      !.timeout = timeout]
  BY <1>2, <1>6, Zenon
<1> HIDE DEF k, flags, complete, results, awaiting, supersonic, newMax, max, timeout
<1>13. av' \in Memories
  BY <1>3, <1>5, <1>7, <1>9, <1>10, <1>11, <1>12, ZenonT(60) DEF Memories
<1>14. ServiceTypes'
  <2>1. DOMAIN console' = DOMAIN console
    BY <1>2, Zenon DEF TellAv
  <2>2. age \in [{"AV1"} -> Ages]
    BY <1>1, TypeParts DEF ServiceTypes, Displays
  <2>3. \E late : age' = [age EXCEPT !["AV1"] = IF @ > late THEN 0 ELSE @]
    BY Zenon DEF HandleAv1, Display
  <2>4. age' \in [{"AV1"} -> Ages]
    BY <2>2, <2>3 DEF Ages, Slow
  <2> QED
    BY <1>1, <2>1, <2>4, TypeParts DEF ServiceTypes, Displays, Watched
<1>15. StartTypes' /\ (gse \in GseMemories)'
  BY <1>1, TypeParts DEF startup, StartTypes
<1> QED
  BY <1>4, <1>13, <1>14, <1>15 DEF TypeOK, StartTypes, SeenReports, Memories,
     GseMemories, ServiceTypes

LEMMA HandleGseTyped ==
    ASSUME TypeOK, NEW kind \in {"GSE1", "GSE2"}, NEW report \in GroundReports,
           HandleGse(kind, report)
    PROVE  TypeOK'
<1>1. scenario = "gse" /\ seen' = report
      /\ UNCHANGED <<scenario, startup, av, failures>>
  BY Zenon DEF HandleGse
<1> DEFINE errors == ErrorFlags(kind, report)
<1>2. /\ gse' = [flags  |-> [f \in GseFlags |-> f \in report.flags],
                 errors |-> [e \in GseErrors |-> e \in errors]]
      /\ console' = TellGse(report, errors)
  BY Zenon DEF HandleGse, RememberGse
<1> HIDE DEF errors
<1>3. gse' \in GseMemories
  <2>1. /\ [f \in GseFlags |-> f \in report.flags] \in [GseFlags -> Maybe]
        /\ [e \in GseErrors |-> e \in errors] \in [GseErrors -> Maybe]
    BY Bits, Zenon
  <2> QED
    BY <1>2, <2>1 DEF GseMemories
<1>4. ServiceTypes'
  <2>1. DOMAIN console' = DOMAIN console
    BY <1>2, Zenon DEF TellGse
  <2>2. age \in [{"GSE1", "GSE2"} -> Ages]
    BY <1>1, TypeParts DEF ServiceTypes, Displays
  <2>3. age' \in [{"GSE1", "GSE2"} -> Ages]
    BY <2>2 DEF HandleGse, Display, Ages, Slow
  <2> QED
    BY <1>1, <2>1, <2>3, TypeParts DEF ServiceTypes, Displays, Watched
<1>5. seen' \in SeenReports
  BY <1>1, Zenon DEF SeenReports
<1>6. StartTypes' /\ (av \in Memories)'
  BY <1>1, TypeParts DEF startup, StartTypes
<1> QED
  BY <1>3, <1>4, <1>5, <1>6 DEF TypeOK, StartTypes, SeenReports, Memories,
     GseMemories, ServiceTypes

LEMMA RestTyped ==
    ASSUME TypeOK, UNCHANGED <<scenario, startup, seen, av, gse, console>>,
           age' \in [Displays(scenario) -> Ages], failures' \in 0..MaxFailures
    PROVE  TypeOK'
  BY DEF TypeOK, startup, Displays, Watched

LEMMA TickTyped ==
    ASSUME TypeOK, Tick
    PROVE  age' \in [Displays(scenario) -> Ages]
<1>1. age \in [Displays(scenario) -> Ages]
  BY TypeParts, Zenon DEF ServiceTypes
<1>2. age' = [k \in DOMAIN age |-> IF age[k] <= Slow THEN age[k] + 1 ELSE age[k]]
  BY Zenon DEF Tick
<1>3. ASSUME NEW a \in Ages
      PROVE  (IF a <= Slow THEN a + 1 ELSE a) \in Ages
  BY DEF Ages, Slow
<1> QED
  BY <1>1, <1>2, <1>3

LEMMA TypeStep == TypeOK /\ [Next]_vars => TypeOK'
<1> SUFFICES ASSUME TypeOK, [Next]_vars PROVE TypeOK'
  OBVIOUS
<1>1. age \in [Displays(scenario) -> Ages] /\ failures \in 0..MaxFailures
  BY TypeParts, Zenon DEF ServiceTypes
<1>2. \A v \in Viewers : LookForFolder(v) \/ MakeFolder(v) => TypeOK'
  BY StartStep
<1>3. \A report \in RocketReports : HandleAv1(report) => TypeOK'
  BY HandleAv1Typed
<1>4. ASSUME LoseRow, UNCHANGED av
      PROVE  TypeOK'
  <2>1. failures' \in 0..MaxFailures
    BY <1>1, <1>4, BoundsAssumption DEF LoseRow
  <2> QED
    BY <1>1, <1>4, <2>1, RestTyped, Zenon DEF LoseRow
<1>5. \A kind \in {"AV2", "AV3"} : HandleAv2(kind) => TypeOK'
  BY <1>1, RestTyped, Zenon DEF HandleAv2
<1>6. \A report \in GroundReports, kind \in {"GSE1", "GSE2"} :
         HandleGse(kind, report) => TypeOK'
  BY HandleGseTyped
<1>7. Tick => TypeOK'
  BY <1>1, TickTyped, RestTyped, Zenon DEF Tick
<1>8. UNCHANGED vars => TypeOK'
  BY <1>1, RestTyped, Zenon DEF vars, startup
<1> QED
  BY <1>2, <1>3, <1>4, <1>5, <1>6, <1>7, <1>8, Zenon DEF Next, LoseAv1, LoseGse

\* Every variable keeps its type, what the handlers remember included.
THEOREM TypeCorrect == Spec => []TypeOK
  BY TypeInit, TypeStep, PTL DEF Spec

-----------------------------------------------------------------------------
\* Session folders: a viewer that listens has made the folder it listens in.

FolderInv ==
    /\ scenario \in Scenarios
    /\ stage \in [Viewers -> {"looking", "making", "listening", "failed"}]
    /\ folder \in [Viewers -> Int]
    /\ scenario # "start" => \A v \in Viewers : stage[v] = "listening"
    /\ scenario = "start" =>
          \A v \in Viewers : stage[v] = "listening" => folder[v] \in folders
    /\ SessionsHaveOwnFolder

LEMMA FolderInit == Init => FolderInv
  BY DEF Init, FolderInv, SessionsHaveOwnFolder

LEMMA FolderStep == FolderInv /\ [Next]_vars => FolderInv'
<1> SUFFICES ASSUME FolderInv, [Next]_vars PROVE FolderInv'
  OBVIOUS
<1>1. ASSUME NEW v \in Viewers, LookForFolder(v)
      PROVE  FolderInv'
  <2>1. scenario = "start"
    BY <1>1 DEF FolderInv, LookForFolder
  <2>2. stage' \in [Viewers -> {"looking", "making", "listening", "failed"}]
        /\ folder' \in [Viewers -> Int]
    BY <1>1 DEF FolderInv, LookForFolder
  <2>3. \A w \in Viewers : stage'[w] = "listening" =>
            stage[w] = "listening" /\ folder'[w] = folder[w]
    BY <1>1 DEF FolderInv, LookForFolder
  <2> QED
    BY <1>1, <2>1, <2>2, <2>3 DEF FolderInv, LookForFolder, SessionsHaveOwnFolder
<1>2. ASSUME NEW v \in Viewers, MakeFolder(v)
      PROVE  FolderInv'
  <2>1. scenario = "start"
    BY <1>2 DEF FolderInv, MakeFolder
  <2>2. stage' \in [Viewers -> {"looking", "making", "listening", "failed"}]
    BY <1>2 DEF FolderInv, MakeFolder
  <2>3. \A w \in Viewers : stage'[w] = "listening" =>
            stage[w] = "listening" \/ (w = v /\ folder[v] \notin folders)
    BY <1>2 DEF FolderInv, MakeFolder
  <2> QED
    BY <1>2, <2>1, <2>2, <2>3 DEF FolderInv, MakeFolder, SessionsHaveOwnFolder
<1>3. ASSUME UNCHANGED <<scenario, startup>>
      PROVE  FolderInv'
  BY <1>3 DEF FolderInv, SessionsHaveOwnFolder, startup
<1>4. \A report \in RocketReports : HandleAv1(report) => FolderInv'
  BY <1>3, Zenon DEF HandleAv1
<1>5. \A report \in RocketReports : LoseAv1(report) => FolderInv'
  BY <1>3, Zenon DEF LoseAv1, LoseRow
<1>6. \A kind \in {"AV2", "AV3"} : HandleAv2(kind) => FolderInv'
  BY <1>3, Zenon DEF HandleAv2
<1>7. \A report \in GroundReports, kind \in {"GSE1", "GSE2"} :
         HandleGse(kind, report) => FolderInv'
  BY <1>3, Zenon DEF HandleGse
<1>8. LoseGse \/ Tick => FolderInv'
  BY <1>3, Zenon DEF LoseGse, LoseRow, Tick
<1>9. UNCHANGED vars => FolderInv'
  BY <1>3 DEF vars, startup
<1> QED
  BY <1>1, <1>2, <1>4, <1>5, <1>6, <1>7, <1>8, <1>9, Zenon DEF Next

\* However many viewers are started at once, no two write into one folder.
THEOREM OwnFolders == Spec => []SessionsHaveOwnFolder
<1>1. FolderInv => SessionsHaveOwnFolder
  BY DEF FolderInv
<1> QED
  BY <1>1, FolderInit, FolderStep, PTL DEF Spec

-----------------------------------------------------------------------------
\* The console: what it said last of an item is what the handler remembers of
\* it, and what is remembered is what the last packet handled reported.

AvFields  == {"flight", "flags", "supersonic", "broadcast"}
GseFields == {"flags", "errors"}

ItemsKnown ==
    /\ scenario \in Scenarios
    /\ AvFields \subseteq DOMAIN av
    /\ DOMAIN console = Watched(scenario)

AvRemembered ==
    scenario = "av" =>
        /\ console["flight"] = av.flight
        /\ console["supersonic"] = av.supersonic
        /\ console["broadcast"] = av.broadcast
        /\ \A f \in AvFlags : console[f] = av.flags[f]
        /\ seen # None =>
              /\ av.flight = seen.flight
              /\ av.supersonic = Supersonic(seen.speed)
              /\ av.broadcast = seen.broadcast
              /\ \A f \in AvFlags : av.flags[f] = (f \in seen.flags)

GseRemembered ==
    scenario = "gse" =>
        /\ console["ignition_error"] = gse.errors["ignition_error"]
        /\ \A f \in GseFlags : console[f] = gse.flags[f]
        /\ seen # None =>
              /\ gse.errors["ignition_error"] = ("ignition_error" \in seen.errors)
              /\ \A f \in GseFlags : gse.flags[f] = (f \in seen.flags)

ConsoleInv == ItemsKnown /\ AvRemembered /\ GseRemembered

\* What is remembered being what was said, the console ends with the value.
LEMMA Told ==
    ASSUME NEW item, NEW remembered, NEW value,
           console[item] = remembered[item]
    PROVE  Tell(item, remembered, value) = value
  BY Zenon DEF Tell

\* The assignments of HandleAv1 with the values left open.
LEMMA MemoryUpdated ==
    ASSUME NEW m, AvFields \subseteq DOMAIN m,
           NEW flight, NEW flags, NEW supersonic, NEW max, NEW newMax,
           NEW broadcast, NEW timeout
    PROVE  \A n :
             n = [m EXCEPT !.flight = flight, !.flags = flags,
                           !.supersonic = supersonic, !.max = max,
                           !.newMax = newMax, !.broadcast = broadcast,
                           !.timeout = timeout]
             => /\ AvFields \subseteq DOMAIN n
                /\ n.flight = flight /\ n.flags = flags
                /\ n.supersonic = supersonic /\ n.broadcast = broadcast
  BY DEF AvFields

LEMMA TestsKeepFields ==
    ASSUME NEW report
    PROVE  DOMAIN RememberTests(report) = DOMAIN av
  BY Zenon DEF RememberTests

\* What the handler of AV_TO_GCS_DATA_1 remembers.
LEMMA HandleAv1Effect ==
    ASSUME ItemsKnown, NEW report \in RocketReports, HandleAv1(report)
    PROVE  \E flag :
              /\ AvFields \subseteq DOMAIN av'
              /\ av'.flight = report.flight
              /\ av'.flags = [f \in AvFlags |-> f \in report.flags]
              /\ av'.supersonic = Supersonic(report.speed)
              /\ av'.broadcast = flag
              /\ console' = TellAv(report, flag)
              /\ seen' = [report EXCEPT !.broadcast = flag]
<1>1. PICK flag \in BroadcastFlag(report) :
        /\ av' = [RememberTests(report) EXCEPT
                    !.flight = report.flight,
                    !.flags = [f \in AvFlags |-> f \in report.flags],
                    !.supersonic = Supersonic(report.speed),
                    !.max = IF report.speed > @ THEN report.speed ELSE @,
                    !.newMax = PendingMax(report.speed) /\ age["AV1"] <= av.timeout,
                    !.broadcast = flag,
                    !.timeout = IF flag THEN Fast ELSE @]
        /\ console' = TellAv(report, flag)
        /\ seen' = [report EXCEPT !.broadcast = flag]
  BY Zenon DEF HandleAv1
<1> DEFINE k == RememberTests(report)
           flags == [f \in AvFlags |-> f \in report.flags]
           supersonic == Supersonic(report.speed)
           newMax == PendingMax(report.speed) /\ age["AV1"] <= av.timeout
           max == IF report.speed > k.max THEN report.speed ELSE k.max
           timeout == IF flag THEN Fast ELSE k.timeout
<1>2. av' = [k EXCEPT !.flight = report.flight, !.flags = flags,
                      !.supersonic = supersonic, !.max = max,
                      !.newMax = newMax, !.broadcast = flag,
                      !.timeout = timeout]
  BY <1>1, Zenon
<1>3. AvFields \subseteq DOMAIN k
  BY TestsKeepFields, Zenon DEF ItemsKnown
<1> HIDE DEF k, flags, supersonic, newMax, max, timeout
<1>4. /\ AvFields \subseteq DOMAIN av'
      /\ av'.flight = report.flight /\ av'.flags = flags
      /\ av'.supersonic = supersonic /\ av'.broadcast = flag
  BY <1>2, <1>3 DEF AvFields
<1> QED
  BY <1>1, <1>4, Zenon DEF flags, supersonic

\* What it says.
LEMMA HandleAv1Remembered ==
    ASSUME ConsoleInv, NEW report \in RocketReports, HandleAv1(report)
    PROVE  ConsoleInv'
<1>1. scenario = "av" /\ scenario' = "av"
  BY Zenon DEF HandleAv1
<1>2. PICK flag :
        /\ AvFields \subseteq DOMAIN av'
        /\ av'.flight = report.flight
        /\ av'.flags = [f \in AvFlags |-> f \in report.flags]
        /\ av'.supersonic = Supersonic(report.speed)
        /\ av'.broadcast = flag
        /\ console' = TellAv(report, flag)
        /\ seen' = [report EXCEPT !.broadcast = flag]
  BY HandleAv1Effect, Zenon DEF ConsoleInv
<1>3. DOMAIN console = {"flight", "supersonic", "broadcast"} \cup AvFlags
  BY <1>1, Zenon DEF ConsoleInv, ItemsKnown, Watched
<1>4. DOMAIN console' = DOMAIN console
  BY <1>2, Zenon DEF TellAv
<1>5. ItemsKnown'
  BY <1>1, <1>2, <1>3, <1>4 DEF ItemsKnown, Watched, Scenarios
<1>6. /\ Tell("flight", av, report.flight) = report.flight
      /\ Tell("supersonic", av, Supersonic(report.speed)) = Supersonic(report.speed)
      /\ Tell("broadcast", av, flag) = flag
  BY <1>1, Told, Zenon DEF ConsoleInv, AvRemembered
<1>7. ASSUME NEW f \in AvFlags
      PROVE  Tell(f, av.flags, f \in report.flags) = (f \in report.flags)
  <2>1. console[f] = av.flags[f]
    BY <1>1, Zenon DEF ConsoleInv, AvRemembered
  <2> QED
    BY <2>1, Told, Zenon
<1>8. /\ console'["flight"] = report.flight
      /\ console'["supersonic"] = Supersonic(report.speed)
      /\ console'["broadcast"] = flag
  <2> DEFINE flight(i) == Tell(i, av, report.flight)
             supersonic(i) == Tell(i, av, Supersonic(report.speed))
             broadcast(i) == Tell(i, av, flag)
             other(i)  == Tell(i, av.flags, i \in report.flags)
  <2>1. \A i \in DOMAIN console :
           console'[i] = CASE i = "flight"     -> flight(i)
                           [] i = "supersonic" -> supersonic(i)
                           [] i = "broadcast"  -> broadcast(i)
                           [] i \in AvFlags    -> other(i)
    BY <1>2, Zenon DEF TellAv
  <2> HIDE DEF flight, supersonic, broadcast, other
  <2>2. /\ console'["flight"] = flight("flight")
        /\ console'["supersonic"] = supersonic("supersonic")
        /\ console'["broadcast"] = broadcast("broadcast")
    BY <2>1, <1>3, NamesAssumption
  <2> QED
    BY <1>6, <2>2, Zenon DEF flight, supersonic, broadcast
<1>9. ASSUME NEW f \in AvFlags
      PROVE  console'[f] = (f \in report.flags)
  <2>1. f \notin {"flight", "supersonic", "broadcast"}
    BY NamesAssumption
  <2>2. console'[f] = Tell(f, av.flags, f \in report.flags)
    BY <1>2, <1>3, <2>1, Zenon DEF TellAv
  <2> QED
    BY <1>7, <2>2, Zenon
<1>10. /\ seen'.flight = report.flight /\ seen'.speed = report.speed
       /\ seen'.flags = report.flags /\ seen'.broadcast = flag
  BY <1>2 DEF RocketReports
<1>11. \A f \in AvFlags : av'.flags[f] = (f \in report.flags)
  BY <1>2, Zenon
<1>12. AvRemembered'
  BY <1>2, <1>8, <1>9, <1>10, <1>11, Zenon DEF AvRemembered
<1>13. GseRemembered'
  BY <1>1 DEF GseRemembered
<1> QED
  BY <1>5, <1>12, <1>13, Zenon DEF ConsoleInv

\* The exchange of the load cells leaves the ignition error alone.
LEMMA IgnitionErrorKept ==
    ASSUME NEW kind, NEW report \in GroundReports
    PROVE  ("ignition_error" \in ErrorFlags(kind, report))
              = ("ignition_error" \in report.errors)
<1>1. \A e \in report.errors : Exchanged(e) = "ignition_error" <=> e = "ignition_error"
  BY DEF Exchanged
<1>2. CASE kind = "GSE1"
  <2>1. ErrorFlags(kind, report) = {Exchanged(e) : e \in report.errors}
    BY <1>2, Zenon DEF ErrorFlags
  <2>2. "ignition_error" \in {Exchanged(e) : e \in report.errors}
           <=> "ignition_error" \in report.errors
    BY <1>1
  <2>3. ("ignition_error" \in {Exchanged(e) : e \in report.errors})
           = ("ignition_error" \in report.errors)
    BY <2>2
  <2> QED
    BY <2>1, <2>3, Zenon
<1>3. CASE kind # "GSE1"
  BY <1>3, Zenon DEF ErrorFlags
<1> QED
  BY <1>2, <1>3, Zenon

LEMMA HandleGseRemembered ==
    ASSUME ConsoleInv, NEW report \in GroundReports, NEW kind,
           HandleGse(kind, report)
    PROVE  ConsoleInv'
<1>1. scenario = "gse" /\ scenario' = "gse" /\ av' = av /\ seen' = report
  BY Zenon DEF HandleGse
<1> DEFINE errors == ErrorFlags(kind, report)
<1>2. /\ gse' = [flags  |-> [f \in GseFlags |-> f \in report.flags],
                 errors |-> [e \in GseErrors |-> e \in errors]]
      /\ console' = TellGse(report, errors)
  BY Zenon DEF HandleGse, RememberGse
<1>3. ("ignition_error" \in errors) = ("ignition_error" \in report.errors)
  BY IgnitionErrorKept, Zenon
<1> HIDE DEF errors
<1>4. DOMAIN console = GseFlags \cup GseErrors
  BY <1>1 DEF ConsoleInv, ItemsKnown, Watched
<1>5. DOMAIN console' = DOMAIN console
  BY <1>2, Zenon DEF TellGse
<1>6. ItemsKnown'
  BY <1>1, <1>5, Zenon DEF ConsoleInv, ItemsKnown
<1>7. "ignition_error" \in GseErrors /\ "ignition_error" \notin GseFlags
  BY NamesAssumption DEF GseErrors
<1>8. console'["ignition_error"] = ("ignition_error" \in errors)
  <2>1. console'["ignition_error"]
          = Tell("ignition_error", gse.errors, "ignition_error" \in errors)
    BY <1>2, <1>4, <1>7, Zenon DEF TellGse
  <2>2. console["ignition_error"] = gse.errors["ignition_error"]
    BY <1>1, Zenon DEF ConsoleInv, GseRemembered
  <2> QED
    BY <2>1, <2>2, Told, Zenon
<1>9. ASSUME NEW f \in GseFlags
      PROVE  console'[f] = (f \in report.flags)
  <2>1. console'[f] = Tell(f, gse.flags, f \in report.flags)
    BY <1>2, <1>4, Zenon DEF TellGse
  <2>2. console[f] = gse.flags[f]
    BY <1>1, Zenon DEF ConsoleInv, GseRemembered
  <2> QED
    BY <2>1, <2>2, Told, Zenon
<1>10. /\ gse'.errors["ignition_error"] = ("ignition_error" \in errors)
       /\ \A f \in GseFlags : gse'.flags[f] = (f \in report.flags)
  <2>1. /\ gse'.flags = [f \in GseFlags |-> f \in report.flags]
        /\ gse'.errors = [e \in GseErrors |-> e \in errors]
    BY <1>2, Zenon
  <2> QED
    BY <1>7, <2>1, Zenon
<1>11. GseRemembered'
  BY <1>1, <1>3, <1>8, <1>9, <1>10, Zenon DEF GseRemembered
<1>12. AvRemembered'
  BY <1>1 DEF AvRemembered
<1> QED
  BY <1>6, <1>11, <1>12, Zenon DEF ConsoleInv

\* Every other step keeps what was said, remembered and seen.
LEMMA RestRemembered ==
    ASSUME ConsoleInv, UNCHANGED <<scenario, seen, av, gse, console>>
    PROVE  ConsoleInv'
  BY DEF ConsoleInv, ItemsKnown, AvRemembered, GseRemembered, Watched

LEMMA ConsoleInit == Init => ConsoleInv
<1> SUFFICES ASSUME Init PROVE ConsoleInv
  OBVIOUS
<1>1. ItemsKnown
  BY DEF Init, ItemsKnown, AvFields, NoMemory
<1>2. AvRemembered
  BY NamesAssumption DEF Init, AvRemembered, NoMemory, Watched
<1>3. GseRemembered
  BY NamesAssumption DEF Init, GseRemembered, NoGseMemory, Watched, GseErrors
<1> QED
  BY <1>1, <1>2, <1>3, Zenon DEF ConsoleInv

LEMMA ConsoleStep == ConsoleInv /\ [Next]_vars => ConsoleInv'
<1> SUFFICES ASSUME ConsoleInv, [Next]_vars PROVE ConsoleInv'
  OBVIOUS
<1>1. \A v \in Viewers : LookForFolder(v) \/ MakeFolder(v) => ConsoleInv'
  BY RestRemembered, Zenon DEF LookForFolder, MakeFolder
<1>2. \A report \in RocketReports : HandleAv1(report) => ConsoleInv'
  BY HandleAv1Remembered, Zenon
<1>3. \A report \in RocketReports : LoseAv1(report) => ConsoleInv'
  BY RestRemembered, Zenon DEF LoseAv1, LoseRow
<1>4. \A kind \in {"AV2", "AV3"} : HandleAv2(kind) => ConsoleInv'
  BY RestRemembered, Zenon DEF HandleAv2
<1>5. \A report \in GroundReports, kind \in {"GSE1", "GSE2"} :
         HandleGse(kind, report) => ConsoleInv'
  BY HandleGseRemembered, Zenon
<1>6. LoseGse \/ Tick => ConsoleInv'
  BY RestRemembered, Zenon DEF LoseGse, LoseRow, Tick
<1>7. UNCHANGED vars => ConsoleInv'
  BY RestRemembered, Zenon DEF vars
<1> QED
  BY <1>1, <1>2, <1>3, <1>4, <1>5, <1>6, <1>7, Zenon DEF Next

\* After every packet handled, the console's last word is what it reported.
THEOREM ConsoleTold == Spec => []ConsoleIsCurrent
<1>1. ConsoleInv => ConsoleIsCurrent
  <2> SUFFICES ASSUME ConsoleInv, seen # None, NEW i \in DOMAIN console
               PROVE  console[i] = CASE i = "flight"     -> seen.flight
                                     [] i = "broadcast"  -> seen.broadcast
                                     [] i = "supersonic" -> Supersonic(seen.speed)
                                     [] i \in LoadCells  -> console[i]
                                     [] i = "ignition_error" -> i \in seen.errors
                                     [] OTHER            -> i \in seen.flags
    BY Zenon DEF ConsoleIsCurrent
  <2>1. CASE scenario = "start"
    BY <2>1 DEF ConsoleInv, ItemsKnown, Watched
  <2>2. CASE scenario = "av"
    <3>1. i \in {"flight", "supersonic", "broadcast"} \/ i \in AvFlags
      BY <2>2 DEF ConsoleInv, ItemsKnown, Watched
    <3>2. CASE i \in {"flight", "supersonic", "broadcast"}
      BY <2>2, <3>2 DEF ConsoleInv, AvRemembered
    <3>3. CASE i \in AvFlags
      <4>1. i \notin LoadCells /\ i \notin {"flight", "supersonic", "broadcast",
                                            "ignition_error"}
        BY <3>3, NamesAssumption DEF GseErrors
      <4>2. console[i] = (i \in seen.flags)
        BY <2>2, <3>3, Zenon DEF ConsoleInv, AvRemembered
      <4> QED
        BY <4>1, <4>2, Zenon
    <3> QED
      BY <3>1, <3>2, <3>3
  <2>3. CASE scenario = "gse"
    <3>1. i \in GseFlags \/ i \in LoadCells \/ i = "ignition_error"
      BY <2>3 DEF ConsoleInv, ItemsKnown, Watched, GseErrors
    <3>2. CASE i \in LoadCells
      BY <3>2 DEF LoadCells
    <3>3. CASE i = "ignition_error"
      <4>1. i \notin LoadCells /\ i \notin {"flight", "supersonic", "broadcast"}
        BY <3>3 DEF LoadCells
      <4>2. console[i] = (i \in seen.errors)
        BY <2>3, <3>3, Zenon DEF ConsoleInv, GseRemembered
      <4> QED
        BY <3>3, <4>1, <4>2, Zenon
    <3>4. CASE i \in GseFlags
      <4>1. i \notin LoadCells /\ i \notin {"flight", "supersonic", "broadcast",
                                            "ignition_error"}
        BY <3>4, NamesAssumption DEF GseErrors
      <4>2. console[i] = (i \in seen.flags)
        BY <2>3, <3>4, Zenon DEF ConsoleInv, GseRemembered
      <4> QED
        BY <4>1, <4>2, Zenon
    <3> QED
      BY <3>1, <3>2, <3>3, <3>4
  <2> QED
    BY <2>1, <2>2, <2>3 DEF ConsoleInv, ItemsKnown, Scenarios
<1> QED
  BY <1>1, ConsoleInit, ConsoleStep, PTL DEF Spec

-----------------------------------------------------------------------------
\* The tests: what is remembered of a completion is what the last packet
\* handled reported of it, so a completion that is new is one that changed.

CompletionsRemembered ==
    scenario = "av" /\ seen # None =>
        \A t \in Tests : av.complete[t] = (t \in seen.complete)

TestsInv == TypeOK /\ CompletionsRemembered

\* What a handled AV_TO_GCS_DATA_1 remembers of the tests.
LEMMA HandleAv1Completions ==
    ASSUME TypeOK, NEW report \in RocketReports, HandleAv1(report)
    PROVE  /\ seen'.complete = report.complete
           /\ \A t \in Tests : av'.complete[t] = (t \in report.complete)
<1>1. PICK flag \in BroadcastFlag(report) :
        /\ av' = [RememberTests(report) EXCEPT
                    !.flight = report.flight,
                    !.flags = [f \in AvFlags |-> f \in report.flags],
                    !.supersonic = Supersonic(report.speed),
                    !.max = IF report.speed > @ THEN report.speed ELSE @,
                    !.newMax = PendingMax(report.speed) /\ age["AV1"] <= av.timeout,
                    !.broadcast = flag,
                    !.timeout = IF flag THEN Fast ELSE @]
        /\ seen' = [report EXCEPT !.broadcast = flag]
  BY Zenon DEF HandleAv1
<1>2. seen'.complete = report.complete
  BY <1>1 DEF RocketReports
<1> DEFINE complete == [t \in Tests |-> t \in report.complete]
           results == [t \in Tests |-> t \in report.results]
           awaiting == [t \in Tests |->
                          ~(av.awaiting[t] /\ av.complete[t] # (t \in report.complete))]
           k == RememberTests(report)
           flags == [f \in AvFlags |-> f \in report.flags]
           supersonic == Supersonic(report.speed)
           newMax == PendingMax(report.speed) /\ age["AV1"] <= av.timeout
           max == IF report.speed > k.max THEN report.speed ELSE k.max
           timeout == IF flag THEN Fast ELSE k.timeout
<1>3. av' = [k EXCEPT !.flight = report.flight, !.flags = flags,
                      !.supersonic = supersonic, !.max = max,
                      !.newMax = newMax, !.broadcast = flag,
                      !.timeout = timeout]
  BY <1>1, Zenon
<1>4. k = [av EXCEPT !.complete = complete, !.results = results, !.awaiting = awaiting]
  BY Zenon DEF RememberTests
<1>5. av \in Memories
  BY TypeParts, Zenon
<1> HIDE DEF k, flags, complete, results, awaiting, supersonic, newMax, max, timeout
<1>6. DOMAIN av = {"flight", "flags", "complete", "results", "awaiting", "timeout",
                   "supersonic", "max", "newMax", "broadcast"}
  BY <1>5 DEF Memories
<1>7. k.complete = complete /\ "complete" \in DOMAIN k
  BY <1>4, <1>6
<1>8. av'.complete = complete
  BY <1>3, <1>7
<1>9. \A t \in Tests : av'.complete[t] = (t \in report.complete)
  BY <1>8, Zenon DEF complete
<1> QED
  BY <1>2, <1>9

LEMMA CompletionsStep == TestsInv /\ [Next]_vars => TestsInv'
<1> SUFFICES ASSUME TestsInv, [Next]_vars PROVE CompletionsRemembered'
  BY TypeStep, Zenon DEF TestsInv
<1>1. UNCHANGED <<scenario, seen, av>> => CompletionsRemembered'
  BY DEF TestsInv, CompletionsRemembered
<1>2. \A v \in Viewers : LookForFolder(v) \/ MakeFolder(v) => CompletionsRemembered'
  BY <1>1, Zenon DEF LookForFolder, MakeFolder
<1>3. ASSUME NEW report \in RocketReports, HandleAv1(report)
      PROVE  CompletionsRemembered'
  <2>1. /\ seen'.complete = report.complete
        /\ \A t \in Tests : av'.complete[t] = (t \in report.complete)
    BY <1>3, HandleAv1Completions, Zenon DEF TestsInv
  <2> QED
    BY <2>1, Zenon DEF CompletionsRemembered
<1>4. \A report \in RocketReports : LoseAv1(report) => CompletionsRemembered'
  BY <1>1, Zenon DEF LoseAv1, LoseRow
<1>5. \A kind \in {"AV2", "AV3"} : HandleAv2(kind) => CompletionsRemembered'
  BY <1>1, Zenon DEF HandleAv2
<1>6. \A report \in GroundReports, kind \in {"GSE1", "GSE2"} :
         HandleGse(kind, report) => CompletionsRemembered'
  BY DEF HandleGse, CompletionsRemembered
<1>7. LoseGse \/ Tick \/ UNCHANGED vars => CompletionsRemembered'
  BY <1>1, Zenon DEF LoseGse, LoseRow, Tick, vars
<1> QED
  BY <1>2, <1>3, <1>4, <1>5, <1>6, <1>7, Zenon DEF Next

\* A test that completes is said to, whether a result was awaited or not.
LEMMA CompletionIsSaid ==
    ASSUME NEW t \in Tests, av.complete[t] = FALSE, NEW result
    PROVE  \E m \in {<<t, "complete">>, <<t, "unprompted">>} :
              m \in SaidOfTest(t, TRUE, result)
<1>1. CASE av.awaiting[t]
  <2>1. <<t, "complete">> \in SaidOfTest(t, TRUE, result)
    BY <1>1, Zenon DEF SaidOfTest
  <2> QED
    BY <2>1
<1>2. CASE ~av.awaiting[t]
  <2>1. <<t, "unprompted">> \in SaidOfTest(t, TRUE, result)
    BY <1>2, Zenon DEF SaidOfTest
  <2> QED
    BY <2>1
<1> QED
  BY <1>1, <1>2

\* A test that completes between two packets that are handled is on the
\* console, awaited or not, whatever failed in between.
THEOREM CompletionTold == Spec => CompletionIsNotSilent
<1>1. Init => TestsInv
  BY TypeInit, Zenon DEF Init, TestsInv, CompletionsRemembered
<1>2. TestsInv /\ [Next]_vars
      => [\A t \in Tests :
           (/\ scenario = "av" /\ seen # None /\ seen' # seen
            /\ t \notin seen.complete /\ t \in seen'.complete)
           => {<<t, "complete">>, <<t, "unprompted">>} \cap output' # {}]_vars
  <2> SUFFICES ASSUME TestsInv, Next, NEW t \in Tests,
                      scenario = "av", seen # None, seen' # seen,
                      t \notin seen.complete, t \in seen'.complete
               PROVE  {<<t, "complete">>, <<t, "unprompted">>} \cap output' # {}
    BY Zenon
  <2>1. PICK report \in RocketReports : HandleAv1(report)
    <3>1. ~(UNCHANGED seen)
      OBVIOUS
    <3>2. \A kind, report : ~HandleGse(kind, report)
      BY DEF HandleGse
    <3> QED
      BY <3>1, <3>2, Zenon DEF Next, LookForFolder, MakeFolder, LoseAv1, LoseGse,
         LoseRow, HandleAv2, Tick
  <2>2. t \in report.complete
    BY <2>1, HandleAv1Completions, Zenon DEF TestsInv
  <2>3. av.complete[t] = FALSE
    <3>1. av.complete[t] = (t \in seen.complete)
      BY Zenon DEF TestsInv, CompletionsRemembered
    <3>2. (t \in seen.complete) = FALSE
      OBVIOUS
    <3> QED
      BY <3>1, <3>2, Zenon
  <2>4. SaidOfTest(t, t \in report.complete, t \in report.results) \subseteq output'
    BY <2>1, Zenon DEF HandleAv1
  <2>5. (t \in report.complete) = TRUE
    BY <2>2
  <2>6. SaidOfTest(t, TRUE, t \in report.results) \subseteq output'
    BY <2>4, <2>5, Zenon
  <2>7. \E m \in {<<t, "complete">>, <<t, "unprompted">>} :
           m \in SaidOfTest(t, TRUE, t \in report.results)
    BY <2>3, CompletionIsSaid, Zenon
  <2> QED
    BY <2>6, <2>7, Zenon
<1> QED
  BY <1>1, <1>2, CompletionsStep, PTL DEF Spec, CompletionIsNotSilent

-----------------------------------------------------------------------------
\* The launcher: a plan names the services in one order, each once.

\* What each start_*() is told to wait for.
LEMMA StartFacts ==
    ASSUME NEW s \in Service
    PROVE  /\ Start(s).awaits \in {-1, 0, 1, 2}
           /\ Start(s).fatal \in BOOLEAN /\ Start(s).anyLine \in BOOLEAN
           /\ Start(s).fatal => ~ Start(s).anyLine
  BY
     DEF Service, Start, StartMiddlewareBuild, StartFakeSerialDevice,
         StartMiddleware,
         StartEmulator, StartSimulator, StartReplaySystem, StartEventViewer,
         StartPendantDaemon, StartPendantEmulator, StartLabviewListener,
         StartFrontendApi, StartFrontendWebserver

\* The order in which a plan names the services.
Rank ==
    [s \in Service |->
        CASE s = "cmake" -> 1 [] s = "cmake-build" -> 2 [] s = "socat" -> 3
          [] s = "server" -> 4 [] s \in {"emulator", "simulator", "replay"} -> 5
          [] s = "viewer" -> 6 [] s \in {"pendant_daemon", "pendant_emulator"} -> 7
          [] s = "labview" -> 8 [] s = "api" -> 9 [] s = "webserver" -> 10]

Plans == Seq(Service \cup {"raise"})

\* The services of a sequence have ranks from a to b, in increasing order.
Ascends(p, a, b) ==
    /\ p \in Plans
    /\ \A i \in 1..Len(p) : p[i] \in Service => Rank[p[i]] \in a..b
    /\ \A i, j \in 1..Len(p) :
           i < j /\ p[i] \in Service /\ p[j] \in Service => Rank[p[i]] < Rank[p[j]]

LEMMA RankType == \A s \in Service : Rank[s] \in 1..10
  BY DEF Rank, Service

LEMMA NotAService == "raise" \notin Service
  BY DEF Service

LEMMA Joined ==
    ASSUME NEW p, NEW q, NEW a \in Nat, NEW b \in Nat, NEW c \in Nat,
           NEW d \in Nat,
           Ascends(p, a, b), Ascends(q, c, d), a <= c, b < c, b <= d
    PROVE  Ascends(p \o q, a, d)
<1> DEFINE r == p \o q
<1>1. /\ p \in Plans /\ q \in Plans /\ r \in Plans
      /\ Len(p) \in Nat /\ Len(q) \in Nat /\ Len(r) = Len(p) + Len(q)
      /\ \A i \in 1..Len(p) + Len(q) : r[i] = IF i <= Len(p) THEN p[i] ELSE q[i - Len(p)]
  BY DEF Ascends, Plans
<1> HIDE DEF r
<1>2. ASSUME NEW i \in 1..Len(r), r[i] \in Service
      PROVE  Rank[r[i]] \in a..d
  BY <1>1, <1>2, RankType, SMTT(30) DEF Ascends
<1>3. ASSUME NEW i \in 1..Len(r), NEW j \in 1..Len(r), i < j,
             r[i] \in Service, r[j] \in Service
      PROVE  Rank[r[i]] < Rank[r[j]]
  <2>1. CASE j <= Len(p)
    <3>1. i \in 1..Len(p) /\ j \in 1..Len(p) /\ r[i] = p[i] /\ r[j] = p[j]
      BY <1>1, <1>3, <2>1
    <3> QED
      BY <1>3, <3>1 DEF Ascends
  <2>2. CASE i <= Len(p) /\ j > Len(p)
    <3>1. Rank[r[i]] \in a..b
      BY <1>1, <1>3, <2>2 DEF Ascends
    <3>2. j - Len(p) \in 1..Len(q) /\ r[j] = q[j - Len(p)]
      BY <1>1, <2>2
    <3>3. Rank[r[j]] \in c..d
      BY <1>3, <3>2 DEF Ascends
    <3> QED
      BY <3>1, <3>3
  <2>3. CASE i > Len(p)
    <3>1. i - Len(p) \in 1..Len(q) /\ j - Len(p) \in 1..Len(q) /\ i - Len(p) < j - Len(p)
      BY <1>1, <1>3, <2>3
    <3>2. r[i] = q[i - Len(p)] /\ r[j] = q[j - Len(p)]
      BY <1>1, <1>3, <2>3
    <3> QED
      BY <1>3, <3>1, <3>2 DEF Ascends
  <2> QED
    BY <1>1, <2>1, <2>2, <2>3
<1>4. Ascends(r, a, d)
  BY <1>1, <1>2, <1>3 DEF Ascends
<1> QED
  BY <1>4 DEF r

LEMMA Single ==
    ASSUME NEW s \in Service, NEW a \in Nat, NEW b \in Nat, Rank[s] \in a..b
    PROVE  Ascends(<<s>>, a, b)
  BY DEF Ascends, Plans

LEMMA NoService ==
    ASSUME NEW a \in Nat, NEW b \in Nat
    PROVE  Ascends(<<>>, a, b) /\ Ascends(<<"raise">>, a, b)
  BY NotAService DEF Ascends, Plans

LEMMA Ranks ==
    /\ Rank["cmake"] = 1 /\ Rank["cmake-build"] = 2 /\ Rank["socat"] = 3
    /\ Rank["server"] = 4 /\ Rank["emulator"] = 5 /\ Rank["simulator"] = 5
    /\ Rank["replay"] = 5 /\ Rank["viewer"] = 6 /\ Rank["pendant_daemon"] = 7
    /\ Rank["pendant_emulator"] = 7 /\ Rank["labview"] = 8 /\ Rank["api"] = 9
    /\ Rank["webserver"] = 10
  BY DEF Rank, Service

\* The services a plan ends with, each of which it may leave out or not.
ForViewer == <<"viewer">>
ForPendant(i, m) == If(~ i.nopendant /\ i.mode # "mission", m.pendant)
ForLabview(i) == If(i.mode # "mission" /\ i.simulation = Unset, "labview")
ForApi == <<"api">>
ForWebserver(i) == If(i.frontend, "webserver")

LEMMA PartsAscend ==
    ASSUME NEW i, NEW m \in Machines
    PROVE  /\ Ascends(StartBuild(i, m), 1, 2)
           /\ Ascends(ResolvePaths(Links(i), m), 3, 3)
           /\ Ascends(StartServer(m), 4, 4)
           /\ Ascends(AuxService(i), 5, 5)
           /\ Ascends(ForViewer, 6, 6)
           /\ Ascends(ForPendant(i, m), 7, 7)
           /\ Ascends(ForLabview(i), 8, 8)
           /\ Ascends(ForApi, 9, 9)
           /\ Ascends(ForWebserver(i), 10, 10)
<1>0. m.pendant \in {"pendant_daemon", "pendant_emulator"}
  BY MachineAssumption
<1>1. Ascends(StartBuild(i, m), 1, 2)
  <2>1. Ascends(IF m.cache THEN <<>> ELSE <<"cmake">>, 1, 1)
    BY NoService, Single, Ranks DEF Service
  <2>2. Ascends(<<"cmake-build">>, 2, 2)
    BY Single, Ranks DEF Service
  <2>3. Ascends((IF m.cache THEN <<>> ELSE <<"cmake">>) \o <<"cmake-build">>, 1, 2)
    BY <2>1, <2>2, Joined
  <2> QED
    BY <2>3, NoService, Zenon DEF StartBuild
<1>2. Ascends(ResolvePaths(Links(i), m), 3, 3)
  <2>1. ResolvePaths(Links(i), m) \in {<<"raise">>, <<"socat">>, <<>>}
    BY DEF ResolvePaths
  <2>2. Ascends(<<"socat">>, 3, 3)
    BY Single, Ranks DEF Service
  <2>3. Ascends(<<"raise">>, 3, 3) /\ Ascends(<<>>, 3, 3)
    BY NoService
  <2> QED
    BY <2>1, <2>2, <2>3, Zenon
<1>3. Ascends(StartServer(m), 4, 4)
  BY NoService, Single, Ranks DEF StartServer, Service
<1>4. Ascends(AuxService(i), 5, 5)
  <2>1. AuxService(i) \in {<<"emulator">>, <<"simulator">>, <<"replay">>, <<>>}
    BY DEF AuxService
  <2>2. /\ Ascends(<<"emulator">>, 5, 5) /\ Ascends(<<"simulator">>, 5, 5)
        /\ Ascends(<<"replay">>, 5, 5) /\ Ascends(<<>>, 5, 5)
    BY NoService, Single, Ranks DEF Service
  <2> QED
    BY <2>1, <2>2
<1>5. Ascends(ForViewer, 6, 6)
  BY Single, Ranks DEF ForViewer, Service
<1>6. Ascends(ForPendant(i, m), 7, 7)
  BY <1>0, NoService, Single, Ranks DEF ForPendant, If, Service
<1>7. Ascends(ForLabview(i), 8, 8)
  BY NoService, Single, Ranks DEF ForLabview, If, Service
<1>8. Ascends(ForApi, 9, 9)
  BY Single, Ranks DEF ForApi, Service
<1>9. Ascends(ForWebserver(i), 10, 10)
  BY NoService, Single, Ranks DEF ForWebserver, If, Service
<1> QED
  BY <1>1, <1>2, <1>3, <1>4, <1>5, <1>6, <1>7, <1>8, <1>9

\* The services planned after one another, up to each of them.
UpToPaths(i, m) == StartBuild(i, m) \o ResolvePaths(Links(i), m)
UpToServer(i, m) == UpToPaths(i, m) \o StartServer(m)
UpToAux(i, m) == UpToServer(i, m) \o AuxService(i)
UpToViewer(i, m) == UpToAux(i, m) \o ForViewer
UpToPendant(i, m) ==
    UpToViewer(i, m) \o ForPendant(i, m)
UpToLabview(i, m) ==
    UpToPendant(i, m) \o ForLabview(i)
UpToApi(i, m) == UpToLabview(i, m) \o ForApi
UpToWebserver(i, m) == UpToApi(i, m) \o ForWebserver(i)

LEMMA PlanCases ==
    ASSUME NEW i, NEW m
    PROVE  \/ Plan(i, m) \in {<<"raise">>, <<"webserver">>}
           \/ Plan(i, m) = UpToWebserver(i, m)
  BY
     DEF Plan, UpToWebserver, UpToApi, UpToLabview, UpToPendant, UpToViewer,
         UpToAux,
         UpToServer, UpToPaths, ForViewer, ForPendant, ForLabview, ForApi, ForWebserver

LEMMA StagesAscend ==
    ASSUME NEW i, NEW m \in Machines
    PROVE  /\ Ascends(UpToPaths(i, m), 1, 3) /\ Ascends(UpToServer(i, m), 1, 4)
           /\ Ascends(UpToAux(i, m), 1, 5) /\ Ascends(UpToViewer(i, m), 1, 6)
           /\ Ascends(UpToPendant(i, m), 1, 7) /\ Ascends(UpToLabview(i, m), 1, 8)
           /\ Ascends(UpToApi(i, m), 1, 9) /\ Ascends(UpToWebserver(i, m), 1, 10)
<1>1. Ascends(UpToPaths(i, m), 1, 3)
  BY PartsAscend, Joined DEF UpToPaths
<1>2. Ascends(UpToServer(i, m), 1, 4)
  BY <1>1, PartsAscend, Joined DEF UpToServer
<1>3. Ascends(UpToAux(i, m), 1, 5)
  BY <1>2, PartsAscend, Joined DEF UpToAux
<1>4. Ascends(UpToViewer(i, m), 1, 6)
  BY <1>3, PartsAscend, Joined DEF UpToViewer
<1>5. Ascends(UpToPendant(i, m), 1, 7)
  BY <1>4, PartsAscend, Joined DEF UpToPendant
<1>6. Ascends(UpToLabview(i, m), 1, 8)
  BY <1>5, PartsAscend, Joined DEF UpToLabview
<1>7. Ascends(UpToApi(i, m), 1, 9)
  BY <1>6, PartsAscend, Joined DEF UpToApi
<1>8. Ascends(UpToWebserver(i, m), 1, 10)
  BY <1>7, PartsAscend, Joined DEF UpToWebserver
<1> QED
  BY <1>1, <1>2, <1>3, <1>4, <1>5, <1>6, <1>7, <1>8

LEMMA PlanAscends ==
    ASSUME NEW i, NEW m \in Machines
    PROVE  Ascends(Plan(i, m), 1, 10)
<1>1. Ascends(<<"webserver">>, 1, 10) /\ Ascends(<<"raise">>, 1, 10)
  BY NoService, Single, Ranks DEF Service
<1> QED
  BY <1>1, PlanCases, StagesAscend

-----------------------------------------------------------------------------
\* What is planned before an emulator, simulator or replay.

LEMMA CommandFacts ==
    ASSUME NEW i \in Considered
    PROVE  \/ i.command \in {"RUN", "DEV"}
           \/ i.single = Unset /\ i.gse = "TEST"
<1>1. CASE i \in RunCommands
  BY <1>1 DEF RunCommands, RunChoices, NoOptions, Invocations
<1>2. CASE i \in DevCommands
  BY <1>2
     DEF DevCommands, DevChoices, RunChoices, SimChoices, NoOptions, Invocations
<1>3. CASE i \in SimulationCommands
  BY <1>3
     DEF SimulationCommands, SimChoices, EmulatedLinks, NoOptions, Invocations
<1>4. CASE i \in ReplayCommands
  BY <1>4 DEF ReplayCommands, ReplayChoices, SimChoices, EmulatedLinks, NoOptions,
              Invocations
<1> QED
  BY <1>1, <1>2, <1>3, <1>4, CommandAssumption

\* What an emulator, a simulator or a replay is planned with: emulated links.
LEMMA AuxNeedsEmulation ==
    ASSUME NEW i \in Considered, AuxService(i) # <<>>
    PROVE  {Links(i).gse, Links(i).av} \cap Emulated # {}
<1>1. CASE i.command = "DEV"
  BY <1>1 DEF AuxService
<1>2. CASE i.command = "RUN"
  BY <1>2 DEF AuxService
<1>3. CASE i.single = Unset /\ i.gse = "TEST"
  BY <1>3 DEF Links, LinkType, Unset, Emulated
<1> QED
  BY <1>1, <1>2, <1>3, CommandFacts

LEMMA Kept ==
    ASSUME NEW p \in Plans, NEW q \in Plans
    PROVE  /\ Len(p) <= Len(p \o q)
           /\ \A k \in 1..Len(p) : k \in 1..Len(p \o q) /\ (p \o q)[k] = p[k]
  BY DEF Plans

LEMMA Cut ==
    ASSUME NEW p, NEW q, NEW a \in Nat, NEW b \in Nat, NEW c \in Nat,
           NEW d \in Nat,
           Ascends(p, a, b), Ascends(q, c, d),
           NEW k \in 1..Len(p \o q), NEW t \in Service, (p \o q)[k] = t, Rank[t] < c
    PROVE  k \in 1..Len(p) /\ p[k] = t
<1>1. /\ p \in Plans /\ q \in Plans /\ k \in Nat /\ Len(p) \in Nat /\ Len(q) \in Nat
      /\ k <= Len(p) => (p \o q)[k] = p[k]
      /\ k > Len(p) => /\ k - Len(p) \in 1..Len(q)
                       /\ (p \o q)[k] = q[k - Len(p)]
  BY DEF Ascends, Plans
<1>2. CASE k > Len(p)
  <2>1. Rank[t] \in c..d
    BY <1>1, <1>2 DEF Ascends
  <2> QED
    BY <1>1, <1>2, <2>1
<1>3. CASE k <= Len(p)
  BY <1>1, <1>3
<1> QED
  BY <1>1, <1>2, <1>3

LEMMA InFront ==
    ASSUME NEW i, NEW m \in Machines, NEW k \in 1..Len(UpToWebserver(i, m)),
           NEW t \in {"emulator", "simulator", "replay"}, UpToWebserver(i, m)[k] = t
    PROVE  /\ k \in 1..Len(UpToAux(i, m)) /\ UpToAux(i, m)[k] = t
           /\ AuxService(i) # <<>> /\ k > Len(UpToServer(i, m))
<1>0. t \in Service /\ Rank[t] = 5
  BY Ranks DEF Service
<1>1. k \in 1..Len(UpToApi(i, m)) /\ UpToApi(i, m)[k] = t
  <2>1. Ascends(UpToApi(i, m), 1, 9) /\ Ascends(ForWebserver(i), 10, 10)
    BY PartsAscend, StagesAscend
  <2>2. k \in 1..Len(UpToApi(i, m) \o ForWebserver(i)) /\ (UpToApi(i, m) \o ForWebserver(i))[k] = t
    BY Zenon DEF UpToWebserver
  <2> QED
    BY <1>0, <2>1, <2>2, Cut, SMTT(30)
<1>2. k \in 1..Len(UpToLabview(i, m)) /\ UpToLabview(i, m)[k] = t
  <2>1. Ascends(UpToLabview(i, m), 1, 8) /\ Ascends(ForApi, 9, 9)
    BY PartsAscend, StagesAscend
  <2>2. k \in 1..Len(UpToLabview(i, m) \o ForApi) /\ (UpToLabview(i, m) \o ForApi)[k] = t
    BY <1>1, Zenon DEF UpToApi
  <2> QED
    BY <1>0, <2>1, <2>2, Cut, SMTT(30)
<1>3. k \in 1..Len(UpToPendant(i, m)) /\ UpToPendant(i, m)[k] = t
  <2>1. Ascends(UpToPendant(i, m), 1, 7) /\ Ascends(ForLabview(i), 8, 8)
    BY PartsAscend, StagesAscend
  <2>2. k \in 1..Len(UpToPendant(i, m) \o ForLabview(i)) /\ (UpToPendant(i, m) \o ForLabview(i))[k] = t
    BY <1>2, Zenon DEF UpToLabview
  <2> QED
    BY <1>0, <2>1, <2>2, Cut, SMTT(30)
<1>4. k \in 1..Len(UpToViewer(i, m)) /\ UpToViewer(i, m)[k] = t
  <2>1. Ascends(UpToViewer(i, m), 1, 6) /\ Ascends(ForPendant(i, m), 7, 7)
    BY PartsAscend, StagesAscend
  <2>2. k \in 1..Len(UpToViewer(i, m) \o ForPendant(i, m)) /\ (UpToViewer(i, m) \o ForPendant(i, m))[k] = t
    BY <1>3, Zenon DEF UpToPendant
  <2> QED
    BY <1>0, <2>1, <2>2, Cut, SMTT(30)
<1>5. k \in 1..Len(UpToAux(i, m)) /\ UpToAux(i, m)[k] = t
  <2>1. Ascends(UpToAux(i, m), 1, 5) /\ Ascends(ForViewer, 6, 6)
    BY PartsAscend, StagesAscend
  <2>2. k \in 1..Len(UpToAux(i, m) \o ForViewer) /\ (UpToAux(i, m) \o ForViewer)[k] = t
    BY <1>4, Zenon DEF UpToViewer
  <2> QED
    BY <1>0, <2>1, <2>2, Cut, SMTT(30)
<1>6. Ascends(UpToServer(i, m), 1, 4) /\ Ascends(AuxService(i), 5, 5)
  BY PartsAscend, StagesAscend
<1> DEFINE F == UpToServer(i, m)
           A == AuxService(i)
<1> HIDE DEF F, A
<1>7. k \in 1..Len(F \o A) /\ (F \o A)[k] = t
  BY <1>5 DEF UpToAux, F, A
<1>8. Ascends(F, 1, 4) /\ A \in Plans /\ F \in Plans
  BY <1>6 DEF F, A, Ascends
<1>9. k > Len(F)
  <2>1. SUFFICES ASSUME k <= Len(F) PROVE FALSE
    BY <1>7, <1>8 DEF Plans
  <2>2. k \in 1..Len(F) /\ F[k] = t
    BY <1>7, <1>8, <2>1, Kept DEF Plans
  <2> QED
    BY <1>0, <1>8, <2>2 DEF Ascends
<1>10. A # <<>>
  BY <1>7, <1>8, <1>9 DEF Plans
<1> QED
  BY <1>5, <1>9, <1>10 DEF F, A

\* Every source of telemetry is planned after a pseudo-terminal, or after an
\* exception that ends the launch.
LEMMA TerminalFirst ==
    ASSUME NEW i \in Considered, NEW m \in Machines,
           NEW k \in 1..Len(Plan(i, m)), NEW l \in 1..Len(Plan(i, m)), l < k,
           Plan(i, m)[k] \in {"emulator", "simulator", "replay"}
    PROVE  \E n \in 1..(k - 1) : Plan(i, m)[n] \in {"raise", "socat"}
<1>1. Plan(i, m) = UpToWebserver(i, m)
  <2>1. Len(Plan(i, m)) # 1
    OBVIOUS
  <2> QED
    BY <2>1, PlanCases
<1>2. /\ AuxService(i) # <<>> /\ k > Len(UpToServer(i, m))
  BY <1>1, InFront
<1>3. ResolvePaths(Links(i), m) \in {<<"raise">>, <<"socat">>}
  BY <1>2, AuxNeedsEmulation DEF ResolvePaths
<1> DEFINE n == Len(StartBuild(i, m)) + 1
           P == UpToPaths(i, m)
           S == UpToServer(i, m)
<1>4. /\ StartBuild(i, m) \in Plans /\ ResolvePaths(Links(i), m) \in Plans
      /\ StartServer(m) \in Plans /\ AuxService(i) \in Plans /\ ForViewer \in Plans
      /\ ForPendant(i, m) \in Plans
      /\ ForLabview(i) \in Plans
      /\ ForApi \in Plans /\ ForWebserver(i) \in Plans
  BY PartsAscend DEF Ascends
<1>5. /\ UpToPaths(i, m) \in Plans /\ UpToServer(i, m) \in Plans
      /\ UpToAux(i, m) \in Plans /\ UpToViewer(i, m) \in Plans
      /\ UpToPendant(i, m) \in Plans /\ UpToLabview(i, m) \in Plans
      /\ UpToApi(i, m) \in Plans
  BY StagesAscend DEF Ascends
<1>6. n \in 1..Len(UpToPaths(i, m)) /\ UpToPaths(i, m)[n] \in {"raise", "socat"}
  BY <1>3, <1>4 DEF UpToPaths, Plans
<1>7. n \in 1..Len(UpToServer(i, m)) /\ UpToServer(i, m)[n] \in {"raise", "socat"}
  BY <1>4, <1>5, <1>6, Kept DEF UpToServer
<1> HIDE DEF n
<1>8. n \in 1..Len(UpToAux(i, m)) /\ UpToAux(i, m)[n] \in {"raise", "socat"}
  BY <1>4, <1>5, <1>7, Kept DEF UpToAux
<1>9. n \in 1..Len(UpToViewer(i, m)) /\ UpToViewer(i, m)[n] \in {"raise", "socat"}
  BY <1>4, <1>5, <1>8, Kept DEF UpToViewer
<1>10. n \in 1..Len(UpToPendant(i, m)) /\ UpToPendant(i, m)[n] \in {"raise", "socat"}
  BY <1>4, <1>5, <1>9, Kept DEF UpToPendant
<1>11. n \in 1..Len(UpToLabview(i, m)) /\ UpToLabview(i, m)[n] \in {"raise", "socat"}
  BY <1>4, <1>5, <1>10, Kept DEF UpToLabview
<1>12. n \in 1..Len(UpToApi(i, m)) /\ UpToApi(i, m)[n] \in {"raise", "socat"}
  BY <1>4, <1>5, <1>11, Kept DEF UpToApi
<1>13. UpToWebserver(i, m)[n] \in {"raise", "socat"}
  BY <1>4, <1>5, <1>12, Kept DEF UpToWebserver
<1>14. n \in 1..(k - 1)
  BY <1>2, <1>5, <1>7 DEF Plans
<1> QED
  BY <1>1, <1>13, <1>14

-----------------------------------------------------------------------------
\* Sequences of instances.

LEMMA SeqFacts ==
    ASSUME NEW S, NEW q \in Seq(S)
    PROVE  /\ q # <<>> => Head(q) \in S /\ Tail(q) \in Seq(S) /\ Len(q) >= 1
           /\ \A e \in S : Append(q, e) \in Seq(S)
           /\ Reverse(q) \in Seq(S) /\ Len(Reverse(q)) = Len(q)
           /\ \A i \in 1..Len(q) : Reverse(q)[i] = q[(Len(q) - i) + 1]
<1>1. q # <<>> => Head(q) \in S /\ Tail(q) \in Seq(S) /\ Len(q) >= 1
  OBVIOUS
<1>2. \A e \in S : Append(q, e) \in Seq(S)
  OBVIOUS
<1>3. /\ Reverse(q) \in Seq(S) /\ Len(Reverse(q)) = Len(q)
      /\ \A i \in 1..Len(q) : Reverse(q)[i] = q[(Len(q) - i) + 1]
  BY DEF Reverse
<1> QED
  BY <1>1, <1>2, <1>3

Distinct(q) == \A i, j \in 1..Len(q) : i # j => q[i] # q[j]

\* An instance that is the last one is removed from the end.
LEMMA RemoveLast ==
    ASSUME NEW S, NEW q \in Seq(S), q # <<>>, Distinct(q)
    PROVE  LET r == RemoveFirst(q, q[Len(q)])
           IN  /\ r \in Seq(S) /\ Len(r) = Len(q) - 1
               /\ \A i \in 1..Len(r) : r[i] = q[i]
<1> DEFINE n == Len(q)
           e == q[n]
           I == {i \in 1..n : q[i] = e}
<1>1. n \in Nat /\ n \in 1..n
  OBVIOUS
<1>2. I = {n}
  BY <1>1 DEF Distinct
<1>3. Min(I) = n
  BY <1>1, <1>2 DEF Min
<1>4. SelectInSeq(q, LAMBDA v : v = e) = n
  <2>1. SelectInSeq(q, LAMBDA v : v = e) = IF I # {} THEN Min(I) ELSE 0
    BY Zenon DEF SelectInSeq
  <2> HIDE DEF I
  <2> QED
    BY <1>2, <1>3, <2>1
<1>5. RemoveFirst(q, e) = RemoveAt(q, n)
  <2>1. \E i \in 1..n : q[i] = e
    BY <1>1
  <2> QED
    BY <1>4, <2>1, Zenon DEF RemoveFirst
<1>6. RemoveAt(q, n) = SubSeq(q, 1, n - 1) \o SubSeq(q, n + 1, n)
  BY DEF RemoveAt
<1>7. /\ SubSeq(q, 1, n - 1) \in Seq(S) /\ Len(SubSeq(q, 1, n - 1)) = n - 1
      /\ \A i \in 1..n - 1 : SubSeq(q, 1, n - 1)[i] = q[i]
  <2> DEFINE k == n - 1
  <2>1. k \in Nat /\ k \in 0..Len(q)
    BY <1>1
  <2> HIDE DEF k
  <2>2. SubSeq(q, 1, k) = [i \in 1..k |-> q[i]]
    BY <2>1
  <2>3. /\ [i \in 1..k |-> q[i]] \in Seq(S)
        /\ Len([i \in 1..k |-> q[i]]) = k
    BY <2>1
  <2> QED
    BY <2>2, <2>3 DEF k
<1>8. SubSeq(q, n + 1, n) = <<>>
  BY <1>1
<1>9. RemoveAt(q, n) = SubSeq(q, 1, n - 1)
  BY <1>6, <1>7, <1>8
<1> QED
  BY <1>5, <1>7, <1>9

-----------------------------------------------------------------------------
\* The inductive invariant of the launcher, and its types.

MainTypes ==
    /\ inv \in Considered /\ machine \in Machines
    /\ main \in {"plan", "planned", "next", "logging", "fork", "forked", "threads",
                 "created", "raised", "wait", "drain", "clear", "waitexit", "asleep",
                 "exited"} \cup Ending
    /\ todo \in Plans /\ instances \in Seq(Service) /\ order \in Seq(Service)
    /\ got \in Nat /\ signals \in 0..MaxSignals /\ crashes \in 0..MaxCrashes

ChildTypes ==
    /\ child \in [Service -> {"none", "running", "stopping", "dead", "failed"}]
    /\ held \subseteq Service /\ reaped \subseteq held
    /\ ready \in [Service -> 0..2] /\ chat \subseteq Chatty
    /\ pipe \in [Service -> Seq({"ready", "other"})]

MonitorTypes ==
    /\ mon \in [Service -> {"off", "created", "reading", "logging", "putting",
                         "found", "done"}]
    /\ line \in [Service -> {"none", "ready", "other"}]
    /\ queue \in [Service -> Nat] /\ hits \in [Service -> Nat]
    /\ event \in [Service -> BOOLEAN] /\ stopped \in [Service -> BOOLEAN]
    /\ logLock \in Service \cup {Free, Main}
    /\ grip \in {"none", "queue", "event"}

LEMMA LaunchTypeParts == LaunchTypeOK <=> MainTypes /\ ChildTypes /\ MonitorTypes
  BY DEF LaunchTypeOK, MainTypes, ChildTypes, MonitorTypes, Plans

\* The plan of this launch, and how many of its services have been dealt with.
ThePlan == Plan(inv, machine)
Done == IF main = "plan" THEN 0 ELSE Len(ThePlan) - Len(todo)

Ended == {"dead", "failed"}
Unplanned == {"plan", "planned", "next", "logging"}
Collecting == {"wait", "drain", "clear"}
Starting ==
    {"fork", "forked", "threads", "created", "raised", "waitexit"} \cup Collecting

\* A service the main thread has passed, or is at outside of some places.
Reached(s, before) ==
    \E j \in 1..Len(ThePlan) :
        ThePlan[j] = s /\ (j <= Done \/ (j = Done + 1 /\ main \notin before))

\* What is left to start is the rest of the plan, and what was started came first.
FollowsPlan ==
    /\ main # "plan" => /\ Len(todo) <= Len(ThePlan)
                        /\ \A i \in 1..Len(todo) : todo[i] = ThePlan[Done + i]
    /\ main \in Starting \cup {"logging"} => todo # <<>> /\ Current \in Service
    /\ \A i \in 1..Len(instances) : Reached(instances[i], Unplanned)
    /\ \A s \in Service : child[s] # "none" => Reached(s, Unplanned \cup {"fork"})

\* A service that others rely on is up, once the main thread has passed it.
Up(s) == IF Start(s).awaits = -1 THEN child[s] = "dead"
         ELSE ready[s] >= Start(s).awaits
PassedAreUp ==
    /\ \A i \in 1..Len(ThePlan) :
           i <= Done => ThePlan[i] \in Service
                        /\ (Start(ThePlan[i]).fatal => Up(ThePlan[i]))
    /\ main = "waitexit" => Start(Current).awaits = -1
    /\ main \in Collecting => Start(Current).awaits \in {1, 2}

\* cleanup() goes through the instances from the last to the first.
InstancesInv ==
    /\ Distinct(instances)
    /\ main \in Starting => \E i \in 1..Len(instances) : instances[i] = Current
    /\ main \in Ending => order = Reverse(instances)
    /\ main \in {"reap", "join"} => order # <<>> /\ Victim \in held
    /\ main = "join" => child[Victim] \in Ended
    /\ main = "exited" => instances = <<>>

\* A process the launcher holds has ended or belongs to an instance.
ProcessesInv ==
    /\ main \in Starting \ {"fork", "raised"} => child[Current] # "none"
    /\ main \in Starting \ {"fork", "forked", "raised"} => Current \in held
    /\ \A s \in held : /\ child[s] # "none"
                       /\ \/ child[s] \in Ended
                          \/ \E i \in 1..Len(instances) : instances[i] = s
    /\ \A s \in reaped : child[s] \in Ended

\* What was found of an awaited line, on its way from the child to the main
\* thread, is at most what was printed.
Lines(p) == Cardinality({i \in 1..Len(p) : p[i] = "ready"})
InHand(s) == IF line[s] = "ready" THEN 1 ELSE 0
Taken(s) == IF main \in Collecting /\ Current = s THEN got ELSE 0
Counted ==
    /\ main \in {"fork", "forked", "threads", "created"} => got = 0
    /\ \A s \in Service :
           ~ Start(s).anyLine =>
               Taken(s) + queue[s] + InHand(s) + Lines(pipe[s]) <= ready[s]

\* A monitor created and not started is that of the service whose start() a
\* signal interrupted, or its process was reaped and joining it has failed; one
\* that puts an item has found the awaited line.
Interruptible == {"created", "exited"} \cup Ending
MonitorsInv ==
    /\ main = "join" => Victim \in reaped
    /\ \A s \in Service : mon[s] = "created" =>
           \/ todo # <<>> /\ s = Current /\ main \in Interruptible
           \/ s \in reaped /\ ~ (main \in {"reap", "join"} /\ Victim = s)
    /\ \A s \in Service : mon[s] = "putting" => Matches(s)

LaunchIndInv ==
    /\ LaunchTypeOK /\ FollowsPlan /\ PassedAreUp /\ InstancesInv /\ ProcessesInv /\ Counted
    /\ MonitorsInv


\* At work on a service, the rest of the plan is one shorter.
LEMMA AtWork ==
    ASSUME MainTypes, FollowsPlan, main \in Starting \cup {"logging"}
    PROVE  /\ Current \in Service /\ todo # <<>> /\ Len(todo) \in Nat /\ Len(todo) >= 1
           /\ Tail(todo) \in Plans /\ Len(Tail(todo)) = Len(todo) - 1
           /\ \A i \in 1..Len(todo) - 1 : Tail(todo)[i] = todo[i + 1]
           /\ Current = todo[1]
<1>1. todo \in Plans /\ todo # <<>> /\ Current \in Service
  BY DEF MainTypes, FollowsPlan
<1>2. Len(todo) \in Nat /\ Len(todo) >= 1 /\ Current = todo[1]
  BY <1>1 DEF Plans, Current
<1>3. /\ Tail(todo) \in Plans /\ Len(Tail(todo)) = Len(todo) - 1
      /\ \A i \in 1..Len(Tail(todo)) : Tail(todo)[i] = todo[i + 1]
  BY <1>1, HeadTailProperties DEF Plans
<1> QED
  BY <1>1, <1>2, <1>3

\* An exception hands all instances to cleanup(), the last first.
LEMMA FailsTypes ==
    ASSUME MainTypes, Fails
    PROVE  /\ main' = "stopping" /\ todo' = todo /\ instances' = instances /\ got' = got
           /\ order' = Reverse(instances) /\ order' \in Seq(Service)
  BY SeqFacts DEF MainTypes, Fails

\* Going on leaves the rest of the plan.
LEMMA ProceedTypes ==
    ASSUME MainTypes, FollowsPlan, main \in Starting, Proceed
    PROVE  main' = "next" /\ todo' = Tail(todo) /\ todo' \in Plans
  BY AtWork DEF Proceed

\* stop() removes the last instance.
LEMMA DropTypes ==
    ASSUME MainTypes, InstancesInv, main \in Ending, order # <<>>, Drop
    PROVE  /\ main' = "stopping" /\ order' \in Seq(Service) /\ instances' \in Seq(Service)
           /\ order' = Tail(order) /\ instances # <<>> /\ Victim = instances[Len(instances)]
           /\ instances' = RemoveFirst(instances, Victim)
           /\ Len(instances') = Len(instances) - 1
           /\ \A i \in 1..Len(instances') : instances'[i] = instances[i]
<1>1. order = Reverse(instances) /\ Distinct(instances) /\ instances \in Seq(Service)
  BY DEF MainTypes, InstancesInv
<1>2. instances # <<>>
  BY <1>1 DEF Reverse
<1>3. Head(order) = instances[Len(instances)] /\ Tail(order) \in Seq(Service)
  BY <1>1, <1>2, SeqFacts
<1>4. /\ main' = "stopping" /\ order' = Tail(order)
      /\ instances' = RemoveFirst(instances, instances[Len(instances)])
  BY <1>3 DEF Drop, Victim
<1> QED
  BY <1>1, <1>2, <1>3, <1>4, RemoveLast, Zenon DEF Victim

\* join() refuses the monitor of the service that was being started.
LEMMA Interrupted ==
    ASSUME ChildTypes, InstancesInv, MonitorsInv, JoinRaises
    PROVE  todo # <<>> /\ Current \in Service /\ Victim = Current
<1>1. main = "join" /\ mon[Victim] = "created"
  BY DEF JoinRaises
<1>2. Victim \in Service
  BY <1>1 DEF InstancesInv, ChildTypes
<1> QED
  BY <1>1, <1>2 DEF MonitorsInv

\* The types of the main thread, of the children and of the monitors are kept.
LEMMA MainTypesStep ==
    ASSUME MainTypes, ChildTypes, MonitorTypes, FollowsPlan, InstancesInv,
           [LaunchNext]_launchVars
    PROVE  MainTypes'
<1>1. CASE MakePlan
  BY <1>1, PlanAscends DEF MakePlan, MainTypes, Ascends, inputs, bounds
<1>2. CASE AllStarted
  BY <1>2, SeqFacts
     DEF AllStarted, Proceed, MainTypes, Ending, Plans, inputs, bounds, mainVars
<1>3. CASE RefuseToStart
  BY <1>3, FailsTypes DEF RefuseToStart, MainTypes, Ending, inputs, bounds
<1>4. CASE BeginLog
  BY <1>4, SeqFacts
     DEF BeginLog, Proceed, MainTypes, Ending, Plans, inputs, bounds, mainVars
<1>5. CASE CreateInstance
  <2>1. Append(instances, Current) \in Seq(Service)
    BY <1>5, AtWork, SeqFacts DEF CreateInstance, MainTypes
  <2> QED
    BY <1>5, <2>1 DEF CreateInstance, MainTypes, inputs, bounds
<1>6. CASE Fork
  BY <1>6, SeqFacts
     DEF Fork, Proceed, MainTypes, Ending, Plans, inputs, bounds, mainVars
<1>7. CASE ForkFails
  BY <1>7, LaunchBounds DEF ForkFails, MainTypes, inputs
<1>8. CASE KeepHandle
  BY <1>8, SeqFacts
     DEF KeepHandle, Proceed, MainTypes, Ending, Plans, inputs, bounds, mainVars
<1>9. CASE StartMonitors
  <2>1. /\ UNCHANGED <<inv, machine, signals, crashes, instances, order, got>>
        /\ main \in Starting
    BY <1>9 DEF StartMonitors, inputs, bounds, Starting, Collecting
  <2>2. Start(Current).awaits \in {-1, 0, 1, 2}
    BY <2>1, AtWork, StartFacts
  <2>3. Proceed \/ (main' \in {"wait", "waitexit"} /\ todo' = todo)
    BY <1>9, <2>2 DEF StartMonitors
  <2>4. CASE Proceed
    <3>1. main' = "next" /\ todo' \in Plans
      BY <2>1, <2>4, ProceedTypes
    <3> QED
      BY <2>1, <3>1 DEF MainTypes
  <2>5. CASE main' \in {"wait", "waitexit"} /\ todo' = todo
    BY <2>1, <2>5 DEF MainTypes
  <2> QED
    BY <2>3, <2>4, <2>5, Zenon
<1>10. CASE EventSeen
  BY <1>10, SeqFacts
     DEF EventSeen, Proceed, MainTypes, Ending, Plans, inputs, bounds, mainVars
<1>11. CASE DrainQueue
  <2>1. queue[Current] \in Nat /\ got' \in Nat
    BY <1>11, AtWork DEF DrainQueue, MainTypes, MonitorTypes, Starting, Collecting
  <2> QED
    BY <1>11, <2>1 DEF DrainQueue, MainTypes, inputs, bounds
<1>12. CASE ClearEvent
  <2>1. /\ UNCHANGED <<inv, machine, signals, crashes, instances, order, got>>
        /\ main \in Starting
    BY <1>12 DEF ClearEvent, inputs, bounds, Starting, Collecting
  <2>2. Start(Current).awaits \in {-1, 0, 1, 2}
    BY <2>1, AtWork, StartFacts
  <2>3. Proceed \/ (main' \in {"wait", "waitexit"} /\ todo' = todo)
    BY <1>12, <2>2 DEF ClearEvent
  <2>4. CASE Proceed
    <3>1. main' = "next" /\ todo' \in Plans
      BY <2>1, <2>4, ProceedTypes
    <3> QED
      BY <2>1, <3>1 DEF MainTypes
  <2>5. CASE main' \in {"wait", "waitexit"} /\ todo' = todo
    BY <2>1, <2>5 DEF MainTypes
  <2> QED
    BY <2>3, <2>4, <2>5, Zenon
<1>13. CASE BuildEnds
  <2>1. UNCHANGED <<inv, machine, signals, crashes>> /\ main \in Starting
    BY <1>13 DEF BuildEnds, inputs, bounds, Starting
  <2>2. CASE Proceed /\ UNCHANGED <<instances, order, got>>
    BY <2>1, <2>2, ProceedTypes DEF MainTypes, Ending
  <2>3. CASE Fails
    BY <2>1, <2>3, FailsTypes DEF MainTypes, Ending
  <2> QED
    BY <1>13, <2>2, <2>3, Zenon DEF BuildEnds
<1>14. CASE StopNothing
  <2>1. /\ UNCHANGED <<inv, machine, signals, crashes, todo, got>>
        /\ main \in Ending /\ order # <<>> /\ Drop
    BY <1>14 DEF StopNothing, inputs, bounds, Ending, InstancesInv
  <2> QED
    BY <2>1, DropTypes DEF MainTypes, Ending
<1>15. CASE Terminate
  BY <1>15, SeqFacts
     DEF Terminate, Proceed, MainTypes, Ending, Plans, inputs, bounds, mainVars
<1>16. CASE Reap
  BY <1>16, SeqFacts
     DEF Reap, Proceed, MainTypes, Ending, Plans, inputs, bounds, mainVars
<1>17. CASE Join
  <2>1. /\ UNCHANGED <<inv, machine, signals, crashes, todo, got>>
        /\ main \in Ending /\ order # <<>> /\ Drop
    BY <1>17 DEF Join, inputs, bounds, Ending, InstancesInv
  <2> QED
    BY <2>1, DropTypes DEF MainTypes, Ending
<1>18. CASE Exit
  BY <1>18, SeqFacts
     DEF Exit, Proceed, MainTypes, Ending, Plans, inputs, bounds, mainVars
<1>19. CASE Signal
  <2>1. UNCHANGED <<inv, machine, crashes>> /\ signals' \in 0..MaxSignals
    BY <1>19, LaunchBounds DEF Signal, inputs, MainTypes
  <2> QED
    BY <1>19, <2>1, FailsTypes DEF Signal, MainTypes, Ending
<1>20. ASSUME NEW s \in Service, ReadLine(s) PROVE MainTypes'
  BY <1>20 DEF ReadLine, MainTypes, inputs, bounds, mainVars
<1>21. ASSUME NEW s \in Service, LineLogged(s) PROVE MainTypes'
  BY <1>21 DEF LineLogged, MainTypes, inputs, bounds, mainVars
<1>22. ASSUME NEW s \in Service, SetEvent(s) PROVE MainTypes'
  BY <1>22 DEF SetEvent, MainTypes, inputs, bounds, mainVars
<1>23. ASSUME NEW s \in Service, StreamEnds(s) PROVE MainTypes'
  BY <1>23 DEF StreamEnds, MainTypes, inputs, bounds, mainVars
<1>24. ASSUME NEW s \in Service, PrintReady(s) PROVE MainTypes'
  BY <1>24 DEF PrintReady, MainTypes, inputs, bounds, mainVars
<1>25. ASSUME NEW s \in Service, PrintOther(s) PROVE MainTypes'
  BY <1>25 DEF PrintOther, MainTypes, inputs, bounds, mainVars
<1>26. ASSUME NEW s \in Service, BuildExits(s) PROVE MainTypes'
  BY <1>26 DEF BuildExits, MainTypes, inputs, bounds, mainVars
<1>27. ASSUME NEW s \in Service, Crash(s) PROVE MainTypes'
  BY <1>27, LaunchBounds DEF Crash, MainTypes, inputs, mainVars
<1>28. ASSUME NEW s \in Service, StopsItself(s) PROVE MainTypes'
  BY <1>28 DEF StopsItself, MainTypes, inputs, bounds, mainVars
<1>30. CASE CreateMonitors
  BY <1>30, SeqFacts
     DEF CreateMonitors, Proceed, MainTypes, Ending, Plans, inputs, bounds, mainVars
<1>31. CASE Caught
  <2>1. /\ UNCHANGED <<inv, machine, signals>> /\ main \in Starting
        /\ crashes' \in 0..MaxCrashes
    BY <1>31, LaunchBounds DEF Caught, inputs, bounds, MainTypes, Starting
  <2>2. CASE Proceed /\ UNCHANGED <<instances, order, got>>
    BY <2>1, <2>2, ProceedTypes DEF MainTypes, Ending
  <2>3. CASE Fails
    BY <2>1, <2>3, FailsTypes DEF MainTypes, Ending
  <2> QED
    BY <1>31, <2>2, <2>3, Zenon DEF Caught, Proceed
<1>32. CASE JoinRaises
  <2>1. <<>> \in Seq(Service)
    OBVIOUS
  <2> QED
    BY <1>32, <2>1 DEF JoinRaises, MainTypes, inputs, bounds
<1>33. ASSUME NEW s \in Service, PutItem(s) PROVE MainTypes'
  BY <1>33 DEF PutItem, MainTypes, inputs, bounds, mainVars
<1>29. CASE UNCHANGED launchVars
  BY <1>29
     DEF launchVars, inputs, mainVars, bounds, childVars, handles, monVars,
         dataVars, MainTypes
<1> QED
  BY <1>1, <1>2, <1>3, <1>4, <1>5, <1>6, <1>7, <1>8, <1>9, <1>10, <1>11, <1>12,
     <1>13, <1>14, <1>15, <1>16, <1>17, <1>18, <1>19, <1>20, <1>21, <1>22,
     <1>23, <1>24, <1>25, <1>26, <1>27, <1>28, <1>29, <1>30, <1>31, <1>32, <1>33,
     Zenon
     DEF LaunchNext, MainStep, Monitor, Child

LEMMA ChildTypesStep ==
    ASSUME MainTypes, ChildTypes, MonitorTypes, FollowsPlan, InstancesInv,
           ProcessesInv, [LaunchNext]_launchVars
    PROVE  ChildTypes'
<1>1. CASE MakePlan
  BY <1>1
     DEF MakePlan, ChildTypes, MainTypes, Ending, Fails, Drop, childVars, handles
<1>2. CASE AllStarted
  BY <1>2
     DEF AllStarted, ChildTypes, MainTypes, Ending, Fails, Drop, childVars,
         handles
<1>3. CASE RefuseToStart
  BY <1>3
     DEF RefuseToStart, ChildTypes, MainTypes, Ending, Fails, Drop, childVars,
         handles
<1>4. CASE BeginLog
  BY <1>4
     DEF BeginLog, ChildTypes, MainTypes, Ending, Fails, Drop, childVars, handles
<1>5. CASE CreateInstance
  BY <1>5
     DEF CreateInstance, ChildTypes, MainTypes, Ending, Fails, Drop, childVars,
         handles
<1>6. CASE Fork
  BY <1>6 DEF Fork, ChildTypes, MainTypes, Ending, Fails, Drop, childVars, handles
<1>7. CASE ForkFails
  BY <1>7
     DEF ForkFails, ChildTypes, MainTypes, Ending, Fails, Drop, childVars, handles
<1>8. CASE KeepHandle
  <2>1. Current \in Service
    BY <1>8, AtWork DEF KeepHandle, Starting
  <2> QED
    BY <1>8, <2>1 DEF KeepHandle, ChildTypes, childVars, handles
<1>9. CASE StartMonitors
  BY <1>9
     DEF StartMonitors, ChildTypes, MainTypes, Ending, Fails, Drop, childVars,
         handles
<1>10. CASE EventSeen
  BY <1>10
     DEF EventSeen, ChildTypes, MainTypes, Ending, Fails, Drop, childVars, handles
<1>11. CASE DrainQueue
  BY <1>11
     DEF DrainQueue, ChildTypes, MainTypes, Ending, Fails, Drop, childVars,
         handles
<1>12. CASE ClearEvent
  BY <1>12
     DEF ClearEvent, ChildTypes, MainTypes, Ending, Fails, Drop, childVars,
         handles
<1>13. CASE BuildEnds
  <2>1. Current \in held
    BY <1>13, AtWork DEF BuildEnds, Starting, ProcessesInv
  <2> QED
    BY <1>13, <2>1 DEF BuildEnds, ChildTypes, childVars
<1>14. CASE StopNothing
  BY <1>14
     DEF StopNothing, ChildTypes, MainTypes, Ending, Fails, Drop, childVars,
         handles
<1>15. CASE Terminate
  BY <1>15
     DEF Terminate, ChildTypes, MainTypes, Ending, Fails, Drop, childVars, handles
<1>16. CASE Reap
  <2>1. Victim \in held
    BY <1>16 DEF Reap, InstancesInv
  <2> QED
    BY <1>16, <2>1 DEF Reap, ChildTypes
<1>17. CASE Join
  BY <1>17
     DEF Join, ChildTypes, MainTypes, Ending, Fails, Drop, childVars, handles
<1>18. CASE Exit
  BY <1>18
     DEF Exit, ChildTypes, MainTypes, Ending, Fails, Drop, childVars, handles
<1>19. CASE Signal
  BY <1>19
     DEF Signal, ChildTypes, MainTypes, Ending, Fails, Drop, childVars, handles
<1>20. ASSUME NEW s \in Service, ReadLine(s) PROVE ChildTypes'
  BY <1>20
     DEF ReadLine, ChildTypes, MainTypes, Ending, Fails, Drop, childVars, handles
<1>21. ASSUME NEW s \in Service, LineLogged(s) PROVE ChildTypes'
  BY <1>21
     DEF LineLogged, ChildTypes, MainTypes, Ending, Fails, Drop, childVars,
         handles
<1>22. ASSUME NEW s \in Service, SetEvent(s) PROVE ChildTypes'
  BY <1>22
     DEF SetEvent, ChildTypes, MainTypes, Ending, Fails, Drop, childVars, handles
<1>23. ASSUME NEW s \in Service, StreamEnds(s) PROVE ChildTypes'
  BY <1>23
     DEF StreamEnds, ChildTypes, MainTypes, Ending, Fails, Drop, childVars,
         handles
<1>24. ASSUME NEW s \in Service, PrintReady(s) PROVE ChildTypes'
  <2>1. Start(s).awaits \in {-1, 0, 1, 2} /\ ready[s] \in 0..2 /\ ready[s] < Start(s).awaits
    BY <1>24, StartFacts DEF PrintReady, ChildTypes
  <2>2. ready[s] + 1 \in 0..2
    BY <2>1
  <2>3. Append(pipe[s], "ready") \in Seq({"ready", "other"})
    BY DEF ChildTypes
  <2> QED
    BY <1>24, <2>2, <2>3 DEF PrintReady, ChildTypes, handles
<1>25. ASSUME NEW s \in Service, PrintOther(s) PROVE ChildTypes'
  BY <1>25
     DEF PrintOther, ChildTypes, MainTypes, Ending, Fails, Drop, childVars,
         handles
<1>26. ASSUME NEW s \in Service, BuildExits(s) PROVE ChildTypes'
  BY <1>26
     DEF BuildExits, ChildTypes, MainTypes, Ending, Fails, Drop, childVars,
         handles
<1>27. ASSUME NEW s \in Service, Crash(s) PROVE ChildTypes'
  BY <1>27
     DEF Crash, ChildTypes, MainTypes, Ending, Fails, Drop, childVars, handles
<1>28. ASSUME NEW s \in Service, StopsItself(s) PROVE ChildTypes'
  BY <1>28
     DEF StopsItself, ChildTypes, MainTypes, Ending, Fails, Drop, childVars,
         handles
<1>30. CASE CreateMonitors
  BY <1>30
     DEF CreateMonitors, ChildTypes, MainTypes, Ending, Fails, Drop, childVars, handles
<1>31. CASE Caught
  BY <1>31
     DEF Caught, ChildTypes, MainTypes, Ending, Fails, Drop, childVars, handles
<1>32. CASE JoinRaises
  BY <1>32
     DEF JoinRaises, ChildTypes, MainTypes, Ending, Fails, Drop, childVars, handles
<1>33. ASSUME NEW s \in Service, PutItem(s) PROVE ChildTypes'
  BY <1>33
     DEF PutItem, ChildTypes, MainTypes, Ending, Fails, Drop, childVars, handles
<1>29. CASE UNCHANGED launchVars
  BY <1>29
     DEF launchVars, inputs, mainVars, bounds, childVars, handles, monVars,
         dataVars, ChildTypes
<1> QED
  BY <1>1, <1>2, <1>3, <1>4, <1>5, <1>6, <1>7, <1>8, <1>9, <1>10, <1>11, <1>12,
     <1>13, <1>14, <1>15, <1>16, <1>17, <1>18, <1>19, <1>20, <1>21, <1>22,
     <1>23, <1>24, <1>25, <1>26, <1>27, <1>28, <1>29, <1>30, <1>31, <1>32, <1>33,
     Zenon
     DEF LaunchNext, MainStep, Monitor, Child

LEMMA MonitorTypesStep ==
    ASSUME MainTypes, ChildTypes, MonitorTypes, FollowsPlan, InstancesInv,
           [LaunchNext]_launchVars
    PROVE  MonitorTypes'
<1>1. CASE MakePlan
  BY <1>1 DEF MakePlan, MonitorTypes, MainTypes, monVars, dataVars, locks, Free,
         Main
<1>2. CASE AllStarted
  BY <1>2 DEF AllStarted, MonitorTypes, MainTypes, monVars, dataVars, locks, Free,
         Main
<1>3. CASE RefuseToStart
  BY <1>3
     DEF RefuseToStart, MonitorTypes, MainTypes, monVars, dataVars, locks, Free,
         Main
<1>4. CASE BeginLog
  BY <1>4 DEF BeginLog, MonitorTypes, MainTypes, monVars, dataVars, locks, Free,
         Main
<1>5. CASE CreateInstance
  BY <1>5
     DEF CreateInstance, MonitorTypes, MainTypes, monVars, dataVars, locks, Free,
         Main
<1>6. CASE Fork
  BY <1>6 DEF Fork, MonitorTypes, MainTypes, monVars, dataVars, locks, Free,
         Main
<1>7. CASE ForkFails
  BY <1>7 DEF ForkFails, MonitorTypes, MainTypes, monVars, dataVars, locks, Free,
         Main
<1>8. CASE KeepHandle
  BY <1>8 DEF KeepHandle, MonitorTypes, MainTypes, monVars, dataVars, locks, Free,
         Main
<1>9. CASE StartMonitors
  BY <1>9
     DEF StartMonitors, MonitorTypes, MainTypes, monVars, dataVars, locks, Free,
         Main
<1>10. CASE EventSeen
  BY <1>10 DEF EventSeen, MonitorTypes, MainTypes, monVars, dataVars, locks, Free,
         Main
<1>11. CASE DrainQueue
  BY <1>11 DEF DrainQueue, MonitorTypes, MainTypes, monVars, dataVars, locks, Free,
         Main
<1>12. CASE ClearEvent
  BY <1>12 DEF ClearEvent, MonitorTypes, MainTypes, monVars, dataVars, locks, Free,
         Main
<1>13. CASE BuildEnds
  BY <1>13 DEF BuildEnds, MonitorTypes, MainTypes, monVars, dataVars, locks, Free,
         Main
<1>14. CASE StopNothing
  BY <1>14 DEF StopNothing, MonitorTypes, MainTypes, monVars, dataVars, locks, Free,
         Main
<1>15. CASE Terminate
  BY <1>15 DEF Terminate, MonitorTypes, MainTypes, monVars, dataVars, locks, Free,
         Main
<1>16. CASE Reap
  BY <1>16 DEF Reap, MonitorTypes, MainTypes, monVars, dataVars, locks, Free,
         Main
<1>17. CASE Join
  BY <1>17 DEF Join, MonitorTypes, MainTypes, monVars, dataVars, locks, Free,
         Main
<1>18. CASE Exit
  BY <1>18 DEF Exit, MonitorTypes, MainTypes, monVars, dataVars, locks, Free,
         Main
<1>19. CASE Signal
  BY <1>19 DEF Signal, Gripped, MonitorTypes, MainTypes, monVars, dataVars, locks, Free,
         Main
<1>20. ASSUME NEW s \in Service, ReadLine(s) PROVE MonitorTypes'
  <2>1. Head(pipe[s]) \in {"ready", "other"}
    BY <1>20 DEF ReadLine, ChildTypes
  <2> QED
    BY <1>20, <2>1 DEF ReadLine, MonitorTypes, dataVars
<1>21. ASSUME NEW s \in Service, LineLogged(s) PROVE MonitorTypes'
  BY <1>21 DEF LineLogged, MonitorTypes, dataVars, Free
<1>22. ASSUME NEW s \in Service, SetEvent(s) PROVE MonitorTypes'
  <2> DEFINE enough == hits'[s] >= Start(s).awaits
  <2>1. enough \in BOOLEAN
    OBVIOUS
  <2>2. stopped' = [stopped EXCEPT ![s] = enough]
    BY <1>22 DEF SetEvent
  <2> HIDE DEF enough
  <2>3. stopped' \in [Service -> BOOLEAN]
    BY <2>1, <2>2, Zenon DEF MonitorTypes
  <2>4. hits[s] + 1 \in Nat
    BY DEF MonitorTypes
  <2>5. hits' \in [Service -> Nat]
    BY <1>22, <2>4 DEF SetEvent, MonitorTypes
  <2> QED
    BY <1>22, <2>3, <2>5 DEF SetEvent, MonitorTypes, locks
<1>23. ASSUME NEW s \in Service, StreamEnds(s) PROVE MonitorTypes'
  BY <1>23 DEF StreamEnds, MonitorTypes, MainTypes, monVars, dataVars, locks, Free,
         Main
<1>24. ASSUME NEW s \in Service, PrintReady(s) PROVE MonitorTypes'
  BY <1>24 DEF PrintReady, MonitorTypes, MainTypes, monVars, dataVars, locks, Free,
         Main
<1>25. ASSUME NEW s \in Service, PrintOther(s) PROVE MonitorTypes'
  BY <1>25 DEF PrintOther, MonitorTypes, MainTypes, monVars, dataVars, locks, Free,
         Main
<1>26. ASSUME NEW s \in Service, BuildExits(s) PROVE MonitorTypes'
  BY <1>26 DEF BuildExits, MonitorTypes, MainTypes, monVars, dataVars, locks, Free,
         Main
<1>27. ASSUME NEW s \in Service, Crash(s) PROVE MonitorTypes'
  BY <1>27 DEF Crash, MonitorTypes, MainTypes, monVars, dataVars, locks, Free,
         Main
<1>28. ASSUME NEW s \in Service, StopsItself(s) PROVE MonitorTypes'
  BY <1>28 DEF StopsItself, MonitorTypes, MainTypes, monVars, dataVars, locks, Free,
         Main
<1>30. CASE CreateMonitors
  BY <1>30
     DEF CreateMonitors, MonitorTypes, MainTypes, monVars, dataVars, locks, Free,
         Main
<1>31. CASE Caught
  BY <1>31 DEF Caught, MonitorTypes, MainTypes, monVars, dataVars, locks, Free,
         Main
<1>32. CASE JoinRaises
  BY <1>32 DEF JoinRaises, MonitorTypes, MainTypes, monVars, dataVars, locks, Free,
         Main
<1>33. ASSUME NEW s \in Service, PutItem(s) PROVE MonitorTypes'
  <2>1. queue[s] + 1 \in Nat
    BY DEF MonitorTypes
  <2> QED
    BY <1>33, <2>1 DEF PutItem, MonitorTypes, locks
<1>29. CASE UNCHANGED launchVars
  BY <1>29
     DEF launchVars, inputs, mainVars, bounds, childVars, handles, monVars,
         dataVars, locks, MonitorTypes
<1> QED
  BY <1>1, <1>2, <1>3, <1>4, <1>5, <1>6, <1>7, <1>8, <1>9, <1>10, <1>11, <1>12,
     <1>13, <1>14, <1>15, <1>16, <1>17, <1>18, <1>19, <1>20, <1>21, <1>22,
     <1>23, <1>24, <1>25, <1>26, <1>27, <1>28, <1>29, <1>30, <1>31, <1>32, <1>33,
     Zenon
     DEF LaunchNext, MainStep, Monitor, Child

-----------------------------------------------------------------------------
\* Where the main thread is in the plan.

\* A service is at one place of a plan.
LEMMA PlanFacts ==
    ASSUME MainTypes
    PROVE  /\ ThePlan \in Plans /\ Len(ThePlan) \in Nat /\ Len(todo) \in Nat /\ todo \in Plans
           /\ Done \in Int
           /\ \A i, j \in 1..Len(ThePlan) :
                  ThePlan[i] = ThePlan[j] /\ ThePlan[i] \in Service => i = j
<1>1. Ascends(ThePlan, 1, 10)
  BY PlanAscends DEF MainTypes, ThePlan
<1>2. /\ ThePlan \in Plans /\ Len(ThePlan) \in Nat /\ Len(todo) \in Nat
  BY <1>1 DEF MainTypes, Plans, Ascends
<1>3. ASSUME NEW i \in 1..Len(ThePlan), NEW j \in 1..Len(ThePlan),
             ThePlan[i] = ThePlan[j], ThePlan[i] \in Service
      PROVE  i = j
  <2>1. Rank[ThePlan[i]] \in Int
    BY <1>3, RankType
  <2>2. ~ (i < j)
    BY <1>1, <1>3, <2>1 DEF Ascends
  <2>3. ~ (j < i)
    BY <1>1, <1>3, <2>1 DEF Ascends
  <2> QED
    BY <2>2, <2>3
<1> QED
  BY <1>2, <1>3 DEF Done, MainTypes

\* The main thread stays at its service, or gives up.
LEMMA FollowsAtOnePlace ==
    ASSUME MainTypes, FollowsPlan, UNCHANGED <<inv, machine, todo>>,
           main = "plan" <=> main' = "plan",
           \A s \in Service : child'[s] # "none" => child[s] # "none",
           \A i \in 1..Len(instances') :
               \E k \in 1..Len(instances) : instances'[i] = instances[k],
           main' \in Unplanned => main \in Unplanned,
           main' \in Unplanned \cup {"fork"} => main \in Unplanned \cup {"fork"},
           main' \in Starting \cup {"logging"} =>
               main \in Starting \cup {"logging"} \/ (todo # <<>> /\ Current \in Service)
    PROVE  FollowsPlan'
<1>1. ThePlan' = ThePlan
  BY DEF ThePlan
<1>2. Done' = Done
  BY <1>1 DEF Done
<1>3. Current' = Current
  BY DEF Current
<1>4. ASSUME NEW s, Reached(s, Unplanned) PROVE Reached(s, Unplanned)'
  BY <1>1, <1>2, <1>4 DEF Reached
<1>5. ASSUME NEW s, Reached(s, Unplanned \cup {"fork"})
      PROVE  Reached(s, Unplanned \cup {"fork"})'
  BY <1>1, <1>2, <1>5 DEF Reached
<1>6. main' # "plan" => /\ Len(todo') <= Len(ThePlan')
                        /\ \A i \in 1..Len(todo') : todo'[i] = ThePlan'[Done' + i]
  BY <1>1, <1>2 DEF FollowsPlan
<1>7. main' \in Starting \cup {"logging"} => todo' # <<>> /\ Current' \in Service
  BY <1>3 DEF FollowsPlan
<1>8. \A i \in 1..Len(instances') : Reached(instances[i], Unplanned)'
  BY <1>4 DEF FollowsPlan
<1>9. \A s \in Service : child'[s] # "none" => Reached(s, Unplanned \cup {"fork"})'
  BY <1>5, Zenon DEF FollowsPlan
<1> QED
  BY <1>6, <1>7, <1>8, <1>9, Zenon DEF FollowsPlan

\* The service at work on is the first one not dealt with.
LEMMA AtPlace ==
    ASSUME MainTypes, FollowsPlan, main \in Starting \cup {"logging"}
    PROVE  Done \in Nat /\ Done + 1 \in 1..Len(ThePlan) /\ ThePlan[Done + 1] = Current
<1>1. main # "plan" /\ Len(todo) \in Nat /\ Len(todo) >= 1 /\ Current = todo[1]
  BY AtWork DEF Starting, Collecting
<1>2. /\ Len(todo) <= Len(ThePlan) /\ todo[1] = ThePlan[Done + 1]
  BY <1>1 DEF FollowsPlan
<1>3. Done = Len(ThePlan) - Len(todo) /\ Len(ThePlan) \in Nat
  BY <1>1, PlanFacts DEF Done
<1> QED
  BY <1>1, <1>2, <1>3

\* The main thread goes on to the next service.
LEMMA NextPlace ==
    ASSUME MainTypes, FollowsPlan, main \in Starting, Proceed,
           UNCHANGED <<inv, machine>>
    PROVE  /\ ThePlan' = ThePlan /\ Done' = Done + 1 /\ Done \in Nat
           /\ Done + 1 \in 1..Len(ThePlan) /\ ThePlan[Done + 1] = Current
           /\ Len(todo') <= Len(ThePlan)
           /\ \A i \in 1..Len(todo') : todo'[i] = ThePlan'[Done' + i]
<1>1. ThePlan' = ThePlan
  BY DEF ThePlan
<1>2. /\ Len(todo) \in Nat /\ Len(todo) >= 1 /\ todo' = Tail(todo) /\ main' = "next"
      /\ Len(todo') = Len(todo) - 1
      /\ \A i \in 1..Len(todo) - 1 : todo'[i] = todo[i + 1]
      /\ Current = todo[1]
  BY AtWork DEF Proceed
<1>3. /\ main # "plan" /\ Len(todo) <= Len(ThePlan)
      /\ \A i \in 1..Len(todo) : todo[i] = ThePlan[Done + i]
  BY DEF FollowsPlan, Starting, Collecting
<1>4. Done = Len(ThePlan) - Len(todo) /\ Done' = Len(ThePlan) - Len(todo') /\ Len(ThePlan) \in Nat
  BY <1>1, <1>2, <1>3, PlanFacts DEF Done
<1>5. Done' = Done + 1 /\ Done \in Nat /\ Done + 1 \in 1..Len(ThePlan)
  BY <1>2, <1>3, <1>4
<1>6. ThePlan[Done + 1] = Current
  BY <1>2, <1>3
<1>7. ASSUME NEW i \in 1..Len(todo') PROVE todo'[i] = ThePlan'[Done' + i]
  <2>1. i + 1 \in 1..Len(todo) /\ todo'[i] = todo[i + 1]
    BY <1>2
  <2>2. todo[i + 1] = ThePlan[Done + (i + 1)]
    BY <1>3, <2>1
  <2>3. Done + (i + 1) = Done' + i
    BY <1>5, <2>1
  <2> QED
    BY <1>1, <2>1, <2>2, <2>3
<1>8. Len(todo') <= Len(ThePlan)
  BY <1>2, <1>3, <1>4
<1> QED
  BY <1>1, <1>5, <1>6, <1>7, <1>8

\* ... and what it leaves behind was reached.
LEMMA FollowsOn ==
    ASSUME MainTypes, FollowsPlan, main \in Starting, Proceed,
           UNCHANGED <<inv, machine, instances, child>>
    PROVE  FollowsPlan'
<1>1. /\ ThePlan' = ThePlan /\ Done' = Done + 1 /\ Done \in Nat
      /\ Len(todo') <= Len(ThePlan)
      /\ \A i \in 1..Len(todo') : todo'[i] = ThePlan'[Done' + i]
  BY NextPlace
<1>2. main' = "next"
  BY DEF Proceed
<1>3. ASSUME NEW s, NEW before, Reached(s, before), NEW after
      PROVE  \E j \in 1..Len(ThePlan') :
                 ThePlan'[j] = s /\ (j <= Done' \/ (j = Done' + 1 /\ main' \notin after))
  BY <1>1, <1>3, PlanFacts DEF Reached
<1>4. \A i \in 1..Len(instances') : Reached(instances[i], Unplanned)'
  BY <1>3 DEF FollowsPlan, Reached
<1>5. \A s \in Service : child'[s] # "none" => Reached(s, Unplanned \cup {"fork"})'
  BY <1>3 DEF FollowsPlan, Reached
<1> QED
  BY <1>1, <1>2, <1>4, <1>5 DEF FollowsPlan, Starting, Collecting

\* Every step follows the plan.
LEMMA FollowsStep ==
    ASSUME MainTypes, ChildTypes, MonitorTypes, FollowsPlan, InstancesInv,
           ProcessesInv, MonitorsInv, [LaunchNext]_launchVars
    PROVE  FollowsPlan'
<1>1. CASE MakePlan
  <2>1. /\ UNCHANGED <<inv, machine, instances, child>> /\ main = "plan" /\ main' \in {"next", "planned"}
        /\ todo' = Plan(inv, machine)
    BY <1>1 DEF MakePlan, inputs, childVars
  <2>2. ThePlan' = ThePlan /\ todo' = ThePlan /\ Done = 0 /\ Done' = 0
    BY <2>1, PlanFacts DEF ThePlan, Done
  <2>3. \A s, before : "plan" \in before => ~ Reached(s, before)
    BY <2>1, <2>2, PlanFacts DEF Reached
  <2>4. \A s \in Service : child[s] = "none"
    BY <2>3 DEF FollowsPlan, Unplanned
  <2>5. \A i \in 1..Len(instances) : FALSE
    BY <2>3 DEF FollowsPlan, Unplanned
  <2>6. \A i \in 1..Len(todo') : todo'[i] = ThePlan'[Done' + i]
    BY <2>2, PlanFacts
  <2> QED
    BY <2>1, <2>2, <2>4, <2>5, <2>6, PlanFacts
       DEF FollowsPlan, Starting, Collecting
<1>2. CASE AllStarted
  <2>1. /\ UNCHANGED <<inv, machine, todo>> /\ main # "plan" /\ main' # "plan"
        /\ \A s \in Service : child'[s] # "none" => child[s] # "none"
        /\ UNCHANGED instances
        /\ main' \notin Unplanned \cup {"fork"}
        /\ main' \in Starting \cup {"logging"} => main \in Starting \cup {"logging"}
    BY <1>2
       DEF AllStarted, Fails, ChildTypes, inputs, bounds, mainVars, childVars,
           handles, Unplanned, Starting, Collecting, Ending
  <2> QED
    BY <2>1, FollowsAtOnePlace
<1>3. CASE RefuseToStart
  <2>1. /\ UNCHANGED <<inv, machine, todo>> /\ main # "plan" /\ main' # "plan"
        /\ \A s \in Service : child'[s] # "none" => child[s] # "none"
        /\ UNCHANGED instances
        /\ main' \notin Unplanned \cup {"fork"}
        /\ main' \in Starting \cup {"logging"} => main \in Starting \cup {"logging"}
    BY <1>3
       DEF RefuseToStart, Fails, ChildTypes, inputs, bounds, mainVars,
           childVars, handles, Unplanned, Starting, Collecting, Ending
  <2> QED
    BY <2>1, FollowsAtOnePlace
<1>4. CASE BeginLog
  <2>1. /\ UNCHANGED <<inv, machine, todo, instances, child>>
        /\ main = "next" /\ main' = "logging" /\ todo # <<>> /\ Current # "raise"
    BY <1>4 DEF BeginLog, inputs, childVars
  <2>2. ThePlan' = ThePlan /\ Done' = Done /\ Current' = Current
    BY <2>1 DEF ThePlan, Done, Current
  <2>3. Current \in Service
    BY <2>1 DEF MainTypes, Plans, Current
  <2>4. \A s : Reached(s, Unplanned)' <=> Reached(s, Unplanned)
    BY <2>1, <2>2 DEF Reached, Unplanned
  <2>5. \A s : Reached(s, Unplanned \cup {"fork"})' <=> Reached(s, Unplanned \cup {"fork"})
    BY <2>1, <2>2 DEF Reached, Unplanned
  <2> QED
    BY <2>1, <2>2, <2>3, <2>4, <2>5 DEF FollowsPlan
<1>5. CASE CreateInstance
  <2>1. /\ UNCHANGED <<inv, machine, todo, child>> /\ main = "logging" /\ main' = "fork"
        /\ instances' = Append(instances, Current)
    BY <1>5 DEF CreateInstance, inputs, childVars
  <2>2. ThePlan' = ThePlan /\ Done' = Done /\ Current' = Current
    BY <2>1 DEF ThePlan, Done, Current
  <2>3. /\ Current \in Service /\ todo # <<>> /\ ThePlan[Done + 1] = Current
        /\ Done + 1 \in 1..Len(ThePlan)
    BY <2>1, AtWork, AtPlace
  <2>4. \A s : Reached(s, Unplanned) => Reached(s, Unplanned)'
    BY <2>1, <2>2 DEF Reached, Unplanned
  <2>5. \A s : Reached(s, Unplanned \cup {"fork"}) => Reached(s, Unplanned \cup {"fork"})'
    BY <2>1, <2>2 DEF Reached, Unplanned
  <2>6. Reached(Current, Unplanned)'
    BY <2>1, <2>2, <2>3 DEF Reached, Unplanned
  <2>7. \A i \in 1..Len(instances') : Reached(instances[i], Unplanned)'
    BY <2>1, <2>2, <2>3, <2>4, <2>6 DEF FollowsPlan, MainTypes
  <2> QED
    BY <2>1, <2>2, <2>3, <2>5, <2>7 DEF FollowsPlan
<1>6. CASE Fork
  <2>1. /\ UNCHANGED <<inv, machine, todo, instances>> /\ main = "fork" /\ main' = "forked"
        /\ child' = [child EXCEPT ![Current] = "running"]
    BY <1>6 DEF Fork, inputs
  <2>2. ThePlan' = ThePlan /\ Done' = Done /\ Current' = Current
    BY <2>1 DEF ThePlan, Done, Current
  <2>3. /\ Current \in Service /\ todo # <<>> /\ ThePlan[Done + 1] = Current
        /\ Done + 1 \in 1..Len(ThePlan)
    BY <2>1, AtWork, AtPlace DEF Starting
  <2>4. \A s : Reached(s, Unplanned) => Reached(s, Unplanned)'
    BY <2>1, <2>2 DEF Reached, Unplanned
  <2>5. \A s : Reached(s, Unplanned \cup {"fork"}) => Reached(s, Unplanned \cup {"fork"})'
    BY <2>1, <2>2 DEF Reached, Unplanned
  <2>6. \A s : s = Current => Reached(s, Unplanned \cup {"fork"})'
    BY <2>1, <2>2, <2>3 DEF Reached, Unplanned
  <2>7. \A s \in Service : child'[s] # "none" => Reached(s, Unplanned \cup {"fork"})'
    BY <2>1, <2>5, <2>6 DEF FollowsPlan, ChildTypes
  <2> QED
    BY <2>1, <2>2, <2>3, <2>4, <2>7 DEF FollowsPlan
<1>7. CASE ForkFails
  <2>1. /\ UNCHANGED <<inv, machine, todo>> /\ main # "plan" /\ main' # "plan"
        /\ \A s \in Service : child'[s] # "none" => child[s] # "none"
        /\ UNCHANGED instances
        /\ main' \notin Unplanned \cup {"fork"}
        /\ main' \in Starting \cup {"logging"} => main \in Starting \cup {"logging"}
    BY <1>7
       DEF ForkFails, Fails, ChildTypes, inputs, bounds, mainVars, childVars,
           handles, Unplanned, Starting, Collecting, Ending
  <2> QED
    BY <2>1, FollowsAtOnePlace
<1>8. CASE KeepHandle
  <2>1. /\ UNCHANGED <<inv, machine, todo>> /\ main # "plan" /\ main' # "plan"
        /\ \A s \in Service : child'[s] # "none" => child[s] # "none"
        /\ UNCHANGED instances
        /\ main' \notin Unplanned \cup {"fork"}
        /\ main' \in Starting \cup {"logging"} => main \in Starting \cup {"logging"}
    BY <1>8
       DEF KeepHandle, Fails, ChildTypes, inputs, bounds, mainVars, childVars,
           handles, Unplanned, Starting, Collecting, Ending
  <2> QED
    BY <2>1, FollowsAtOnePlace
<1>9. CASE StartMonitors
  <2>1. /\ UNCHANGED <<inv, machine, child>> /\ main \in Starting
    BY <1>9 DEF StartMonitors, inputs, childVars, Starting, Collecting
  <2>2. CASE Proceed /\ UNCHANGED instances
    BY <2>1, <2>2, FollowsOn
  <2>3. CASE UNCHANGED <<todo, instances>> /\ main' \in {"wait", "waitexit", "stopping"}
    BY <2>1, <2>3, FollowsAtOnePlace DEF Unplanned, Starting, Collecting
  <2> QED
    BY <1>9, <2>2, <2>3 DEF StartMonitors, Fails, Proceed
<1>10. CASE EventSeen
  <2>1. /\ UNCHANGED <<inv, machine, todo>> /\ main # "plan" /\ main' # "plan"
        /\ \A s \in Service : child'[s] # "none" => child[s] # "none"
        /\ UNCHANGED instances
        /\ main' \notin Unplanned \cup {"fork"}
        /\ main' \in Starting \cup {"logging"} => main \in Starting \cup {"logging"}
    BY <1>10
       DEF EventSeen, Fails, ChildTypes, inputs, bounds, mainVars, childVars,
           handles, Unplanned, Starting, Collecting, Ending
  <2> QED
    BY <2>1, FollowsAtOnePlace
<1>11. CASE DrainQueue
  <2>1. /\ UNCHANGED <<inv, machine, todo>> /\ main # "plan" /\ main' # "plan"
        /\ \A s \in Service : child'[s] # "none" => child[s] # "none"
        /\ UNCHANGED instances
        /\ main' \notin Unplanned \cup {"fork"}
        /\ main' \in Starting \cup {"logging"} => main \in Starting \cup {"logging"}
    BY <1>11
       DEF DrainQueue, Fails, ChildTypes, inputs, bounds, mainVars, childVars,
           handles, Unplanned, Starting, Collecting, Ending
  <2> QED
    BY <2>1, FollowsAtOnePlace
<1>12. CASE ClearEvent
  <2>1. /\ UNCHANGED <<inv, machine, child>> /\ main \in Starting
    BY <1>12 DEF ClearEvent, inputs, childVars, Starting, Collecting
  <2>2. CASE Proceed /\ UNCHANGED instances
    BY <2>1, <2>2, FollowsOn
  <2>3. CASE UNCHANGED <<todo, instances>> /\ main' \in {"wait", "waitexit", "stopping"}
    BY <2>1, <2>3, FollowsAtOnePlace DEF Unplanned, Starting, Collecting
  <2> QED
    BY <1>12, <2>2, <2>3 DEF ClearEvent, Fails, Proceed
<1>13. CASE BuildEnds
  <2>1. /\ UNCHANGED <<inv, machine, child>> /\ main \in Starting
    BY <1>13 DEF BuildEnds, inputs, childVars, Starting, Collecting
  <2>2. CASE Proceed /\ UNCHANGED instances
    BY <2>1, <2>2, FollowsOn
  <2>3. CASE UNCHANGED <<todo, instances>> /\ main' \in {"wait", "waitexit", "stopping"}
    BY <2>1, <2>3, FollowsAtOnePlace DEF Unplanned, Starting, Collecting
  <2> QED
    BY <1>13, <2>2, <2>3 DEF BuildEnds, Fails, Proceed
<1>14. CASE StopNothing
  <2>1. /\ UNCHANGED <<inv, machine, todo, child>> /\ main # "plan"
        /\ main \in Ending /\ order # <<>> /\ Drop
    BY <1>14 DEF StopNothing, inputs, bounds, Ending, InstancesInv, childVars
  <2>2. /\ main' = "stopping"
        /\ \A i \in 1..Len(instances') : i \in 1..Len(instances) /\ instances'[i] = instances[i]
    BY <2>1, DropTypes DEF MainTypes
  <2> QED
    BY <2>1, <2>2, FollowsAtOnePlace DEF Unplanned, Starting, Collecting
<1>15. CASE Terminate
  <2>1. /\ UNCHANGED <<inv, machine, todo>> /\ main # "plan" /\ main' # "plan"
        /\ \A s \in Service : child'[s] # "none" => child[s] # "none"
        /\ UNCHANGED instances
        /\ main' \notin Unplanned \cup {"fork"}
        /\ main' \in Starting \cup {"logging"} => main \in Starting \cup {"logging"}
    BY <1>15
       DEF Terminate, Fails, ChildTypes, inputs, bounds, mainVars, childVars,
           handles, Unplanned, Starting, Collecting, Ending
  <2> QED
    BY <2>1, FollowsAtOnePlace
<1>16. CASE Reap
  <2>1. /\ UNCHANGED <<inv, machine, todo>> /\ main # "plan" /\ main' # "plan"
        /\ \A s \in Service : child'[s] # "none" => child[s] # "none"
        /\ UNCHANGED instances
        /\ main' \notin Unplanned \cup {"fork"}
        /\ main' \in Starting \cup {"logging"} => main \in Starting \cup {"logging"}
    BY <1>16
       DEF Reap, InstancesInv, ProcessesInv, Fails, ChildTypes, inputs, bounds,
           mainVars, childVars, handles, Unplanned, Starting, Collecting, Ending
  <2> QED
    BY <2>1, FollowsAtOnePlace
<1>17. CASE Join
  <2>1. /\ UNCHANGED <<inv, machine, todo, child>> /\ main # "plan"
        /\ main \in Ending /\ order # <<>> /\ Drop
    BY <1>17 DEF Join, inputs, bounds, Ending, InstancesInv, childVars
  <2>2. /\ main' = "stopping"
        /\ \A i \in 1..Len(instances') : i \in 1..Len(instances) /\ instances'[i] = instances[i]
    BY <2>1, DropTypes DEF MainTypes
  <2> QED
    BY <2>1, <2>2, FollowsAtOnePlace DEF Unplanned, Starting, Collecting
<1>18. CASE Exit
  <2>1. /\ UNCHANGED <<inv, machine, todo>> /\ main # "plan" /\ main' # "plan"
        /\ \A s \in Service : child'[s] # "none" => child[s] # "none"
        /\ UNCHANGED instances
        /\ main' \notin Unplanned \cup {"fork"}
        /\ main' \in Starting \cup {"logging"} => main \in Starting \cup {"logging"}
    BY <1>18
       DEF Exit, Fails, ChildTypes, inputs, bounds, mainVars, childVars,
           handles, Unplanned, Starting, Collecting, Ending
  <2> QED
    BY <2>1, FollowsAtOnePlace
<1>19. CASE Signal
  <2>1. /\ UNCHANGED <<inv, machine, todo>> /\ main # "plan" /\ main' # "plan"
        /\ \A s \in Service : child'[s] # "none" => child[s] # "none"
        /\ UNCHANGED instances
        /\ main' \notin Unplanned \cup {"fork"}
        /\ main' \in Starting \cup {"logging"} => main \in Starting \cup {"logging"}
    BY <1>19
       DEF Signal, Fails, ChildTypes, inputs, bounds, mainVars, childVars,
           handles, Unplanned, Starting, Collecting, Ending
  <2> QED
    BY <2>1, FollowsAtOnePlace
<1>20. ASSUME NEW s \in Service, ReadLine(s) PROVE FollowsPlan'
  <2>1. /\ UNCHANGED <<inv, machine, todo, main, instances>>
        /\ \A r \in Service : child'[r] # "none" => child[r] # "none"
    BY <1>20 DEF ReadLine, inputs, mainVars, childVars, ChildTypes
  <2> QED
    BY <2>1, FollowsAtOnePlace
<1>21. ASSUME NEW s \in Service, LineLogged(s) PROVE FollowsPlan'
  <2>1. /\ UNCHANGED <<inv, machine, todo, main, instances>>
        /\ \A r \in Service : child'[r] # "none" => child[r] # "none"
    BY <1>21 DEF LineLogged, inputs, mainVars, childVars, ChildTypes
  <2> QED
    BY <2>1, FollowsAtOnePlace
<1>22. ASSUME NEW s \in Service, SetEvent(s) PROVE FollowsPlan'
  <2>1. /\ UNCHANGED <<inv, machine, todo, main, instances>>
        /\ \A r \in Service : child'[r] # "none" => child[r] # "none"
    BY <1>22 DEF SetEvent, inputs, mainVars, childVars, ChildTypes
  <2> QED
    BY <2>1, FollowsAtOnePlace
<1>23. ASSUME NEW s \in Service, StreamEnds(s) PROVE FollowsPlan'
  <2>1. /\ UNCHANGED <<inv, machine, todo, main, instances>>
        /\ \A r \in Service : child'[r] # "none" => child[r] # "none"
    BY <1>23 DEF StreamEnds, inputs, mainVars, childVars, ChildTypes
  <2> QED
    BY <2>1, FollowsAtOnePlace
<1>24. ASSUME NEW s \in Service, PrintReady(s) PROVE FollowsPlan'
  <2>1. /\ UNCHANGED <<inv, machine, todo, main, instances>>
        /\ \A r \in Service : child'[r] # "none" => child[r] # "none"
    BY <1>24 DEF PrintReady, inputs, mainVars, childVars, ChildTypes
  <2> QED
    BY <2>1, FollowsAtOnePlace
<1>25. ASSUME NEW s \in Service, PrintOther(s) PROVE FollowsPlan'
  <2>1. /\ UNCHANGED <<inv, machine, todo, main, instances>>
        /\ \A r \in Service : child'[r] # "none" => child[r] # "none"
    BY <1>25 DEF PrintOther, inputs, mainVars, childVars, ChildTypes
  <2> QED
    BY <2>1, FollowsAtOnePlace
<1>26. ASSUME NEW s \in Service, BuildExits(s) PROVE FollowsPlan'
  <2>1. /\ UNCHANGED <<inv, machine, todo, main, instances>>
        /\ \A r \in Service : child'[r] # "none" => child[r] # "none"
    BY <1>26 DEF BuildExits, inputs, mainVars, childVars, ChildTypes
  <2> QED
    BY <2>1, FollowsAtOnePlace
<1>27. ASSUME NEW s \in Service, Crash(s) PROVE FollowsPlan'
  <2>1. /\ UNCHANGED <<inv, machine, todo, main, instances>>
        /\ \A r \in Service : child'[r] # "none" => child[r] # "none"
    BY <1>27 DEF Crash, inputs, mainVars, childVars, ChildTypes
  <2> QED
    BY <2>1, FollowsAtOnePlace
<1>28. ASSUME NEW s \in Service, StopsItself(s) PROVE FollowsPlan'
  <2>1. /\ UNCHANGED <<inv, machine, todo, main, instances>>
        /\ \A r \in Service : child'[r] # "none" => child[r] # "none"
    BY <1>28 DEF StopsItself, inputs, mainVars, childVars, ChildTypes
  <2> QED
    BY <2>1, FollowsAtOnePlace
<1>30. CASE CreateMonitors
  <2>1. /\ UNCHANGED <<inv, machine, todo>> /\ main # "plan" /\ main' # "plan"
        /\ \A s \in Service : child'[s] # "none" => child[s] # "none"
        /\ UNCHANGED instances
        /\ main' \notin Unplanned \cup {"fork"}
        /\ main' \in Starting \cup {"logging"} => main \in Starting \cup {"logging"}
    BY <1>30
       DEF CreateMonitors, Fails, ChildTypes, inputs, bounds, mainVars, childVars,
           handles, Unplanned, Starting, Collecting, Ending
  <2> QED
    BY <2>1, FollowsAtOnePlace
<1>31. CASE Caught
  <2>1. /\ UNCHANGED <<inv, machine, child>> /\ main \in Starting
    BY <1>31 DEF Caught, inputs, childVars, Starting, Collecting
  <2>2. CASE Proceed /\ UNCHANGED instances
    BY <2>1, <2>2, FollowsOn
  <2>3. CASE UNCHANGED <<todo, instances>> /\ main' \in {"wait", "waitexit", "stopping"}
    BY <2>1, <2>3, FollowsAtOnePlace DEF Unplanned, Starting, Collecting
  <2> QED
    BY <1>31, <2>2, <2>3 DEF Caught, Fails, Proceed
<1>32. CASE JoinRaises
  <2>1. /\ UNCHANGED <<inv, machine, todo, instances, child>>
        /\ main = "join" /\ main' = "raised" /\ todo # <<>> /\ Current \in Service
    BY <1>32, Interrupted DEF JoinRaises, inputs, childVars
  <2>2. main' # "plan" /\ main # "plan" /\ main' \notin Unplanned \cup {"fork"}
    BY <2>1 DEF Unplanned
  <2> QED
    BY <2>1, <2>2, FollowsAtOnePlace
<1>33. ASSUME NEW s \in Service, PutItem(s) PROVE FollowsPlan'
  <2>1. /\ UNCHANGED <<inv, machine, todo, main, instances>>
        /\ \A r \in Service : child'[r] # "none" => child[r] # "none"
    BY <1>33 DEF PutItem, inputs, mainVars, childVars, ChildTypes
  <2> QED
    BY <2>1, FollowsAtOnePlace
<1>29. CASE UNCHANGED launchVars
  BY <1>29
     DEF launchVars, inputs, mainVars, bounds, childVars, handles, monVars,
         dataVars, FollowsPlan, Reached, ThePlan, Done, Current
<1> QED
  BY <1>1, <1>2, <1>3, <1>4, <1>5, <1>6, <1>7, <1>8, <1>9, <1>10, <1>11, <1>12,
     <1>13, <1>14, <1>15, <1>16, <1>17, <1>18, <1>19, <1>20, <1>21, <1>22,
     <1>23, <1>24, <1>25, <1>26, <1>27, <1>28, <1>29, <1>30, <1>31, <1>32, <1>33,
     Zenon
     DEF LaunchNext, MainStep, Monitor, Child

-----------------------------------------------------------------------------
\* What the main thread has passed is up.

\* The awaited lines printed so far are counted.
LEMMA ReadyType ==
    ASSUME ChildTypes
    PROVE  \A s \in Service : ready[s] \in 0..2 /\ ready[s] \in Int /\ ready[s] >= ready[s]
<1>1. ASSUME NEW s \in Service PROVE ready[s] \in 0..2
  BY DEF ChildTypes
<1> QED
  BY <1>1

LEMMA AtLeast ==
    ASSUME MainTypes
    PROVE  got \in Nat
  BY DEF MainTypes

\* What was up stays up while the main thread stays where it is.
LEMMA UpAtOnePlace ==
    ASSUME MainTypes, PassedAreUp, UNCHANGED <<inv, machine, todo>>,
           main = "plan" <=> main' = "plan",
           main' = "waitexit" => main = "waitexit",
           main' \in Collecting => main \in Collecting,
           \A i \in 1..Len(ThePlan) :
               i <= Done /\ ThePlan[i] \in Service /\ Up(ThePlan[i]) => Up(ThePlan[i])'
    PROVE  PassedAreUp'
<1>1. ThePlan' = ThePlan /\ Current' = Current
  BY DEF ThePlan, Current
<1>2. Done' = Done
  BY <1>1 DEF Done
<1> QED
  BY <1>1, <1>2 DEF PassedAreUp

\* One more service is passed: if it is fatal, it is up.
LEMMA UpOneMore ==
    ASSUME MainTypes, FollowsPlan, PassedAreUp, main \in Starting, Proceed,
           UNCHANGED <<inv, machine, child, ready>>,
           Start(Current).fatal => Up(Current)
    PROVE  PassedAreUp'
<1>1. /\ ThePlan' = ThePlan /\ Done' = Done + 1 /\ Done \in Nat
      /\ ThePlan[Done + 1] = Current /\ Current \in Service
  BY NextPlace, AtWork
<1>2. main' = "next"
  BY DEF Proceed
<1>3. \A s \in Service : Up(s)' <=> Up(s)
  BY DEF Up
<1>4. ASSUME NEW i \in 1..Len(ThePlan), i <= Done + 1
      PROVE  ThePlan[i] \in Service /\ (Start(ThePlan[i]).fatal => Up(ThePlan[i]))
  <2>1. CASE i = Done + 1
    BY <1>1, <2>1
  <2>2. CASE i <= Done
    BY <2>2 DEF PassedAreUp
  <2> QED
    BY <1>1, <1>4, <2>1, <2>2
<1> QED
  BY <1>1, <1>2, <1>3, <1>4 DEF PassedAreUp, Collecting

\* The lines the main thread has collected were printed.
LEMMA CountedEnough ==
    ASSUME MainTypes, ChildTypes, MonitorTypes, FollowsPlan, Counted,
           main = "clear", Start(Current).fatal
    PROVE  got <= ready[Current]
<1>1. Current \in Service
  BY AtWork DEF Starting, Collecting
<1>2. Taken(Current) = got /\ ~ Start(Current).anyLine
  BY <1>1, StartFacts DEF Taken, Collecting
<1>3. Lines(pipe[Current]) \in Nat
  <2>1. Len(pipe[Current]) \in Nat
    BY <1>1 DEF ChildTypes
  <2>2. IsFiniteSet({i \in 1..Len(pipe[Current]) : pipe[Current][i] = "ready"})
    <3>1. IsFiniteSet(1..Len(pipe[Current]))
      BY <2>1, FS_Interval
    <3>2. {i \in 1..Len(pipe[Current]) : pipe[Current][i] = "ready"} \subseteq 1..Len(pipe[Current])
      OBVIOUS
    <3> QED
      BY <3>1, <3>2, FS_Subset, Zenon
  <2> QED
    BY <2>2, FS_CardinalityType DEF Lines
<1>4. Taken(Current) + queue[Current] + InHand(Current) + Lines(pipe[Current]) <= ready[Current]
  BY <1>1, <1>2 DEF Counted
<1>5. queue[Current] \in Nat /\ InHand(Current) \in Nat /\ got \in Nat /\ ready[Current] \in 0..2
  <2>1. queue[Current] \in Nat
    BY <1>1 DEF MonitorTypes
  <2>2. InHand(Current) \in Nat
    BY DEF InHand
  <2> QED
    BY <1>1, <2>1, <2>2, ReadyType, AtLeast
<1> QED
  BY <1>2, <1>3, <1>4, <1>5


LEMMA Upward ==
    ASSUME ChildTypes, ChildTypes', NEW s \in Service, Up(s),
           child[s] = "dead" => child'[s] = "dead", ready'[s] >= ready[s]
    PROVE  IF Start(s).awaits = -1 THEN child'[s] = "dead" ELSE ready'[s] >= Start(s).awaits
<1>1. ready[s] \in 0..2 /\ ready'[s] \in 0..2
  BY DEF ChildTypes
<1>2. Start(s).awaits \in Int
  BY StartFacts
<1> QED
  BY <1>1, <1>2 DEF Up

\* Every step leaves up what was passed.
LEMMA UpStep ==
    ASSUME MainTypes, ChildTypes, MonitorTypes, FollowsPlan, PassedAreUp,
           InstancesInv, ProcessesInv, Counted, ChildTypes',
           [LaunchNext]_launchVars
    PROVE  PassedAreUp'
<1>1. CASE MakePlan
  <2>1. /\ main' \in {"next", "planned"} /\ Done' = 0
    BY <1>1, PlanFacts DEF MakePlan, Done, ThePlan, inputs
  <2> QED
    BY <2>1 DEF PassedAreUp, Collecting
<1>2. CASE AllStarted
  <2>1. /\ UNCHANGED <<inv, machine, todo>> /\ (main = "plan" <=> main' = "plan")
        /\ main' = "waitexit" => main = "waitexit"
        /\ main' \in Collecting => main \in Collecting
    BY <1>2 DEF AllStarted, Fails, Drop, inputs, mainVars, Collecting
  <2>2. \A r \in Service : /\ child[r] = "dead" => child'[r] = "dead"
                           /\ ready'[r] >= ready[r]
    BY <1>2, ReadyType DEF AllStarted, ChildTypes, childVars
  <2>3. ThePlan' = ThePlan
    BY <2>1 DEF ThePlan
  <2>4. ASSUME NEW i \in 1..Len(ThePlan), i <= Done, ThePlan[i] \in Service, Up(ThePlan[i])
        PROVE  Up(ThePlan[i])'
    BY <2>2, <2>3, <2>4, Upward DEF Up
  <2> QED
    BY <2>1, <2>4, UpAtOnePlace
<1>3. CASE RefuseToStart
  <2>1. /\ UNCHANGED <<inv, machine, todo>> /\ (main = "plan" <=> main' = "plan")
        /\ main' = "waitexit" => main = "waitexit"
        /\ main' \in Collecting => main \in Collecting
    BY <1>3 DEF RefuseToStart, Fails, Drop, inputs, mainVars, Collecting
  <2>2. \A r \in Service : /\ child[r] = "dead" => child'[r] = "dead"
                           /\ ready'[r] >= ready[r]
    BY <1>3, ReadyType DEF RefuseToStart, ChildTypes, childVars
  <2>3. ThePlan' = ThePlan
    BY <2>1 DEF ThePlan
  <2>4. ASSUME NEW i \in 1..Len(ThePlan), i <= Done, ThePlan[i] \in Service, Up(ThePlan[i])
        PROVE  Up(ThePlan[i])'
    BY <2>2, <2>3, <2>4, Upward DEF Up
  <2> QED
    BY <2>1, <2>4, UpAtOnePlace
<1>4. CASE BeginLog
  <2>1. /\ UNCHANGED <<inv, machine, todo>> /\ (main = "plan" <=> main' = "plan")
        /\ main' = "waitexit" => main = "waitexit"
        /\ main' \in Collecting => main \in Collecting
    BY <1>4 DEF BeginLog, Fails, Drop, inputs, mainVars, Collecting
  <2>2. \A r \in Service : /\ child[r] = "dead" => child'[r] = "dead"
                           /\ ready'[r] >= ready[r]
    BY <1>4, ReadyType DEF BeginLog, ChildTypes, childVars
  <2>3. ThePlan' = ThePlan
    BY <2>1 DEF ThePlan
  <2>4. ASSUME NEW i \in 1..Len(ThePlan), i <= Done, ThePlan[i] \in Service, Up(ThePlan[i])
        PROVE  Up(ThePlan[i])'
    BY <2>2, <2>3, <2>4, Upward DEF Up
  <2> QED
    BY <2>1, <2>4, UpAtOnePlace
<1>5. CASE CreateInstance
  <2>1. /\ UNCHANGED <<inv, machine, todo>> /\ (main = "plan" <=> main' = "plan")
        /\ main' = "waitexit" => main = "waitexit"
        /\ main' \in Collecting => main \in Collecting
    BY <1>5 DEF CreateInstance, Fails, Drop, inputs, mainVars, Collecting
  <2>2. \A r \in Service : /\ child[r] = "dead" => child'[r] = "dead"
                           /\ ready'[r] >= ready[r]
    BY <1>5, ReadyType DEF CreateInstance, ChildTypes, childVars
  <2>3. ThePlan' = ThePlan
    BY <2>1 DEF ThePlan
  <2>4. ASSUME NEW i \in 1..Len(ThePlan), i <= Done, ThePlan[i] \in Service, Up(ThePlan[i])
        PROVE  Up(ThePlan[i])'
    BY <2>2, <2>3, <2>4, Upward DEF Up
  <2> QED
    BY <2>1, <2>4, UpAtOnePlace
<1>6. CASE Fork
  <2>1. /\ UNCHANGED <<inv, machine, todo, ready>> /\ main = "fork" /\ main' = "forked"
        /\ child' = [child EXCEPT ![Current] = "running"]
    BY <1>6 DEF Fork, inputs
  <2>2. ThePlan[Done + 1] = Current /\ Done + 1 \in 1..Len(ThePlan) /\ Done \in Nat
    BY <2>1, AtPlace DEF Starting
  <2>3. ASSUME NEW i \in 1..Len(ThePlan), i <= Done, ThePlan[i] \in Service, Up(ThePlan[i])
        PROVE  child'[ThePlan[i]] = child[ThePlan[i]]
    <3>1. i # Done + 1
      BY <2>2, <2>3
    <3>2. ThePlan[i] # Current
      BY <2>2, <2>3, <3>1, PlanFacts
    <3> QED
      BY <2>1, <2>3, <3>2 DEF ChildTypes
  <2>4. ASSUME NEW i \in 1..Len(ThePlan), i <= Done, ThePlan[i] \in Service, Up(ThePlan[i])
        PROVE  Up(ThePlan[i])'
    <3>1. ThePlan' = ThePlan
      BY <2>1 DEF ThePlan
    <3> QED
      BY <2>1, <2>3, <2>4, <3>1 DEF Up
  <2> QED
    BY <2>1, <2>4, UpAtOnePlace DEF Collecting
<1>7. CASE ForkFails
  <2>1. /\ UNCHANGED <<inv, machine, todo>> /\ (main = "plan" <=> main' = "plan")
        /\ main' = "waitexit" => main = "waitexit"
        /\ main' \in Collecting => main \in Collecting
    BY <1>7 DEF ForkFails, Fails, Drop, inputs, mainVars, Collecting
  <2>2. \A r \in Service : /\ child[r] = "dead" => child'[r] = "dead"
                           /\ ready'[r] >= ready[r]
    BY <1>7, ReadyType DEF ForkFails, ChildTypes, childVars
  <2>3. ThePlan' = ThePlan
    BY <2>1 DEF ThePlan
  <2>4. ASSUME NEW i \in 1..Len(ThePlan), i <= Done, ThePlan[i] \in Service, Up(ThePlan[i])
        PROVE  Up(ThePlan[i])'
    BY <2>2, <2>3, <2>4, Upward DEF Up
  <2> QED
    BY <2>1, <2>4, UpAtOnePlace
<1>8. CASE KeepHandle
  <2>1. /\ UNCHANGED <<inv, machine, todo>> /\ (main = "plan" <=> main' = "plan")
        /\ main' = "waitexit" => main = "waitexit"
        /\ main' \in Collecting => main \in Collecting
    BY <1>8 DEF KeepHandle, Fails, Drop, inputs, mainVars, Collecting
  <2>2. \A r \in Service : /\ child[r] = "dead" => child'[r] = "dead"
                           /\ ready'[r] >= ready[r]
    BY <1>8, ReadyType DEF KeepHandle, ChildTypes, childVars
  <2>3. ThePlan' = ThePlan
    BY <2>1 DEF ThePlan
  <2>4. ASSUME NEW i \in 1..Len(ThePlan), i <= Done, ThePlan[i] \in Service, Up(ThePlan[i])
        PROVE  Up(ThePlan[i])'
    BY <2>2, <2>3, <2>4, Upward DEF Up
  <2> QED
    BY <2>1, <2>4, UpAtOnePlace
<1>9. CASE StartMonitors
  <2>1. /\ UNCHANGED <<inv, machine, child, ready>> /\ main \in Starting
    BY <1>9 DEF StartMonitors, inputs, childVars, Starting, Collecting
  <2>2. Current \in Service /\ Start(Current).awaits \in {-1, 0, 1, 2}
    BY <2>1, AtWork, StartFacts
  <2>9. \A i \in 1..Len(ThePlan) : ThePlan[i] \in Service /\ Up(ThePlan[i]) => Up(ThePlan[i])'
    BY <2>1 DEF Up, ThePlan
  <2>3. CASE Start(Current).awaits = 0 /\ Proceed
    <3>1. Up(Current)
      BY <2>2, <2>3, ReadyType DEF Up
    <3> QED
      BY <2>1, <2>3, <3>1, UpOneMore
  <2>4. CASE /\ UNCHANGED todo
             /\ \/ Start(Current).awaits > 0 /\ main' = "wait"
                \/ Start(Current).awaits < 0 /\ main' = "waitexit"
    <3>1. ThePlan' = ThePlan /\ Current' = Current /\ Done' = Done
      BY <1>9, <2>1, <2>4 DEF ThePlan, Current, Done, StartMonitors
    <3>2. main' = "waitexit" => Start(Current').awaits = -1
      BY <2>2, <2>4, <3>1
    <3>3. main' \in Collecting => Start(Current').awaits \in {1, 2}
      BY <2>2, <2>4, <3>1 DEF Collecting
    <3> QED
      BY <2>9, <3>1, <3>2, <3>3 DEF PassedAreUp
  <2> QED
    BY <1>9, <2>3, <2>4 DEF StartMonitors
<1>10. CASE EventSeen
  <2>1. /\ UNCHANGED <<inv, machine, todo>> /\ (main = "plan" <=> main' = "plan")
        /\ main' = "waitexit" => main = "waitexit"
        /\ main' \in Collecting => main \in Collecting
    BY <1>10 DEF EventSeen, Fails, Drop, inputs, mainVars, Collecting
  <2>2. \A r \in Service : /\ child[r] = "dead" => child'[r] = "dead"
                           /\ ready'[r] >= ready[r]
    BY <1>10, ReadyType DEF EventSeen, ChildTypes, childVars
  <2>3. ThePlan' = ThePlan
    BY <2>1 DEF ThePlan
  <2>4. ASSUME NEW i \in 1..Len(ThePlan), i <= Done, ThePlan[i] \in Service, Up(ThePlan[i])
        PROVE  Up(ThePlan[i])'
    BY <2>2, <2>3, <2>4, Upward DEF Up
  <2> QED
    BY <2>1, <2>4, UpAtOnePlace
<1>11. CASE DrainQueue
  <2>1. /\ UNCHANGED <<inv, machine, todo>> /\ (main = "plan" <=> main' = "plan")
        /\ main' = "waitexit" => main = "waitexit"
        /\ main' \in Collecting => main \in Collecting
    BY <1>11 DEF DrainQueue, Fails, Drop, inputs, mainVars, Collecting
  <2>2. \A r \in Service : /\ child[r] = "dead" => child'[r] = "dead"
                           /\ ready'[r] >= ready[r]
    BY <1>11, ReadyType DEF DrainQueue, ChildTypes, childVars
  <2>3. ThePlan' = ThePlan
    BY <2>1 DEF ThePlan
  <2>4. ASSUME NEW i \in 1..Len(ThePlan), i <= Done, ThePlan[i] \in Service, Up(ThePlan[i])
        PROVE  Up(ThePlan[i])'
    BY <2>2, <2>3, <2>4, Upward DEF Up
  <2> QED
    BY <2>1, <2>4, UpAtOnePlace
<1>12. CASE ClearEvent
  <2>1. /\ UNCHANGED <<inv, machine, child, ready>> /\ main \in Starting
    BY <1>12 DEF ClearEvent, inputs, childVars, Starting, Collecting
  <2>2. Current \in Service /\ Start(Current).awaits \in {-1, 0, 1, 2}
    BY <2>1, AtWork, StartFacts
  <2>9. \A i \in 1..Len(ThePlan) : ThePlan[i] \in Service /\ Up(ThePlan[i]) => Up(ThePlan[i])'
    BY <2>1 DEF Up, ThePlan
  <2>3. CASE got >= Start(Current).awaits /\ Proceed
    <3>1. Start(Current).awaits \in {1, 2} /\ main = "clear"
      BY <1>12 DEF ClearEvent, PassedAreUp, Collecting
    <3>2. Start(Current).fatal => Up(Current)
      <4>1. SUFFICES ASSUME Start(Current).fatal PROVE Up(Current)
        OBVIOUS
      <4>2. got <= ready[Current] /\ got \in Nat /\ ready[Current] \in Nat
        BY <2>2, <3>1, <4>1, CountedEnough, ReadyType, AtLeast
      <4> QED
        BY <2>3, <3>1, <4>2 DEF Up
    <3> QED
      BY <2>1, <2>3, <3>2, UpOneMore
  <2>4. CASE main' = "wait" /\ UNCHANGED todo
    BY <1>12, <2>1, <2>4, <2>9, UpAtOnePlace DEF ClearEvent, Collecting
  <2> QED
    BY <1>12, <2>3, <2>4 DEF ClearEvent
<1>13. CASE BuildEnds
  <2>1. /\ UNCHANGED <<inv, machine, child, ready>> /\ main \in Starting
    BY <1>13 DEF BuildEnds, inputs, childVars, Starting, Collecting
  <2>2. Current \in Service /\ Start(Current).awaits \in {-1, 0, 1, 2}
    BY <2>1, AtWork, StartFacts
  <2>9. \A i \in 1..Len(ThePlan) : ThePlan[i] \in Service /\ Up(ThePlan[i]) => Up(ThePlan[i])'
    BY <2>1 DEF Up, ThePlan
  <2>3. CASE child[Current] = "dead" /\ Proceed
    <3>1. Up(Current)
      BY <1>13, <2>3 DEF BuildEnds, PassedAreUp, Up
    <3> QED
      BY <2>1, <2>3, <3>1, UpOneMore
  <2>4. CASE Fails
    BY <1>13, <2>1, <2>4, <2>9, UpAtOnePlace DEF BuildEnds, Fails, Collecting
  <2> QED
    BY <1>13, <2>3, <2>4 DEF BuildEnds
<1>14. CASE StopNothing
  <2>1. /\ UNCHANGED <<inv, machine, todo>> /\ (main = "plan" <=> main' = "plan")
        /\ main' = "waitexit" => main = "waitexit"
        /\ main' \in Collecting => main \in Collecting
    BY <1>14
       DEF StopNothing, Fails, Drop, inputs, mainVars, Collecting, InstancesInv
  <2>2. \A r \in Service : /\ child[r] = "dead" => child'[r] = "dead"
                           /\ ready'[r] >= ready[r]
    BY <1>14, ReadyType DEF StopNothing, ChildTypes, childVars
  <2>3. ThePlan' = ThePlan
    BY <2>1 DEF ThePlan
  <2>4. ASSUME NEW i \in 1..Len(ThePlan), i <= Done, ThePlan[i] \in Service, Up(ThePlan[i])
        PROVE  Up(ThePlan[i])'
    BY <2>2, <2>3, <2>4, Upward DEF Up
  <2> QED
    BY <2>1, <2>4, UpAtOnePlace
<1>15. CASE Terminate
  <2>1. /\ UNCHANGED <<inv, machine, todo>> /\ (main = "plan" <=> main' = "plan")
        /\ main' = "waitexit" => main = "waitexit"
        /\ main' \in Collecting => main \in Collecting
    BY <1>15 DEF Terminate, Fails, Drop, inputs, mainVars, Collecting
  <2>2. \A r \in Service : /\ child[r] = "dead" => child'[r] = "dead"
                           /\ ready'[r] >= ready[r]
    BY <1>15, ReadyType DEF Terminate, ChildTypes, childVars
  <2>3. ThePlan' = ThePlan
    BY <2>1 DEF ThePlan
  <2>4. ASSUME NEW i \in 1..Len(ThePlan), i <= Done, ThePlan[i] \in Service, Up(ThePlan[i])
        PROVE  Up(ThePlan[i])'
    BY <2>2, <2>3, <2>4, Upward DEF Up
  <2> QED
    BY <2>1, <2>4, UpAtOnePlace
<1>16. CASE Reap
  <2>1. /\ UNCHANGED <<inv, machine, todo>> /\ (main = "plan" <=> main' = "plan")
        /\ main' = "waitexit" => main = "waitexit"
        /\ main' \in Collecting => main \in Collecting
    BY <1>16 DEF Reap, Fails, Drop, inputs, mainVars, Collecting
  <2>2. \A r \in Service : /\ child[r] = "dead" => child'[r] = "dead"
                           /\ ready'[r] >= ready[r]
    BY <1>16, ReadyType DEF Reap, ChildTypes, childVars
  <2>3. ThePlan' = ThePlan
    BY <2>1 DEF ThePlan
  <2>4. ASSUME NEW i \in 1..Len(ThePlan), i <= Done, ThePlan[i] \in Service, Up(ThePlan[i])
        PROVE  Up(ThePlan[i])'
    BY <2>2, <2>3, <2>4, Upward DEF Up
  <2> QED
    BY <2>1, <2>4, UpAtOnePlace
<1>17. CASE Join
  <2>1. /\ UNCHANGED <<inv, machine, todo>> /\ (main = "plan" <=> main' = "plan")
        /\ main' = "waitexit" => main = "waitexit"
        /\ main' \in Collecting => main \in Collecting
    BY <1>17 DEF Join, Fails, Drop, inputs, mainVars, Collecting, InstancesInv
  <2>2. \A r \in Service : /\ child[r] = "dead" => child'[r] = "dead"
                           /\ ready'[r] >= ready[r]
    BY <1>17, ReadyType DEF Join, ChildTypes, childVars
  <2>3. ThePlan' = ThePlan
    BY <2>1 DEF ThePlan
  <2>4. ASSUME NEW i \in 1..Len(ThePlan), i <= Done, ThePlan[i] \in Service, Up(ThePlan[i])
        PROVE  Up(ThePlan[i])'
    BY <2>2, <2>3, <2>4, Upward DEF Up
  <2> QED
    BY <2>1, <2>4, UpAtOnePlace
<1>18. CASE Exit
  <2>1. /\ UNCHANGED <<inv, machine, todo>> /\ (main = "plan" <=> main' = "plan")
        /\ main' = "waitexit" => main = "waitexit"
        /\ main' \in Collecting => main \in Collecting
    BY <1>18 DEF Exit, Fails, Drop, inputs, mainVars, Collecting
  <2>2. \A r \in Service : /\ child[r] = "dead" => child'[r] = "dead"
                           /\ ready'[r] >= ready[r]
    BY <1>18, ReadyType DEF Exit, ChildTypes, childVars
  <2>3. ThePlan' = ThePlan
    BY <2>1 DEF ThePlan
  <2>4. ASSUME NEW i \in 1..Len(ThePlan), i <= Done, ThePlan[i] \in Service, Up(ThePlan[i])
        PROVE  Up(ThePlan[i])'
    BY <2>2, <2>3, <2>4, Upward DEF Up
  <2> QED
    BY <2>1, <2>4, UpAtOnePlace
<1>19. CASE Signal
  <2>1. /\ UNCHANGED <<inv, machine, todo>> /\ (main = "plan" <=> main' = "plan")
        /\ main' = "waitexit" => main = "waitexit"
        /\ main' \in Collecting => main \in Collecting
    BY <1>19 DEF Signal, Fails, Drop, inputs, mainVars, Collecting
  <2>2. \A r \in Service : /\ child[r] = "dead" => child'[r] = "dead"
                           /\ ready'[r] >= ready[r]
    BY <1>19, ReadyType DEF Signal, ChildTypes, childVars
  <2>3. ThePlan' = ThePlan
    BY <2>1 DEF ThePlan
  <2>4. ASSUME NEW i \in 1..Len(ThePlan), i <= Done, ThePlan[i] \in Service, Up(ThePlan[i])
        PROVE  Up(ThePlan[i])'
    BY <2>2, <2>3, <2>4, Upward DEF Up
  <2> QED
    BY <2>1, <2>4, UpAtOnePlace
<1>20. ASSUME NEW s \in Service, ReadLine(s) PROVE PassedAreUp'
  <2>1. /\ UNCHANGED <<inv, machine, todo>> /\ (main = "plan" <=> main' = "plan")
        /\ main' = "waitexit" => main = "waitexit"
        /\ main' \in Collecting => main \in Collecting
    BY <1>20 DEF ReadLine, Fails, Drop, inputs, mainVars, Collecting
  <2>2. \A r \in Service : /\ child[r] = "dead" => child'[r] = "dead"
                           /\ ready'[r] >= ready[r]
    BY <1>20, ReadyType DEF ReadLine, ChildTypes, childVars
  <2>3. ThePlan' = ThePlan
    BY <2>1 DEF ThePlan
  <2>4. ASSUME NEW i \in 1..Len(ThePlan), i <= Done, ThePlan[i] \in Service, Up(ThePlan[i])
        PROVE  Up(ThePlan[i])'
    BY <2>2, <2>3, <2>4, Upward DEF Up
  <2> QED
    BY <2>1, <2>4, UpAtOnePlace
<1>21. ASSUME NEW s \in Service, LineLogged(s) PROVE PassedAreUp'
  <2>1. /\ UNCHANGED <<inv, machine, todo>> /\ (main = "plan" <=> main' = "plan")
        /\ main' = "waitexit" => main = "waitexit"
        /\ main' \in Collecting => main \in Collecting
    BY <1>21 DEF LineLogged, Fails, Drop, inputs, mainVars, Collecting
  <2>2. \A r \in Service : /\ child[r] = "dead" => child'[r] = "dead"
                           /\ ready'[r] >= ready[r]
    BY <1>21, ReadyType DEF LineLogged, ChildTypes, childVars
  <2>3. ThePlan' = ThePlan
    BY <2>1 DEF ThePlan
  <2>4. ASSUME NEW i \in 1..Len(ThePlan), i <= Done, ThePlan[i] \in Service, Up(ThePlan[i])
        PROVE  Up(ThePlan[i])'
    BY <2>2, <2>3, <2>4, Upward DEF Up
  <2> QED
    BY <2>1, <2>4, UpAtOnePlace
<1>22. ASSUME NEW s \in Service, SetEvent(s) PROVE PassedAreUp'
  <2>1. /\ UNCHANGED <<inv, machine, todo>> /\ (main = "plan" <=> main' = "plan")
        /\ main' = "waitexit" => main = "waitexit"
        /\ main' \in Collecting => main \in Collecting
    BY <1>22 DEF SetEvent, Fails, Drop, inputs, mainVars, Collecting
  <2>2. \A r \in Service : /\ child[r] = "dead" => child'[r] = "dead"
                           /\ ready'[r] >= ready[r]
    BY <1>22, ReadyType DEF SetEvent, ChildTypes, childVars
  <2>3. ThePlan' = ThePlan
    BY <2>1 DEF ThePlan
  <2>4. ASSUME NEW i \in 1..Len(ThePlan), i <= Done, ThePlan[i] \in Service, Up(ThePlan[i])
        PROVE  Up(ThePlan[i])'
    BY <2>2, <2>3, <2>4, Upward DEF Up
  <2> QED
    BY <2>1, <2>4, UpAtOnePlace
<1>23. ASSUME NEW s \in Service, StreamEnds(s) PROVE PassedAreUp'
  <2>1. /\ UNCHANGED <<inv, machine, todo>> /\ (main = "plan" <=> main' = "plan")
        /\ main' = "waitexit" => main = "waitexit"
        /\ main' \in Collecting => main \in Collecting
    BY <1>23 DEF StreamEnds, Fails, Drop, inputs, mainVars, Collecting
  <2>2. \A r \in Service : /\ child[r] = "dead" => child'[r] = "dead"
                           /\ ready'[r] >= ready[r]
    BY <1>23, ReadyType DEF StreamEnds, ChildTypes, childVars
  <2>3. ThePlan' = ThePlan
    BY <2>1 DEF ThePlan
  <2>4. ASSUME NEW i \in 1..Len(ThePlan), i <= Done, ThePlan[i] \in Service, Up(ThePlan[i])
        PROVE  Up(ThePlan[i])'
    BY <2>2, <2>3, <2>4, Upward DEF Up
  <2> QED
    BY <2>1, <2>4, UpAtOnePlace
<1>24. ASSUME NEW s \in Service, PrintReady(s) PROVE PassedAreUp'
  <2>1. /\ UNCHANGED <<inv, machine, todo>> /\ (main = "plan" <=> main' = "plan")
        /\ main' = "waitexit" => main = "waitexit"
        /\ main' \in Collecting => main \in Collecting
    BY <1>24 DEF PrintReady, Fails, Drop, inputs, mainVars, Collecting
  <2>2. \A r \in Service : /\ child[r] = "dead" => child'[r] = "dead"
                           /\ ready'[r] >= ready[r]
    BY <1>24, ReadyType DEF PrintReady, ChildTypes, childVars
  <2>3. ThePlan' = ThePlan
    BY <2>1 DEF ThePlan
  <2>4. ASSUME NEW i \in 1..Len(ThePlan), i <= Done, ThePlan[i] \in Service, Up(ThePlan[i])
        PROVE  Up(ThePlan[i])'
    BY <2>2, <2>3, <2>4, Upward DEF Up
  <2> QED
    BY <2>1, <2>4, UpAtOnePlace
<1>25. ASSUME NEW s \in Service, PrintOther(s) PROVE PassedAreUp'
  <2>1. /\ UNCHANGED <<inv, machine, todo>> /\ (main = "plan" <=> main' = "plan")
        /\ main' = "waitexit" => main = "waitexit"
        /\ main' \in Collecting => main \in Collecting
    BY <1>25 DEF PrintOther, Fails, Drop, inputs, mainVars, Collecting
  <2>2. \A r \in Service : /\ child[r] = "dead" => child'[r] = "dead"
                           /\ ready'[r] >= ready[r]
    BY <1>25, ReadyType DEF PrintOther, ChildTypes, childVars
  <2>3. ThePlan' = ThePlan
    BY <2>1 DEF ThePlan
  <2>4. ASSUME NEW i \in 1..Len(ThePlan), i <= Done, ThePlan[i] \in Service, Up(ThePlan[i])
        PROVE  Up(ThePlan[i])'
    BY <2>2, <2>3, <2>4, Upward DEF Up
  <2> QED
    BY <2>1, <2>4, UpAtOnePlace
<1>26. ASSUME NEW s \in Service, BuildExits(s) PROVE PassedAreUp'
  <2>1. /\ UNCHANGED <<inv, machine, todo>> /\ (main = "plan" <=> main' = "plan")
        /\ main' = "waitexit" => main = "waitexit"
        /\ main' \in Collecting => main \in Collecting
    BY <1>26 DEF BuildExits, Fails, Drop, inputs, mainVars, Collecting
  <2>2. \A r \in Service : /\ child[r] = "dead" => child'[r] = "dead"
                           /\ ready'[r] >= ready[r]
    BY <1>26, ReadyType DEF BuildExits, ChildTypes, childVars
  <2>3. ThePlan' = ThePlan
    BY <2>1 DEF ThePlan
  <2>4. ASSUME NEW i \in 1..Len(ThePlan), i <= Done, ThePlan[i] \in Service, Up(ThePlan[i])
        PROVE  Up(ThePlan[i])'
    BY <2>2, <2>3, <2>4, Upward DEF Up
  <2> QED
    BY <2>1, <2>4, UpAtOnePlace
<1>27. ASSUME NEW s \in Service, Crash(s) PROVE PassedAreUp'
  <2>1. /\ UNCHANGED <<inv, machine, todo>> /\ (main = "plan" <=> main' = "plan")
        /\ main' = "waitexit" => main = "waitexit"
        /\ main' \in Collecting => main \in Collecting
    BY <1>27 DEF Crash, Fails, Drop, inputs, mainVars, Collecting
  <2>2. \A r \in Service : /\ child[r] = "dead" => child'[r] = "dead"
                           /\ ready'[r] >= ready[r]
    BY <1>27, ReadyType DEF Crash, ChildTypes, childVars
  <2>3. ThePlan' = ThePlan
    BY <2>1 DEF ThePlan
  <2>4. ASSUME NEW i \in 1..Len(ThePlan), i <= Done, ThePlan[i] \in Service, Up(ThePlan[i])
        PROVE  Up(ThePlan[i])'
    BY <2>2, <2>3, <2>4, Upward DEF Up
  <2> QED
    BY <2>1, <2>4, UpAtOnePlace
<1>28. ASSUME NEW s \in Service, StopsItself(s) PROVE PassedAreUp'
  <2>1. /\ UNCHANGED <<inv, machine, todo>> /\ (main = "plan" <=> main' = "plan")
        /\ main' = "waitexit" => main = "waitexit"
        /\ main' \in Collecting => main \in Collecting
    BY <1>28 DEF StopsItself, Fails, Drop, inputs, mainVars, Collecting
  <2>2. \A r \in Service : /\ child[r] = "dead" => child'[r] = "dead"
                           /\ ready'[r] >= ready[r]
    BY <1>28, ReadyType DEF StopsItself, ChildTypes, childVars
  <2>3. ThePlan' = ThePlan
    BY <2>1 DEF ThePlan
  <2>4. ASSUME NEW i \in 1..Len(ThePlan), i <= Done, ThePlan[i] \in Service, Up(ThePlan[i])
        PROVE  Up(ThePlan[i])'
    BY <2>2, <2>3, <2>4, Upward DEF Up
  <2> QED
    BY <2>1, <2>4, UpAtOnePlace
<1>30. CASE CreateMonitors
  <2>1. /\ UNCHANGED <<inv, machine, todo>> /\ (main = "plan" <=> main' = "plan")
        /\ main' = "waitexit" => main = "waitexit"
        /\ main' \in Collecting => main \in Collecting
    BY <1>30 DEF CreateMonitors, Fails, Drop, inputs, mainVars, Collecting
  <2>2. \A r \in Service : /\ child[r] = "dead" => child'[r] = "dead"
                           /\ ready'[r] >= ready[r]
    BY <1>30, ReadyType DEF CreateMonitors, ChildTypes, childVars
  <2>3. ThePlan' = ThePlan
    BY <2>1 DEF ThePlan
  <2>4. ASSUME NEW i \in 1..Len(ThePlan), i <= Done, ThePlan[i] \in Service, Up(ThePlan[i])
        PROVE  Up(ThePlan[i])'
    BY <2>2, <2>3, <2>4, Upward DEF Up
  <2> QED
    BY <2>1, <2>4, UpAtOnePlace
<1>31. CASE Caught
  <2>1. /\ UNCHANGED <<inv, machine, child, ready>> /\ main \in Starting
    BY <1>31 DEF Caught, inputs, childVars, Starting, Collecting
  <2>2. Current \in Service /\ Start(Current).awaits \in {-1, 0, 1, 2}
    BY <2>1, AtWork, StartFacts
  <2>9. \A i \in 1..Len(ThePlan) : ThePlan[i] \in Service /\ Up(ThePlan[i]) => Up(ThePlan[i])'
    BY <2>1 DEF Up, ThePlan
  <2>3. CASE ~ Start(Current).fatal /\ Proceed
    BY <2>1, <2>3, UpOneMore
  <2>4. CASE Fails
    BY <1>31, <2>1, <2>4, <2>9, UpAtOnePlace DEF Caught, Fails, Collecting
  <2> QED
    BY <1>31, <2>3, <2>4 DEF Caught, Proceed
<1>32. CASE JoinRaises
  <2>1. /\ UNCHANGED <<inv, machine, todo>> /\ (main = "plan" <=> main' = "plan")
        /\ main' = "waitexit" => main = "waitexit"
        /\ main' \in Collecting => main \in Collecting
    BY <1>32 DEF JoinRaises, Fails, Drop, inputs, mainVars, Collecting
  <2>2. \A r \in Service : /\ child[r] = "dead" => child'[r] = "dead"
                           /\ ready'[r] >= ready[r]
    BY <1>32, ReadyType DEF JoinRaises, ChildTypes, childVars
  <2>3. ThePlan' = ThePlan
    BY <2>1 DEF ThePlan
  <2>4. ASSUME NEW i \in 1..Len(ThePlan), i <= Done, ThePlan[i] \in Service, Up(ThePlan[i])
        PROVE  Up(ThePlan[i])'
    BY <2>2, <2>3, <2>4, Upward DEF Up
  <2> QED
    BY <2>1, <2>4, UpAtOnePlace
<1>33. ASSUME NEW s \in Service, PutItem(s) PROVE PassedAreUp'
  <2>1. /\ UNCHANGED <<inv, machine, todo>> /\ (main = "plan" <=> main' = "plan")
        /\ main' = "waitexit" => main = "waitexit"
        /\ main' \in Collecting => main \in Collecting
    BY <1>33 DEF PutItem, Fails, Drop, inputs, mainVars, Collecting
  <2>2. \A r \in Service : /\ child[r] = "dead" => child'[r] = "dead"
                           /\ ready'[r] >= ready[r]
    BY <1>33, ReadyType DEF PutItem, ChildTypes, childVars
  <2>3. ThePlan' = ThePlan
    BY <2>1 DEF ThePlan
  <2>4. ASSUME NEW i \in 1..Len(ThePlan), i <= Done, ThePlan[i] \in Service, Up(ThePlan[i])
        PROVE  Up(ThePlan[i])'
    BY <2>2, <2>3, <2>4, Upward DEF Up
  <2> QED
    BY <2>1, <2>4, UpAtOnePlace
<1>29. CASE UNCHANGED launchVars
  BY <1>29
     DEF launchVars, inputs, mainVars, bounds, childVars, handles, monVars,
         dataVars, PassedAreUp, ThePlan, Done, Current, Up
<1> QED
  BY <1>1, <1>2, <1>3, <1>4, <1>5, <1>6, <1>7, <1>8, <1>9, <1>10, <1>11, <1>12,
     <1>13, <1>14, <1>15, <1>16, <1>17, <1>18, <1>19, <1>20, <1>21, <1>22,
     <1>23, <1>24, <1>25, <1>26, <1>27, <1>28, <1>29, <1>30, <1>31, <1>32, <1>33,
     Zenon
     DEF LaunchNext, MainStep, Monitor, Child

-----------------------------------------------------------------------------
\* The instances, from the last to the first.

\* The main thread is not cleaning up and starts nothing new.
LEMMA InstancesKept ==
    ASSUME InstancesInv, UNCHANGED <<instances, todo>>,
           main' \notin Ending \cup {"exited"},
           main' \in Starting => main \in Starting
    PROVE  InstancesInv'
<1>1. Current' = Current
  BY DEF Current
<1>2. main' \notin {"reap", "join", "exited"} /\ main' \notin Ending
  BY DEF Ending
<1> QED
  BY <1>1, <1>2 DEF InstancesInv, Distinct

\* An exception ends the launch.
LEMMA InstancesGivenUp ==
    ASSUME InstancesInv, Fails
    PROVE  InstancesInv'
<1>1. /\ main' = "stopping" /\ order' = Reverse(instances) /\ instances' = instances
  BY DEF Fails
<1>2. main' \notin {"reap", "join", "exited"} /\ main' \notin Starting
  BY <1>1 DEF Starting, Collecting
<1> QED
  BY <1>1, <1>2 DEF InstancesInv, Distinct

\* A step of a monitor or a child.
LEMMA InstancesWaited ==
    ASSUME ChildTypes, InstancesInv, UNCHANGED <<mainVars, held>>,
           \A r \in Service : child[r] \in Ended => child'[r] \in Ended
    PROVE  InstancesInv'
<1>1. Current' = Current /\ Victim' = Victim
  BY DEF Current, Victim, mainVars
<1>2. Victim \in held => Victim \in Service
  BY DEF ChildTypes
<1>3. main = "join" => main \in {"reap", "join"}
  OBVIOUS
<1> QED
  BY <1>1, <1>2, <1>3 DEF InstancesInv, Distinct, mainVars

\* One instance less, the last one.
LEMMA InstancesDropped ==
    ASSUME MainTypes, InstancesInv, main \in Ending, order # <<>>, Drop
    PROVE  InstancesInv'
<1>1. /\ main' = "stopping" /\ order' = Tail(order) /\ instances' \in Seq(Service)
      /\ order' \in Seq(Service)
      /\ Len(instances') = Len(instances) - 1
      /\ \A i \in 1..Len(instances') : instances'[i] = instances[i]
  BY DropTypes
<1>2. /\ order = Reverse(instances) /\ instances \in Seq(Service) /\ order \in Seq(Service)
      /\ Distinct(instances)
  BY DEF InstancesInv, MainTypes
<1>3. Distinct(instances')
  <2> SUFFICES ASSUME NEW i \in 1..Len(instances'), NEW j \in 1..Len(instances'), i # j
               PROVE  instances'[i] # instances'[j]
    BY DEF Distinct
  <2>1. Len(instances) \in Nat
    BY <1>2
  <2>2. i \in 1..Len(instances) /\ j \in 1..Len(instances)
    BY <1>1, <2>1
  <2>3. instances'[i] = instances[i] /\ instances'[j] = instances[j]
    BY <1>1
  <2>4. instances[i] # instances[j]
    BY <1>2, <2>2 DEF Distinct
  <2> QED
    BY <2>3, <2>4
<1>4. /\ Len(Tail(order)) = Len(instances) - 1
      /\ \A i \in 1..Len(Tail(order)) : Tail(order)[i] = instances[Len(instances) - i]
  <2>1. /\ Len(order) = Len(instances)
        /\ \A i \in 1..Len(instances) : order[i] = instances[(Len(instances) - i) + 1]
    BY <1>2, SeqFacts
  <2>2. Len(Tail(order)) = Len(order) - 1 /\ \A i \in 1..Len(Tail(order)) : Tail(order)[i] = order[i + 1]
    BY <1>2, HeadTailProperties
  <2>3. ASSUME NEW i \in 1..Len(Tail(order))
        PROVE  Tail(order)[i] = instances[Len(instances) - i]
    <3>1. i + 1 \in 1..Len(instances) /\ (Len(instances) - (i + 1)) + 1 = Len(instances) - i
      BY <1>2, <2>1, <2>2
    <3> QED
      BY <2>1, <2>2, <3>1
  <2> QED
    BY <2>1, <2>2, <2>3
<1>5. order' = Reverse(instances')
  <2>1. /\ Reverse(instances') \in Seq(Service) /\ Len(Reverse(instances')) = Len(instances')
        /\ \A i \in 1..Len(instances') :
               Reverse(instances')[i] = instances'[(Len(instances') - i) + 1]
    BY <1>1, SeqFacts
  <2>2. ASSUME NEW i \in 1..Len(instances')
        PROVE  order'[i] = Reverse(instances')[i]
    <3>1. (Len(instances') - i) + 1 \in 1..Len(instances')
          /\ (Len(instances') - i) + 1 = Len(instances) - i
      BY <1>1, <1>2
    <3> QED
      BY <1>1, <1>4, <2>1, <3>1
  <2>3. Len(order') = Len(Reverse(instances'))
    BY <1>1, <1>4, <2>1
  <2> QED
    BY <1>1, <2>1, <2>2, <2>3, SeqEqual
<1>6. main' \notin Starting \cup {"reap", "join", "exited"}
  BY <1>1 DEF Starting, Collecting
<1> QED
  BY <1>1, <1>3, <1>5, <1>6 DEF InstancesInv

\* Every step keeps cleanup() going through the instances in turn.
LEMMA InstancesStep ==
    ASSUME MainTypes, ChildTypes, MonitorTypes, FollowsPlan, PassedAreUp,
           InstancesInv, ProcessesInv, MonitorsInv, [LaunchNext]_launchVars
    PROVE  InstancesInv'
<1>1. CASE MakePlan
  <2>1. UNCHANGED instances /\ main' \in {"next", "planned"}
    BY <1>1 DEF MakePlan
  <2>2. main' \notin Starting \cup Ending \cup {"reap", "join", "exited"}
    BY <2>1 DEF Starting, Collecting, Ending
  <2> QED
    BY <2>1, <2>2 DEF InstancesInv, Distinct
<1>2. CASE AllStarted
  <2>1. /\ UNCHANGED <<instances, todo>> /\ main' \notin Ending \cup {"exited"}
    BY <1>2 DEF AllStarted, Starting, Collecting, Ending, Unplanned
  <2>2. main' \in Starting => main \in Starting
    BY <1>2 DEF AllStarted, Starting, Collecting, Ending, Unplanned
  <2> QED
    BY <2>1, <2>2, InstancesKept
<1>3. CASE RefuseToStart
  <2>1. Fails
    BY <1>3 DEF RefuseToStart
  <2> QED
    BY <2>1, InstancesGivenUp
<1>4. CASE BeginLog
  <2>1. /\ UNCHANGED <<instances, todo>> /\ main' \notin Ending \cup {"exited"}
    BY <1>4 DEF BeginLog, Starting, Collecting, Ending, Unplanned
  <2>2. main' \in Starting => main \in Starting
    BY <1>4 DEF BeginLog, Starting, Collecting, Ending, Unplanned
  <2> QED
    BY <2>1, <2>2, InstancesKept
<1>5. CASE CreateInstance
  <2>1. /\ main = "logging" /\ main' = "fork" /\ instances' = Append(instances, Current)
        /\ todo' = todo /\ Current' = Current
    BY <1>5 DEF CreateInstance, Current
  <2>2. /\ Done \in Nat /\ Done + 1 \in 1..Len(ThePlan) /\ ThePlan[Done + 1] = Current
        /\ Current \in Service
    BY <2>1, AtPlace, AtWork
  <2>3. instances \in Seq(Service) /\ Len(instances) \in Nat
    BY DEF MainTypes
  <2>4. ASSUME NEW i \in 1..Len(instances) PROVE instances[i] # Current
    <3>1. Reached(instances[i], Unplanned)
      BY DEF FollowsPlan
    <3>2. PICK j \in 1..Len(ThePlan) : ThePlan[j] = instances[i] /\ j <= Done
      BY <2>1, <3>1 DEF Reached, Unplanned
    <3>3. j # Done + 1
      BY <2>2, <3>2
    <3> QED
      BY <2>2, <3>2, <3>3, PlanFacts
  <2>5. /\ Len(instances') = Len(instances) + 1 /\ instances'[Len(instances) + 1] = Current
        /\ \A i \in 1..Len(instances) : instances'[i] = instances[i]
    BY <2>1, <2>2, <2>3
  <2>6. Distinct(instances')
    <3>1. SUFFICES ASSUME NEW i \in 1..Len(instances'), NEW j \in 1..Len(instances'), i # j
                   PROVE  instances'[i] # instances'[j]
      BY DEF Distinct
    <3>2. Distinct(instances)
      BY DEF InstancesInv
    <3>3. CASE i \in 1..Len(instances) /\ j \in 1..Len(instances)
      BY <2>5, <3>1, <3>2, <3>3 DEF Distinct
    <3>4. CASE i = Len(instances) + 1 /\ j \in 1..Len(instances)
      BY <2>4, <2>5, <3>4
    <3>5. CASE i \in 1..Len(instances) /\ j = Len(instances) + 1
      BY <2>4, <2>5, <3>5
    <3> QED
      BY <2>3, <2>5, <3>1, <3>3, <3>4, <3>5
  <2>7. main' \notin Ending \cup {"reap", "join", "exited"}
    BY <2>1 DEF Ending
  <2>8. \E i \in 1..Len(instances') : instances'[i] = Current'
    BY <2>1, <2>3, <2>5
  <2> QED
    BY <2>6, <2>7, <2>8 DEF InstancesInv
<1>6. CASE Fork
  <2>1. /\ UNCHANGED <<instances, todo>> /\ main' \notin Ending \cup {"exited"}
    BY <1>6 DEF Fork, Starting, Collecting, Ending, Unplanned
  <2>2. main' \in Starting => main \in Starting
    BY <1>6 DEF Fork, Starting, Collecting, Ending, Unplanned
  <2> QED
    BY <2>1, <2>2, InstancesKept
<1>7. CASE ForkFails
  <2>1. /\ UNCHANGED <<instances, todo>> /\ main' \notin Ending \cup {"exited"}
    BY <1>7 DEF ForkFails, Starting, Collecting, Ending, Unplanned
  <2>2. main' \in Starting => main \in Starting
    BY <1>7 DEF ForkFails, Starting, Collecting, Ending, Unplanned
  <2> QED
    BY <2>1, <2>2, InstancesKept
<1>8. CASE KeepHandle
  <2>1. /\ UNCHANGED <<instances, todo>> /\ main' \notin Ending \cup {"exited"}
    BY <1>8 DEF KeepHandle, Starting, Collecting, Ending, Unplanned
  <2>2. main' \in Starting => main \in Starting
    BY <1>8 DEF KeepHandle, Starting, Collecting, Ending, Unplanned
  <2> QED
    BY <2>1, <2>2, InstancesKept
<1>9. CASE StartMonitors
  <2>3. ASSUME Proceed, instances' = instances PROVE InstancesInv'
    <3>1. main' \notin Starting \cup Ending \cup {"reap", "join", "exited"}
      BY <2>3 DEF Proceed, Starting, Collecting, Ending
    <3> QED
      BY <2>3, <3>1 DEF InstancesInv, Distinct
  <2>4. CASE UNCHANGED todo
    <3>1. UNCHANGED instances /\ main \in Starting /\ main' \notin Ending \cup {"exited"}
      BY <1>9, <2>4
         DEF StartMonitors, Proceed, Starting, Collecting, Ending, Unplanned
    <3> QED
      BY <2>4, <3>1, InstancesKept
  <2>5. Proceed \/ UNCHANGED todo
    BY <1>9, Zenon DEF StartMonitors
  <2> QED
    BY <1>9, <2>3, <2>4, <2>5, Zenon DEF StartMonitors
<1>10. CASE EventSeen
  <2>1. /\ UNCHANGED <<instances, todo>> /\ main' \notin Ending \cup {"exited"}
    BY <1>10 DEF EventSeen, Starting, Collecting, Ending, Unplanned
  <2>2. main' \in Starting => main \in Starting
    BY <1>10 DEF EventSeen, Starting, Collecting, Ending, Unplanned
  <2> QED
    BY <2>1, <2>2, InstancesKept
<1>11. CASE DrainQueue
  <2>1. /\ UNCHANGED <<instances, todo>> /\ main' \notin Ending \cup {"exited"}
    BY <1>11 DEF DrainQueue, Starting, Collecting, Ending, Unplanned
  <2>2. main' \in Starting => main \in Starting
    BY <1>11 DEF DrainQueue, Starting, Collecting, Ending, Unplanned
  <2> QED
    BY <2>1, <2>2, InstancesKept
<1>12. CASE ClearEvent
  <2>3. ASSUME Proceed, instances' = instances PROVE InstancesInv'
    <3>1. main' \notin Starting \cup Ending \cup {"reap", "join", "exited"}
      BY <2>3 DEF Proceed, Starting, Collecting, Ending
    <3> QED
      BY <2>3, <3>1 DEF InstancesInv, Distinct
  <2>4. CASE UNCHANGED todo
    <3>1. UNCHANGED instances /\ main \in Starting /\ main' \notin Ending \cup {"exited"}
      BY <1>12, <2>4
         DEF ClearEvent, Proceed, Starting, Collecting, Ending, Unplanned
    <3> QED
      BY <2>4, <3>1, InstancesKept
  <2>5. Proceed \/ UNCHANGED todo
    BY <1>12, Zenon DEF ClearEvent
  <2> QED
    BY <1>12, <2>3, <2>4, <2>5, Zenon DEF ClearEvent
<1>13. CASE BuildEnds
  <2>3. ASSUME Proceed, instances' = instances PROVE InstancesInv'
    <3>1. main' \notin Starting \cup Ending \cup {"reap", "join", "exited"}
      BY <2>3 DEF Proceed, Starting, Collecting, Ending
    <3> QED
      BY <2>3, <3>1 DEF InstancesInv, Distinct
  <2>4. CASE Fails
    BY <2>4, InstancesGivenUp
  <2> QED
    BY <1>13, <2>3, <2>4, Zenon DEF BuildEnds, Proceed
<1>14. CASE StopNothing
  <2>1. main \in Ending /\ order # <<>> /\ Drop
    BY <1>14 DEF StopNothing, Ending, InstancesInv
  <2> QED
    BY <2>1, InstancesDropped
<1>15. CASE Terminate
  <2>1. /\ UNCHANGED <<instances, order, held, todo>> /\ main \in Ending /\ main' = "reap"
        /\ order # <<>> /\ Victim \in held /\ Victim' = Victim
    BY <1>15 DEF Terminate, Ending, handles, Victim
  <2>2. main' \notin Starting \cup {"join", "exited"}
    BY <2>1 DEF Starting, Collecting
  <2> QED
    BY <2>1, <2>2 DEF InstancesInv, Distinct
<1>16. CASE Reap
  <2>1. /\ UNCHANGED <<instances, order, held, todo>> /\ main \in Ending /\ main' = "join"
        /\ main = "reap" /\ Victim' = Victim
    BY <1>16 DEF Reap, Ending, handles, Victim
  <2>2. main' \notin Starting \cup {"exited"}
    BY <2>1 DEF Starting, Collecting
  <2>3. order # <<>> /\ Victim \in held /\ Victim \in Service
    BY <2>1 DEF InstancesInv, ChildTypes
  <2>4. child'[Victim] \in Ended
    BY <1>16, <2>3 DEF Reap, ChildTypes, Ended
  <2> QED
    BY <2>1, <2>2, <2>3, <2>4 DEF InstancesInv, Distinct
<1>17. CASE Join
  <2>1. main \in Ending /\ order # <<>> /\ Drop
    BY <1>17 DEF Join, Ending, InstancesInv
  <2> QED
    BY <2>1, InstancesDropped
<1>18. CASE Exit
  <2>1. /\ UNCHANGED instances /\ main \in Ending /\ main' = "exited" /\ order = <<>>
    BY <1>18 DEF Exit, Ending
  <2>2. main' \notin Starting \cup Ending \cup {"reap", "join"}
    BY <2>1 DEF Starting, Collecting, Ending
  <2>3. instances = <<>>
    <3>1. Reverse(instances) = <<>> /\ instances \in Seq(Service)
      BY <2>1 DEF InstancesInv, MainTypes
    <3>2. Len(instances) = 0
      BY <3>1, SeqFacts
    <3> QED
      BY <3>1, <3>2
  <2> QED
    BY <2>1, <2>2, <2>3 DEF InstancesInv, Distinct
<1>19. CASE Signal
  <2>1. Fails
    BY <1>19 DEF Signal
  <2> QED
    BY <2>1, InstancesGivenUp
<1>20. ASSUME NEW s \in Service, ReadLine(s) PROVE InstancesInv'
  <2>1. /\ UNCHANGED <<mainVars, held>>
        /\ \A r \in Service : child[r] \in Ended => child'[r] \in Ended
    BY <1>20 DEF ReadLine, mainVars, handles, childVars, ChildTypes, Ended
  <2> QED
    BY <2>1, InstancesWaited
<1>21. ASSUME NEW s \in Service, LineLogged(s) PROVE InstancesInv'
  <2>1. /\ UNCHANGED <<mainVars, held>>
        /\ \A r \in Service : child[r] \in Ended => child'[r] \in Ended
    BY <1>21 DEF LineLogged, mainVars, handles, childVars, ChildTypes, Ended
  <2> QED
    BY <2>1, InstancesWaited
<1>22. ASSUME NEW s \in Service, SetEvent(s) PROVE InstancesInv'
  <2>1. /\ UNCHANGED <<mainVars, held>>
        /\ \A r \in Service : child[r] \in Ended => child'[r] \in Ended
    BY <1>22 DEF SetEvent, mainVars, handles, childVars, ChildTypes, Ended
  <2> QED
    BY <2>1, InstancesWaited
<1>23. ASSUME NEW s \in Service, StreamEnds(s) PROVE InstancesInv'
  <2>1. /\ UNCHANGED <<mainVars, held>>
        /\ \A r \in Service : child[r] \in Ended => child'[r] \in Ended
    BY <1>23 DEF StreamEnds, mainVars, handles, childVars, ChildTypes, Ended
  <2> QED
    BY <2>1, InstancesWaited
<1>24. ASSUME NEW s \in Service, PrintReady(s) PROVE InstancesInv'
  <2>1. /\ UNCHANGED <<mainVars, held>>
        /\ \A r \in Service : child[r] \in Ended => child'[r] \in Ended
    BY <1>24 DEF PrintReady, mainVars, handles, childVars, ChildTypes, Ended
  <2> QED
    BY <2>1, InstancesWaited
<1>25. ASSUME NEW s \in Service, PrintOther(s) PROVE InstancesInv'
  <2>1. /\ UNCHANGED <<mainVars, held>>
        /\ \A r \in Service : child[r] \in Ended => child'[r] \in Ended
    BY <1>25 DEF PrintOther, mainVars, handles, childVars, ChildTypes, Ended
  <2> QED
    BY <2>1, InstancesWaited
<1>26. ASSUME NEW s \in Service, BuildExits(s) PROVE InstancesInv'
  <2>1. /\ UNCHANGED <<mainVars, held>>
        /\ \A r \in Service : child[r] \in Ended => child'[r] \in Ended
    BY <1>26 DEF BuildExits, mainVars, handles, childVars, ChildTypes, Ended
  <2> QED
    BY <2>1, InstancesWaited
<1>27. ASSUME NEW s \in Service, Crash(s) PROVE InstancesInv'
  <2>1. /\ UNCHANGED <<mainVars, held>>
        /\ \A r \in Service : child[r] \in Ended => child'[r] \in Ended
    BY <1>27 DEF Crash, mainVars, handles, childVars, ChildTypes, Ended
  <2> QED
    BY <2>1, InstancesWaited
<1>28. ASSUME NEW s \in Service, StopsItself(s) PROVE InstancesInv'
  <2>1. /\ UNCHANGED <<mainVars, held>>
        /\ \A r \in Service : child[r] \in Ended => child'[r] \in Ended
    BY <1>28 DEF StopsItself, mainVars, handles, childVars, ChildTypes, Ended
  <2> QED
    BY <2>1, InstancesWaited
<1>30. CASE CreateMonitors
  <2>1. /\ UNCHANGED <<instances, todo>> /\ main' \notin Ending \cup {"exited"}
    BY <1>30 DEF CreateMonitors, Starting, Collecting, Ending, Unplanned
  <2>2. main' \in Starting => main \in Starting
    BY <1>30 DEF CreateMonitors, Starting, Collecting, Ending, Unplanned
  <2> QED
    BY <2>1, <2>2, InstancesKept
<1>31. CASE Caught
  <2>3. ASSUME Proceed, instances' = instances PROVE InstancesInv'
    <3>1. main' \notin Starting \cup Ending \cup {"reap", "join", "exited"}
      BY <2>3 DEF Proceed, Starting, Collecting, Ending
    <3> QED
      BY <2>3, <3>1 DEF InstancesInv, Distinct
  <2>4. CASE Fails
    BY <2>4, InstancesGivenUp
  <2> QED
    BY <1>31, <2>3, <2>4, Zenon DEF Caught, Proceed
<1>32. CASE JoinRaises
  <2>1. /\ UNCHANGED <<instances, todo>> /\ main = "join" /\ main' = "raised"
        /\ Victim = Current /\ Current' = Current
    BY <1>32, Interrupted DEF JoinRaises, Current
  <2>2. order = Reverse(instances) /\ order # <<>> /\ instances \in Seq(Service)
    BY <2>1 DEF InstancesInv, MainTypes, Ending
  <2>3. /\ order \in Seq(Service) /\ Len(order) = Len(instances) /\ order[1] = Victim
        /\ Len(order) >= 1 /\ Len(order) \in Nat
    BY <2>2, SeqFacts DEF Victim
  <2>4. order[1] = instances[(Len(instances) - 1) + 1]
    BY <2>2, <2>3, SeqFacts
  <2>5. \E i \in 1..Len(instances') : instances'[i] = Current'
    BY <2>1, <2>2, <2>3, <2>4
  <2>6. main' \notin Ending \cup {"reap", "join", "exited"}
    BY <2>1 DEF Ending
  <2> QED
    BY <2>1, <2>5, <2>6 DEF InstancesInv, Distinct
<1>33. ASSUME NEW s \in Service, PutItem(s) PROVE InstancesInv'
  <2>1. /\ UNCHANGED <<mainVars, held>>
        /\ \A r \in Service : child[r] \in Ended => child'[r] \in Ended
    BY <1>33 DEF PutItem, mainVars, handles, childVars, ChildTypes, Ended
  <2> QED
    BY <2>1, InstancesWaited
<1>29. CASE UNCHANGED launchVars
  BY <1>29
     DEF launchVars, inputs, mainVars, bounds, childVars, handles, monVars,
         dataVars, InstancesInv, Distinct, Current, Victim, Ended
<1> QED
  BY <1>1, <1>2, <1>3, <1>4, <1>5, <1>6, <1>7, <1>8, <1>9, <1>10, <1>11, <1>12,
     <1>13, <1>14, <1>15, <1>16, <1>17, <1>18, <1>19, <1>20, <1>21, <1>22,
     <1>23, <1>24, <1>25, <1>26, <1>27, <1>28, <1>29, <1>30, <1>31, <1>32, <1>33,
     Zenon
     DEF LaunchNext, MainStep, Monitor, Child

-----------------------------------------------------------------------------
\* The processes held.

\* Nothing is held or dropped, and what has ended stays so.
LEMMA ProcessesKept ==
    ASSUME ChildTypes, ProcessesInv, UNCHANGED <<instances, held, reaped, todo>>,
           main' \in Starting \ {"fork", "raised"} => main \in Starting \ {"fork", "raised"} /\ Current \in Service,
           main' \in Starting \ {"fork", "forked", "raised"} => main \in Starting \ {"fork", "forked", "raised"},
           \A s \in Service : /\ child[s] \in Ended => child'[s] \in Ended
                              /\ child[s] # "none" => child'[s] # "none"
    PROVE  ProcessesInv'
<1>1. Current' = Current
  BY DEF Current
<1>2. held \subseteq Service /\ reaped \subseteq Service
  BY DEF ChildTypes
<1> QED
  BY <1>1, <1>2 DEF ProcessesInv

\* The main thread goes to where it starts nothing.
LEMMA ProcessesLeft ==
    ASSUME ProcessesInv, UNCHANGED <<instances, held, child>>,
           main' \notin Starting \/ main' \in {"fork", "raised"},
           reaped' \subseteq reaped \cup {Current}, Current \in reaped' => child[Current] \in Ended
    PROVE  ProcessesInv'
<1>1. main' \notin Starting \ {"fork", "raised"}
  OBVIOUS
<1>2. \A s \in reaped' : child'[s] \in Ended
  BY DEF ProcessesInv
<1> QED
  BY <1>1, <1>2 DEF ProcessesInv

\* The instance dropped has no process that runs.
LEMMA ProcessesDropped ==
    ASSUME MainTypes, InstancesInv, ProcessesInv, main \in Ending, order # <<>>,
           Drop,
           UNCHANGED <<held, reaped, child>>,
           Victim \in held => child[Victim] \in Ended
    PROVE  ProcessesInv'
<1>1. /\ main' = "stopping" /\ instances # <<>> /\ Victim = instances[Len(instances)]
      /\ Len(instances') = Len(instances) - 1
      /\ \A i \in 1..Len(instances') : instances'[i] = instances[i]
      /\ instances' \in Seq(Service)
  BY DropTypes
<1>2. instances \in Seq(Service)
  BY DEF MainTypes
<1>3. ASSUME NEW s \in held
      PROVE  /\ child'[s] # "none"
             /\ \/ child'[s] \in Ended
                \/ \E i \in 1..Len(instances') : instances'[i] = s
  <2>1. CASE s = Victim
    BY <2>1 DEF Ended
  <2>2. CASE s # Victim /\ child[s] \in Ended
    BY <2>2 DEF Ended
  <2>3. CASE s # Victim /\ child[s] \notin Ended
    <3>1. PICK i \in 1..Len(instances) : instances[i] = s
      BY <2>3 DEF ProcessesInv
    <3>2. i # Len(instances)
      BY <1>1, <2>3, <3>1
    <3>3. i \in 1..Len(instances')
      BY <1>1, <1>2, <3>2
    <3>4. instances'[i] = s
      BY <1>1, <3>1, <3>3
    <3> QED
      BY <3>3, <3>4 DEF ProcessesInv
  <2> QED
    BY <2>1, <2>2, <2>3
<1>4. main' \notin Starting
  BY <1>1 DEF Starting, Collecting
<1> QED
  BY <1>3, <1>4 DEF ProcessesInv

\* Every step leaves each running process with an instance.
LEMMA ProcessesStep ==
    ASSUME MainTypes, ChildTypes, MonitorTypes, FollowsPlan, PassedAreUp,
           InstancesInv, ProcessesInv, [LaunchNext]_launchVars
    PROVE  ProcessesInv'
<1>1. CASE MakePlan
  <2>1. UNCHANGED <<instances, held, reaped, child>>
    BY <1>1 DEF MakePlan, Fails, Proceed, childVars, handles
  <2>2. main' \notin Starting \/ main' = "fork"
    BY <1>1 DEF MakePlan, Fails, Proceed, Starting, Collecting, Ending, Unplanned
  <2>3. reaped' \subseteq reaped \cup {Current} /\ (Current \in reaped' => child[Current] \in Ended)
    BY <2>1 DEF ProcessesInv
  <2> QED
    BY <2>1, <2>2, <2>3, ProcessesLeft
<1>2. CASE AllStarted
  <2>1. UNCHANGED <<instances, held, reaped, child>>
    BY <1>2 DEF AllStarted, Fails, Proceed, childVars, handles
  <2>2. main' \notin Starting \/ main' = "fork"
    BY <1>2
       DEF AllStarted, Fails, Proceed, Starting, Collecting, Ending, Unplanned
  <2>3. reaped' \subseteq reaped \cup {Current} /\ (Current \in reaped' => child[Current] \in Ended)
    BY <2>1 DEF ProcessesInv
  <2> QED
    BY <2>1, <2>2, <2>3, ProcessesLeft
<1>3. CASE RefuseToStart
  <2>1. UNCHANGED <<instances, held, reaped, child>>
    BY <1>3 DEF RefuseToStart, Fails, Proceed, childVars, handles
  <2>2. main' \notin Starting \/ main' = "fork"
    BY <1>3
       DEF RefuseToStart, Fails, Proceed, Starting, Collecting, Ending, Unplanned
  <2>3. reaped' \subseteq reaped \cup {Current} /\ (Current \in reaped' => child[Current] \in Ended)
    BY <2>1 DEF ProcessesInv
  <2> QED
    BY <2>1, <2>2, <2>3, ProcessesLeft
<1>4. CASE BeginLog
  <2>1. UNCHANGED <<instances, held, reaped, child>>
    BY <1>4 DEF BeginLog, Fails, Proceed, childVars, handles
  <2>2. main' \notin Starting \/ main' = "fork"
    BY <1>4 DEF BeginLog, Fails, Proceed, Starting, Collecting, Ending, Unplanned
  <2>3. reaped' \subseteq reaped \cup {Current} /\ (Current \in reaped' => child[Current] \in Ended)
    BY <2>1 DEF ProcessesInv
  <2> QED
    BY <2>1, <2>2, <2>3, ProcessesLeft
<1>5. CASE CreateInstance
  <2>1. UNCHANGED <<held, reaped, child>> /\ main' = "fork" /\ instances' = Append(instances, Current)
    BY <1>5 DEF CreateInstance, childVars, handles
  <2>2. instances \in Seq(Service) /\ Current \in Service
    BY <1>5, AtWork DEF MainTypes, CreateInstance
  <2>3. \A i \in 1..Len(instances) : i \in 1..Len(instances') /\ instances'[i] = instances[i]
    BY <2>1, <2>2
  <2> QED
    BY <2>1, <2>3 DEF ProcessesInv
<1>6. CASE Fork
  <2>1. /\ UNCHANGED <<instances, held, reaped, todo>> /\ main = "fork" /\ main' = "forked"
        /\ child' = [child EXCEPT ![Current] = "running"] /\ Current' = Current
    BY <1>6 DEF Fork, handles, Current
  <2>2. /\ Done \in Nat /\ Done + 1 \in 1..Len(ThePlan) /\ ThePlan[Done + 1] = Current
        /\ Current \in Service
    BY <2>1, AtPlace, AtWork DEF Starting
  <2>3. child[Current] = "none"
    <3>1. SUFFICES ASSUME child[Current] # "none" PROVE FALSE
      OBVIOUS
    <3>2. Reached(Current, Unplanned \cup {"fork"})
      BY <2>2, <3>1 DEF FollowsPlan
    <3>3. PICK j \in 1..Len(ThePlan) : ThePlan[j] = Current /\ j <= Done
      BY <2>1, <3>2 DEF Reached
    <3> QED
      BY <2>2, <3>3, PlanFacts
  <2>4. Current \notin held /\ held \subseteq Service /\ reaped \subseteq held
    BY <2>3 DEF ProcessesInv, ChildTypes
  <2>5. \A r \in Service : r # Current => child'[r] = child[r]
    BY <2>1, <2>2 DEF ChildTypes
  <2>6. child'[Current] = "running"
    BY <2>1, <2>2 DEF ChildTypes
  <2> QED
    BY <2>1, <2>4, <2>5, <2>6 DEF ProcessesInv
<1>7. CASE ForkFails
  <2>1. UNCHANGED <<instances, held, reaped, child>>
    BY <1>7 DEF ForkFails, childVars, handles
  <2>2. main' = "raised"
    BY <1>7 DEF ForkFails
  <2>3. reaped' \subseteq reaped \cup {Current} /\ (Current \in reaped' => child[Current] \in Ended)
    BY <2>1 DEF ProcessesInv
  <2> QED
    BY <2>1, <2>2, <2>3, ProcessesLeft
<1>8. CASE KeepHandle
  <2>1. /\ UNCHANGED <<instances, child, reaped, todo>> /\ main = "forked" /\ main' = "threads"
        /\ held' = held \cup {Current} /\ Current' = Current
    BY <1>8 DEF KeepHandle, childVars, Current
  <2>2. main \in Starting \ {"fork", "raised"}
    BY <2>1 DEF Starting
  <2>3. child[Current] # "none" /\ \E i \in 1..Len(instances) : instances[i] = Current
    BY <2>2 DEF ProcessesInv, InstancesInv
  <2> QED
    BY <2>1, <2>3 DEF ProcessesInv
<1>9. CASE StartMonitors
  <2>1. /\ UNCHANGED <<instances, held, reaped, child>> /\ main \in Starting \ {"fork", "forked", "raised"}
        /\ \/ main' = "next"
           \/ todo' = todo
    BY <1>9 DEF StartMonitors, Proceed, childVars, handles, Starting, Collecting
  <2>2. CASE main' = "next"
    <3>1. main' \notin Starting
      BY <2>2 DEF Starting, Collecting
    <3> QED
      BY <2>1, <3>1 DEF ProcessesInv
  <2>3. CASE todo' = todo
    <3>1. main \in Starting \ {"fork", "raised"} /\ Current \in Service
      BY <2>1, AtWork
    <3> QED
      BY <2>1, <2>3, <3>1, ProcessesKept
  <2> QED
    BY <2>1, <2>2, <2>3
<1>10. CASE EventSeen
  <2>1. UNCHANGED <<instances, held, reaped, todo>>
    BY <1>10 DEF EventSeen, mainVars, handles
  <2>2. /\ main' \in Starting \ {"fork", "raised"} => main \in Starting \ {"fork", "raised"}
        /\ main' \in Starting \ {"fork", "forked", "raised"} => main \in Starting \ {"fork", "forked", "raised"}
    BY <1>10 DEF EventSeen, Starting, Collecting, Ending, Unplanned, mainVars
  <2>3. main \in Starting => Current \in Service
    BY AtWork
  <2>4. \A r \in Service : /\ child[r] \in Ended => child'[r] \in Ended
                           /\ child[r] # "none" => child'[r] # "none"
    BY <1>10 DEF EventSeen, ChildTypes, Ended, childVars
  <2> QED
    BY <2>1, <2>2, <2>3, <2>4, ProcessesKept
<1>11. CASE DrainQueue
  <2>1. UNCHANGED <<instances, held, reaped, todo>>
    BY <1>11 DEF DrainQueue, mainVars, handles
  <2>2. /\ main' \in Starting \ {"fork", "raised"} => main \in Starting \ {"fork", "raised"}
        /\ main' \in Starting \ {"fork", "forked", "raised"} => main \in Starting \ {"fork", "forked", "raised"}
    BY <1>11 DEF DrainQueue, Starting, Collecting, Ending, Unplanned, mainVars
  <2>3. main \in Starting => Current \in Service
    BY AtWork
  <2>4. \A r \in Service : /\ child[r] \in Ended => child'[r] \in Ended
                           /\ child[r] # "none" => child'[r] # "none"
    BY <1>11 DEF DrainQueue, ChildTypes, Ended, childVars
  <2> QED
    BY <2>1, <2>2, <2>3, <2>4, ProcessesKept
<1>12. CASE ClearEvent
  <2>1. /\ UNCHANGED <<instances, held, reaped, child>> /\ main \in Starting \ {"fork", "forked", "raised"}
        /\ \/ main' = "next"
           \/ todo' = todo
    BY <1>12 DEF ClearEvent, Proceed, childVars, handles, Starting, Collecting
  <2>2. CASE main' = "next"
    <3>1. main' \notin Starting
      BY <2>2 DEF Starting, Collecting
    <3> QED
      BY <2>1, <3>1 DEF ProcessesInv
  <2>3. CASE todo' = todo
    <3>1. main \in Starting \ {"fork", "raised"} /\ Current \in Service
      BY <2>1, AtWork
    <3> QED
      BY <2>1, <2>3, <3>1, ProcessesKept
  <2> QED
    BY <2>1, <2>2, <2>3
<1>13. CASE BuildEnds
  <2>1. /\ UNCHANGED <<instances, held, child>> /\ child[Current] \in Ended
        /\ reaped' = reaped \cup {Current}
    BY <1>13 DEF BuildEnds, Proceed, Fails, childVars, Ended
  <2>2. main' \notin Starting
    BY <1>13 DEF BuildEnds, Proceed, Fails, Starting, Collecting
  <2> QED
    BY <2>1, <2>2, ProcessesLeft
<1>14. CASE StopNothing
  <2>1. main \in Ending /\ order # <<>> /\ Drop /\ UNCHANGED <<held, reaped, child>>
    BY <1>14 DEF StopNothing, Ending, InstancesInv, childVars, handles
  <2>2. Victim \in held => child[Victim] \in Ended
    BY <1>14 DEF StopNothing, InstancesInv, ProcessesInv
  <2> QED
    BY <2>1, <2>2, ProcessesDropped
<1>15. CASE Terminate
  <2>1. UNCHANGED <<instances, held, reaped, todo>> /\ main' = "reap" /\ Victim \in Service
    BY <1>15 DEF Terminate, handles, ChildTypes
  <2>2. main' \notin Starting
    BY <2>1 DEF Starting, Collecting
  <2>4. \A r \in Service : /\ child[r] \in Ended => child'[r] \in Ended
                           /\ child[r] # "none" => child'[r] # "none"
    BY <1>15, <2>1 DEF Terminate, ChildTypes, Ended
  <2> QED
    BY <2>1, <2>2, <2>4, ProcessesKept
<1>16. CASE Reap
  <2>1. /\ UNCHANGED <<instances, held>> /\ main = "reap" /\ main' = "join"
        /\ reaped' = reaped \cup {Victim}
    BY <1>16 DEF Reap
  <2>2. Victim \in held /\ held \subseteq Service /\ reaped \subseteq held
    BY <2>1 DEF InstancesInv, ChildTypes
  <2>3. child'[Victim] \in Ended /\ \A r \in Service : r # Victim => child'[r] = child[r]
    BY <1>16, <2>2 DEF Reap, ChildTypes, Ended
  <2>4. main' \notin Starting
    BY <2>1 DEF Starting, Collecting
  <2>5. "none" \notin Ended
    BY DEF Ended
  <2> QED
    BY <2>1, <2>2, <2>3, <2>4, <2>5 DEF ProcessesInv
<1>17. CASE Join
  <2>1. main \in Ending /\ order # <<>> /\ Drop /\ UNCHANGED <<held, reaped, child>>
    BY <1>17 DEF Join, Ending, InstancesInv, childVars, handles
  <2>2. Victim \in held => child[Victim] \in Ended
    BY <1>17 DEF Join, InstancesInv, ProcessesInv
  <2> QED
    BY <2>1, <2>2, ProcessesDropped
<1>18. CASE Exit
  <2>1. UNCHANGED <<instances, held, reaped, child>>
    BY <1>18 DEF Exit, Fails, Proceed, childVars, handles
  <2>2. main' \notin Starting \/ main' = "fork"
    BY <1>18 DEF Exit, Fails, Proceed, Starting, Collecting, Ending, Unplanned
  <2>3. reaped' \subseteq reaped \cup {Current} /\ (Current \in reaped' => child[Current] \in Ended)
    BY <2>1 DEF ProcessesInv
  <2> QED
    BY <2>1, <2>2, <2>3, ProcessesLeft
<1>19. CASE Signal
  <2>1. UNCHANGED <<instances, held, reaped, child>>
    BY <1>19 DEF Signal, Fails, Proceed, childVars, handles
  <2>2. main' \notin Starting \/ main' = "fork"
    BY <1>19 DEF Signal, Fails, Proceed, Starting, Collecting, Ending, Unplanned
  <2>3. reaped' \subseteq reaped \cup {Current} /\ (Current \in reaped' => child[Current] \in Ended)
    BY <2>1 DEF ProcessesInv
  <2> QED
    BY <2>1, <2>2, <2>3, ProcessesLeft
<1>20. ASSUME NEW s \in Service, ReadLine(s) PROVE ProcessesInv'
  <2>1. UNCHANGED <<instances, held, reaped, todo>>
    BY <1>20 DEF ReadLine, mainVars, handles
  <2>2. /\ main' \in Starting \ {"fork", "raised"} => main \in Starting \ {"fork", "raised"}
        /\ main' \in Starting \ {"fork", "forked", "raised"} => main \in Starting \ {"fork", "forked", "raised"}
    BY <1>20 DEF ReadLine, Starting, Collecting, Ending, Unplanned, mainVars
  <2>3. main \in Starting => Current \in Service
    BY AtWork
  <2>4. \A r \in Service : /\ child[r] \in Ended => child'[r] \in Ended
                           /\ child[r] # "none" => child'[r] # "none"
    BY <1>20 DEF ReadLine, ChildTypes, Ended, childVars
  <2> QED
    BY <2>1, <2>2, <2>3, <2>4, ProcessesKept
<1>21. ASSUME NEW s \in Service, LineLogged(s) PROVE ProcessesInv'
  <2>1. UNCHANGED <<instances, held, reaped, todo>>
    BY <1>21 DEF LineLogged, mainVars, handles
  <2>2. /\ main' \in Starting \ {"fork", "raised"} => main \in Starting \ {"fork", "raised"}
        /\ main' \in Starting \ {"fork", "forked", "raised"} => main \in Starting \ {"fork", "forked", "raised"}
    BY <1>21 DEF LineLogged, Starting, Collecting, Ending, Unplanned, mainVars
  <2>3. main \in Starting => Current \in Service
    BY AtWork
  <2>4. \A r \in Service : /\ child[r] \in Ended => child'[r] \in Ended
                           /\ child[r] # "none" => child'[r] # "none"
    BY <1>21 DEF LineLogged, ChildTypes, Ended, childVars
  <2> QED
    BY <2>1, <2>2, <2>3, <2>4, ProcessesKept
<1>22. ASSUME NEW s \in Service, SetEvent(s) PROVE ProcessesInv'
  <2>1. UNCHANGED <<instances, held, reaped, todo>>
    BY <1>22 DEF SetEvent, mainVars, handles
  <2>2. /\ main' \in Starting \ {"fork", "raised"} => main \in Starting \ {"fork", "raised"}
        /\ main' \in Starting \ {"fork", "forked", "raised"} => main \in Starting \ {"fork", "forked", "raised"}
    BY <1>22 DEF SetEvent, Starting, Collecting, Ending, Unplanned, mainVars
  <2>3. main \in Starting => Current \in Service
    BY AtWork
  <2>4. \A r \in Service : /\ child[r] \in Ended => child'[r] \in Ended
                           /\ child[r] # "none" => child'[r] # "none"
    BY <1>22 DEF SetEvent, ChildTypes, Ended, childVars
  <2> QED
    BY <2>1, <2>2, <2>3, <2>4, ProcessesKept
<1>23. ASSUME NEW s \in Service, StreamEnds(s) PROVE ProcessesInv'
  <2>1. UNCHANGED <<instances, held, reaped, todo>>
    BY <1>23 DEF StreamEnds, mainVars, handles
  <2>2. /\ main' \in Starting \ {"fork", "raised"} => main \in Starting \ {"fork", "raised"}
        /\ main' \in Starting \ {"fork", "forked", "raised"} => main \in Starting \ {"fork", "forked", "raised"}
    BY <1>23 DEF StreamEnds, Starting, Collecting, Ending, Unplanned, mainVars
  <2>3. main \in Starting => Current \in Service
    BY AtWork
  <2>4. \A r \in Service : /\ child[r] \in Ended => child'[r] \in Ended
                           /\ child[r] # "none" => child'[r] # "none"
    BY <1>23 DEF StreamEnds, ChildTypes, Ended, childVars
  <2> QED
    BY <2>1, <2>2, <2>3, <2>4, ProcessesKept
<1>24. ASSUME NEW s \in Service, PrintReady(s) PROVE ProcessesInv'
  <2>1. UNCHANGED <<instances, held, reaped, todo>>
    BY <1>24 DEF PrintReady, mainVars, handles
  <2>2. /\ main' \in Starting \ {"fork", "raised"} => main \in Starting \ {"fork", "raised"}
        /\ main' \in Starting \ {"fork", "forked", "raised"} => main \in Starting \ {"fork", "forked", "raised"}
    BY <1>24 DEF PrintReady, Starting, Collecting, Ending, Unplanned, mainVars
  <2>3. main \in Starting => Current \in Service
    BY AtWork
  <2>4. \A r \in Service : /\ child[r] \in Ended => child'[r] \in Ended
                           /\ child[r] # "none" => child'[r] # "none"
    BY <1>24 DEF PrintReady, ChildTypes, Ended, childVars
  <2> QED
    BY <2>1, <2>2, <2>3, <2>4, ProcessesKept
<1>25. ASSUME NEW s \in Service, PrintOther(s) PROVE ProcessesInv'
  <2>1. UNCHANGED <<instances, held, reaped, todo>>
    BY <1>25 DEF PrintOther, mainVars, handles
  <2>2. /\ main' \in Starting \ {"fork", "raised"} => main \in Starting \ {"fork", "raised"}
        /\ main' \in Starting \ {"fork", "forked", "raised"} => main \in Starting \ {"fork", "forked", "raised"}
    BY <1>25 DEF PrintOther, Starting, Collecting, Ending, Unplanned, mainVars
  <2>3. main \in Starting => Current \in Service
    BY AtWork
  <2>4. \A r \in Service : /\ child[r] \in Ended => child'[r] \in Ended
                           /\ child[r] # "none" => child'[r] # "none"
    BY <1>25 DEF PrintOther, ChildTypes, Ended, childVars
  <2> QED
    BY <2>1, <2>2, <2>3, <2>4, ProcessesKept
<1>26. ASSUME NEW s \in Service, BuildExits(s) PROVE ProcessesInv'
  <2>1. UNCHANGED <<instances, held, reaped, todo>>
    BY <1>26 DEF BuildExits, mainVars, handles
  <2>2. /\ main' \in Starting \ {"fork", "raised"} => main \in Starting \ {"fork", "raised"}
        /\ main' \in Starting \ {"fork", "forked", "raised"} => main \in Starting \ {"fork", "forked", "raised"}
    BY <1>26 DEF BuildExits, Starting, Collecting, Ending, Unplanned, mainVars
  <2>3. main \in Starting => Current \in Service
    BY AtWork
  <2>4. \A r \in Service : /\ child[r] \in Ended => child'[r] \in Ended
                           /\ child[r] # "none" => child'[r] # "none"
    BY <1>26 DEF BuildExits, ChildTypes, Ended, childVars
  <2> QED
    BY <2>1, <2>2, <2>3, <2>4, ProcessesKept
<1>27. ASSUME NEW s \in Service, Crash(s) PROVE ProcessesInv'
  <2>1. UNCHANGED <<instances, held, reaped, todo>>
    BY <1>27 DEF Crash, mainVars, handles
  <2>2. /\ main' \in Starting \ {"fork", "raised"} => main \in Starting \ {"fork", "raised"}
        /\ main' \in Starting \ {"fork", "forked", "raised"} => main \in Starting \ {"fork", "forked", "raised"}
    BY <1>27 DEF Crash, Starting, Collecting, Ending, Unplanned, mainVars
  <2>3. main \in Starting => Current \in Service
    BY AtWork
  <2>4. \A r \in Service : /\ child[r] \in Ended => child'[r] \in Ended
                           /\ child[r] # "none" => child'[r] # "none"
    BY <1>27 DEF Crash, ChildTypes, Ended, childVars
  <2> QED
    BY <2>1, <2>2, <2>3, <2>4, ProcessesKept
<1>28. ASSUME NEW s \in Service, StopsItself(s) PROVE ProcessesInv'
  <2>1. UNCHANGED <<instances, held, reaped, todo>>
    BY <1>28 DEF StopsItself, mainVars, handles
  <2>2. /\ main' \in Starting \ {"fork", "raised"} => main \in Starting \ {"fork", "raised"}
        /\ main' \in Starting \ {"fork", "forked", "raised"} => main \in Starting \ {"fork", "forked", "raised"}
    BY <1>28 DEF StopsItself, Starting, Collecting, Ending, Unplanned, mainVars
  <2>3. main \in Starting => Current \in Service
    BY AtWork
  <2>4. \A r \in Service : /\ child[r] \in Ended => child'[r] \in Ended
                           /\ child[r] # "none" => child'[r] # "none"
    BY <1>28 DEF StopsItself, ChildTypes, Ended, childVars
  <2> QED
    BY <2>1, <2>2, <2>3, <2>4, ProcessesKept
<1>30. CASE CreateMonitors
  <2>1. UNCHANGED <<instances, held, reaped, todo>>
    BY <1>30 DEF CreateMonitors, mainVars, handles
  <2>2. /\ main' \in Starting \ {"fork", "raised"} => main \in Starting \ {"fork", "raised"}
        /\ main' \in Starting \ {"fork", "forked", "raised"} => main \in Starting \ {"fork", "forked", "raised"}
    BY <1>30 DEF CreateMonitors, Starting, Collecting, Ending, Unplanned, mainVars
  <2>3. main \in Starting => Current \in Service
    BY AtWork
  <2>4. \A r \in Service : /\ child[r] \in Ended => child'[r] \in Ended
                           /\ child[r] # "none" => child'[r] # "none"
    BY <1>30 DEF CreateMonitors, ChildTypes, Ended, childVars
  <2> QED
    BY <2>1, <2>2, <2>3, <2>4, ProcessesKept
<1>31. CASE Caught
  <2>1. UNCHANGED <<held, reaped, child>>
    BY <1>31 DEF Caught, childVars, handles
  <2>2. main' \notin Starting /\ UNCHANGED instances
    BY <1>31 DEF Caught, Fails, Proceed, Starting, Collecting
  <2>3. reaped' \subseteq reaped \cup {Current} /\ (Current \in reaped' => child[Current] \in Ended)
    BY <2>1 DEF ProcessesInv
  <2> QED
    BY <2>1, <2>2, <2>3, ProcessesLeft
<1>32. CASE JoinRaises
  <2>1. UNCHANGED <<instances, held, reaped, child>>
    BY <1>32 DEF JoinRaises, childVars, handles
  <2>2. main' = "raised"
    BY <1>32 DEF JoinRaises
  <2>3. reaped' \subseteq reaped \cup {Current} /\ (Current \in reaped' => child[Current] \in Ended)
    BY <2>1 DEF ProcessesInv
  <2> QED
    BY <2>1, <2>2, <2>3, ProcessesLeft
<1>33. ASSUME NEW s \in Service, PutItem(s) PROVE ProcessesInv'
  <2>1. UNCHANGED <<instances, held, reaped, todo>>
    BY <1>33 DEF PutItem, mainVars, handles
  <2>2. /\ main' \in Starting \ {"fork", "raised"} => main \in Starting \ {"fork", "raised"}
        /\ main' \in Starting \ {"fork", "forked", "raised"} => main \in Starting \ {"fork", "forked", "raised"}
    BY <1>33 DEF PutItem, Starting, Collecting, Ending, Unplanned, mainVars
  <2>3. main \in Starting => Current \in Service
    BY AtWork
  <2>4. \A r \in Service : /\ child[r] \in Ended => child'[r] \in Ended
                           /\ child[r] # "none" => child'[r] # "none"
    BY <1>33 DEF PutItem, ChildTypes, Ended, childVars
  <2> QED
    BY <2>1, <2>2, <2>3, <2>4, ProcessesKept
<1>29. CASE UNCHANGED launchVars
  BY <1>29
     DEF launchVars, inputs, mainVars, bounds, childVars, handles, monVars,
         dataVars, ProcessesInv, Current, Ended
<1> QED
  BY <1>1, <1>2, <1>3, <1>4, <1>5, <1>6, <1>7, <1>8, <1>9, <1>10, <1>11, <1>12,
     <1>13, <1>14, <1>15, <1>16, <1>17, <1>18, <1>19, <1>20, <1>21, <1>22,
     <1>23, <1>24, <1>25, <1>26, <1>27, <1>28, <1>29, <1>30, <1>31, <1>32, <1>33,
     Zenon
     DEF LaunchNext, MainStep, Monitor, Child

-----------------------------------------------------------------------------
\* The awaited lines, from the child to the main thread.

Message == {"ready", "other"}

\* The awaited lines in a pipe are finitely many.
LEMMA LinesFinite ==
    ASSUME NEW p \in Seq(Message)
    PROVE  /\ IsFiniteSet({i \in 1..Len(p) : p[i] = "ready"})
           /\ Lines(p) \in Nat
<1>1. IsFiniteSet(1..Len(p))
  BY FS_Interval
<1>2. {i \in 1..Len(p) : p[i] = "ready"} \subseteq 1..Len(p)
  OBVIOUS
<1>3. IsFiniteSet({i \in 1..Len(p) : p[i] = "ready"})
  BY <1>1, <1>2, FS_Subset, Zenon
<1> QED
  BY <1>3, FS_CardinalityType, Zenon DEF Lines

\* A line is printed.
LEMMA LinesAppend ==
    ASSUME NEW p \in Seq(Message)
    PROVE  /\ Lines(Append(p, "ready")) = Lines(p) + 1
           /\ Lines(Append(p, "other")) = Lines(p)
<1> DEFINE Ready(q) == {i \in 1..Len(q) : q[i] = "ready"}
           a == Append(p, "ready")
           b == Append(p, "other")
<1>1. Ready(a) = Ready(p) \cup {Len(p) + 1} /\ Len(p) + 1 \notin Ready(p)
  BY DEF Message
<1>2. Ready(b) = Ready(p)
  BY DEF Message
<1>3. IsFiniteSet(Ready(p))
  BY LinesFinite
<1>4. Lines(a) = Cardinality(Ready(a)) /\ Lines(b) = Cardinality(Ready(b))
      /\ Lines(p) = Cardinality(Ready(p))
  BY DEF Lines
<1> HIDE DEF Ready, a, b
<1>5. Cardinality(Ready(p) \cup {Len(p) + 1}) = Cardinality(Ready(p)) + 1
  BY <1>1, <1>3, FS_AddElement
<1> QED
  BY <1>1, <1>2, <1>4, <1>5 DEF a, b

\* A line is read.
LEMMA LinesTail ==
    ASSUME NEW p \in Seq(Message), p # <<>>
    PROVE  /\ Tail(p) \in Seq(Message) /\ Head(p) \in Message
           /\ Lines(Tail(p)) <= Lines(p)
           /\ Head(p) = "ready" => Lines(Tail(p)) + 1 <= Lines(p)
<1> DEFINE Ready(q) == {i \in 1..Len(q) : q[i] = "ready"}
           t == Tail(p)
           R == Ready(p) \ {1}
           shift == [i \in Ready(t) |-> i + 1]
<1>1. /\ t \in Seq(Message) /\ Len(t) = Len(p) - 1 /\ \A i \in 1..Len(t) : t[i] = p[i + 1]
      /\ Head(p) = p[1] /\ Head(p) \in Message /\ Len(p) >= 1 /\ Len(p) \in Nat
  BY HeadTailProperties
<1>2. \A i \in Ready(t) : i \in Int /\ i + 1 \in R
  BY <1>1
<1>3. shift \in Injection(Ready(t), R)
  BY <1>2 DEF Injection, IsInjective
<1>4. IsFiniteSet(Ready(p)) /\ Lines(p) = Cardinality(Ready(p)) /\ Lines(p) \in Nat
  BY LinesFinite DEF Lines
<1>5. Lines(t) = Cardinality(Ready(t)) /\ Lines(t) \in Nat
  BY <1>1, LinesFinite DEF Lines
<1>6. 1 \in Ready(p) <=> Head(p) = "ready"
  BY <1>1
<1> HIDE DEF Ready, t, shift
<1>7. IsFiniteSet(R)
  BY <1>4, FS_Subset
<1>8. Cardinality(Ready(t)) <= Cardinality(R)
  BY <1>3, <1>7, FS_Injection
<1>9. Cardinality(R) = IF 1 \in Ready(p) THEN Cardinality(Ready(p)) - 1 ELSE Cardinality(Ready(p))
  BY <1>4, FS_RemoveElement
<1> QED
  BY <1>1, <1>4, <1>5, <1>6, <1>8, <1>9 DEF t

LEMMA Regroup ==
    ASSUME NEW n \in Int, NEW q \in Int, NEW h \in Int, NEW k \in Int,
           NEW g \in Int,
           NEW p \in Int, NEW r \in Int, k + g <= q + h, n + q + h + p <= r
    PROVE  n + k + g + p <= r
  OBVIOUS

\* What is counted is a number.
LEMMA CountTypes ==
    ASSUME MainTypes, ChildTypes, MonitorTypes, NEW s \in Service
    PROVE  /\ Taken(s) \in Nat /\ queue[s] \in Nat /\ InHand(s) \in Nat
           /\ Lines(pipe[s]) \in Nat /\ ready[s] \in 0..2 /\ pipe[s] \in Seq(Message)
<1>1. Taken(s) \in Nat
  BY DEF Taken, MainTypes
<1>2. queue[s] \in Nat
  BY DEF MonitorTypes
<1>3. InHand(s) \in Nat
  BY DEF InHand
<1>4. pipe[s] \in Seq(Message) /\ ready[s] \in 0..2
  BY DEF ChildTypes, Message
<1> QED
  BY <1>1, <1>2, <1>3, <1>4, LinesFinite

\* The main thread takes nothing.
LEMMA CountedKept ==
    ASSUME MainTypes, ChildTypes, MonitorTypes, Counted,
           UNCHANGED <<queue, line, pipe, ready>>,
           main' \in {"fork", "forked", "threads", "created"} => got' = 0,
           \/ main' \notin Collecting
           \/ main \in Collecting /\ UNCHANGED <<todo, got>>
    PROVE  Counted'
<1>1. ASSUME NEW s \in Service, ~ Start(s).anyLine
      PROVE  (Taken(s) + queue[s] + InHand(s) + Lines(pipe[s]))' <= ready'[s]
  <2>1. Taken(s)' = Taken(s) \/ Taken(s)' = 0
    BY DEF Taken, Current
  <2>2. /\ queue'[s] = queue[s] /\ InHand(s)' = InHand(s) /\ Lines(pipe[s])' = Lines(pipe[s])
        /\ ready'[s] = ready[s]
    BY DEF InHand, Lines
  <2>3. Taken(s) + queue[s] + InHand(s) + Lines(pipe[s]) <= ready[s]
    BY <1>1 DEF Counted
  <2>4. /\ Taken(s) \in Nat /\ queue[s] \in Nat /\ InHand(s) \in Nat /\ Lines(pipe[s]) \in Nat
        /\ ready[s] \in 0..2
    BY CountTypes
  <2>5. CASE Taken(s)' = Taken(s)
    BY <2>2, <2>3, <2>5
  <2>6. CASE Taken(s)' = 0
    BY <2>2, <2>3, <2>4, <2>6
  <2> QED
    BY <2>1, <2>5, <2>6
<1> QED
  BY <1>1 DEF Counted

\* A monitor or a child moves something on.
LEMMA CountedOn ==
    ASSUME MainTypes, ChildTypes, MonitorTypes, Counted, UNCHANGED mainVars,
           NEW s \in Service,
           \A r \in Service : r # s =>
               /\ queue'[r] = queue[r] /\ line'[r] = line[r] /\ pipe'[r] = pipe[r]
               /\ ready'[r] = ready[r],
           ~ Start(s).anyLine => \A n \in Nat :
               n + queue[s] + InHand(s) + Lines(pipe[s]) <= ready[s]
                   => n + queue'[s] + InHand(s)' + Lines(pipe'[s]) <= ready'[s]
    PROVE  Counted'
<1>1. ASSUME NEW r \in Service, ~ Start(r).anyLine
      PROVE  (Taken(r) + queue[r] + InHand(r) + Lines(pipe[r]))' <= ready'[r]
  <2>1. Taken(r)' = Taken(r) /\ Taken(r) \in Nat
    BY CountTypes DEF Taken, Current, mainVars
  <2>2. Taken(r) + queue[r] + InHand(r) + Lines(pipe[r]) <= ready[r]
    BY <1>1 DEF Counted
  <2>3. Lines(pipe[r])' = Lines(pipe'[r])
    BY DEF Lines
  <2>4. CASE r = s
    BY <1>1, <2>1, <2>2, <2>3, <2>4
  <2>5. CASE r # s
    <3>1. /\ queue'[r] = queue[r] /\ InHand(r)' = InHand(r) /\ ready'[r] = ready[r]
          /\ Lines(pipe'[r]) = Lines(pipe[r])
      BY <2>5 DEF InHand
    <3> QED
      BY <2>1, <2>2, <2>3, <3>1, CountTypes
  <2> QED
    BY <2>4, <2>5
<1>2. main' \in {"fork", "forked", "threads", "created"} => got' = 0
  BY DEF Counted, mainVars
<1> QED
  BY <1>1, <1>2 DEF Counted

\* No step makes more of the awaited lines than were printed.
LEMMA CountedStep ==
    ASSUME MainTypes, ChildTypes, MonitorTypes, FollowsPlan, Counted,
           MonitorsInv, [LaunchNext]_launchVars
    PROVE  Counted'
<1>1. CASE MakePlan
  <2>1. UNCHANGED <<queue, line, pipe, ready>>
    BY <1>1 DEF MakePlan, childVars, monVars, dataVars
  <2>2. main' \in {"fork", "forked", "threads", "created"} => got' = 0
    BY <1>1 DEF MakePlan, Fails, Drop, Proceed, Counted
  <2>3. \/ main' \notin Collecting
        \/ main \in Collecting /\ UNCHANGED <<todo, got>>
    BY <1>1 DEF MakePlan, Fails, Drop, Proceed, Collecting
  <2> QED
    BY <2>1, <2>2, <2>3, CountedKept
<1>2. CASE AllStarted
  <2>1. UNCHANGED <<queue, line, pipe, ready>>
    BY <1>2 DEF AllStarted, childVars, monVars, dataVars
  <2>2. main' \in {"fork", "forked", "threads", "created"} => got' = 0
    BY <1>2 DEF AllStarted, Fails, Drop, Proceed, Counted
  <2>3. \/ main' \notin Collecting
        \/ main \in Collecting /\ UNCHANGED <<todo, got>>
    BY <1>2 DEF AllStarted, Fails, Drop, Proceed, Collecting
  <2> QED
    BY <2>1, <2>2, <2>3, CountedKept
<1>3. CASE RefuseToStart
  <2>1. UNCHANGED <<queue, line, pipe, ready>>
    BY <1>3 DEF RefuseToStart, childVars, monVars, dataVars
  <2>2. main' \in {"fork", "forked", "threads", "created"} => got' = 0
    BY <1>3 DEF RefuseToStart, Fails, Drop, Proceed, Counted
  <2>3. \/ main' \notin Collecting
        \/ main \in Collecting /\ UNCHANGED <<todo, got>>
    BY <1>3 DEF RefuseToStart, Fails, Drop, Proceed, Collecting
  <2> QED
    BY <2>1, <2>2, <2>3, CountedKept
<1>4. CASE BeginLog
  <2>1. UNCHANGED <<queue, line, pipe, ready>>
    BY <1>4 DEF BeginLog, childVars, monVars, dataVars
  <2>2. main' \in {"fork", "forked", "threads", "created"} => got' = 0
    BY <1>4 DEF BeginLog, Fails, Drop, Proceed, Counted
  <2>3. \/ main' \notin Collecting
        \/ main \in Collecting /\ UNCHANGED <<todo, got>>
    BY <1>4 DEF BeginLog, Fails, Drop, Proceed, Collecting
  <2> QED
    BY <2>1, <2>2, <2>3, CountedKept
<1>5. CASE CreateInstance
  <2>1. UNCHANGED <<queue, line, pipe, ready>>
    BY <1>5 DEF CreateInstance, childVars, monVars, dataVars
  <2>2. main' \in {"fork", "forked", "threads", "created"} => got' = 0
    BY <1>5 DEF CreateInstance, Fails, Drop, Proceed, Counted
  <2>3. \/ main' \notin Collecting
        \/ main \in Collecting /\ UNCHANGED <<todo, got>>
    BY <1>5 DEF CreateInstance, Fails, Drop, Proceed, Collecting
  <2> QED
    BY <2>1, <2>2, <2>3, CountedKept
<1>6. CASE Fork
  <2>1. UNCHANGED <<queue, line, pipe, ready>>
    BY <1>6 DEF Fork, childVars, monVars, dataVars
  <2>2. main' \in {"fork", "forked", "threads", "created"} => got' = 0
    BY <1>6 DEF Fork, Fails, Drop, Proceed, Counted
  <2>3. \/ main' \notin Collecting
        \/ main \in Collecting /\ UNCHANGED <<todo, got>>
    BY <1>6 DEF Fork, Fails, Drop, Proceed, Collecting
  <2> QED
    BY <2>1, <2>2, <2>3, CountedKept
<1>7. CASE ForkFails
  <2>1. UNCHANGED <<queue, line, pipe, ready>>
    BY <1>7 DEF ForkFails, childVars, monVars, dataVars
  <2>2. main' \in {"fork", "forked", "threads", "created"} => got' = 0
    BY <1>7 DEF ForkFails, Fails, Drop, Proceed, Counted
  <2>3. \/ main' \notin Collecting
        \/ main \in Collecting /\ UNCHANGED <<todo, got>>
    BY <1>7 DEF ForkFails, Fails, Drop, Proceed, Collecting
  <2> QED
    BY <2>1, <2>2, <2>3, CountedKept
<1>8. CASE KeepHandle
  <2>1. UNCHANGED <<queue, line, pipe, ready>>
    BY <1>8 DEF KeepHandle, childVars, monVars, dataVars
  <2>2. main' \in {"fork", "forked", "threads", "created"} => got' = 0
    BY <1>8 DEF KeepHandle, Fails, Drop, Proceed, Counted
  <2>3. \/ main' \notin Collecting
        \/ main \in Collecting /\ UNCHANGED <<todo, got>>
    BY <1>8 DEF KeepHandle, Fails, Drop, Proceed, Collecting
  <2> QED
    BY <2>1, <2>2, <2>3, CountedKept
<1>9. CASE StartMonitors
  <2>1. UNCHANGED <<queue, line, pipe, ready, got>> /\ main = "created"
    BY <1>9 DEF StartMonitors, childVars, dataVars
  <2>2. got = 0 /\ main' \notin {"fork", "forked", "threads", "created"}
    BY <1>9, <2>1 DEF StartMonitors, Proceed, Counted
  <2>3. ASSUME NEW s \in Service, ~ Start(s).anyLine
        PROVE  (Taken(s) + queue[s] + InHand(s) + Lines(pipe[s]))' <= ready'[s]
    <3>1. Taken(s)' = 0 /\ Taken(s) = 0
      BY <2>1, <2>2 DEF Taken, Collecting
    <3>2. /\ queue'[s] = queue[s] /\ InHand(s)' = InHand(s) /\ Lines(pipe[s])' = Lines(pipe[s])
          /\ ready'[s] = ready[s]
      BY <2>1 DEF InHand, Lines
    <3>3. Taken(s) + queue[s] + InHand(s) + Lines(pipe[s]) <= ready[s]
      BY <2>3 DEF Counted
    <3> QED
      BY <3>1, <3>2, <3>3, CountTypes
  <2> QED
    BY <2>2, <2>3 DEF Counted
<1>10. CASE EventSeen
  <2>1. UNCHANGED <<queue, line, pipe, ready>>
    BY <1>10 DEF EventSeen, childVars, monVars, dataVars
  <2>2. main' \in {"fork", "forked", "threads", "created"} => got' = 0
    BY <1>10 DEF EventSeen, Fails, Drop, Proceed, Counted
  <2>3. \/ main' \notin Collecting
        \/ main \in Collecting /\ UNCHANGED <<todo, got>>
    BY <1>10 DEF EventSeen, Fails, Drop, Proceed, Collecting
  <2> QED
    BY <2>1, <2>2, <2>3, CountedKept
<1>11. CASE DrainQueue
  <2>1. /\ UNCHANGED <<line, pipe, ready, todo>> /\ main = "drain" /\ main' = "clear"
        /\ got' = got + queue[Current] /\ queue' = [queue EXCEPT ![Current] = 0]
    BY <1>11 DEF DrainQueue, childVars, monVars
  <2>2. Current \in Service /\ Current' = Current
    BY <2>1, AtWork DEF Starting, Collecting, Current
  <2>3. ASSUME NEW s \in Service, ~ Start(s).anyLine
        PROVE  (Taken(s) + queue[s] + InHand(s) + Lines(pipe[s]))' <= ready'[s]
    <3>1. InHand(s)' = InHand(s) /\ Lines(pipe[s])' = Lines(pipe[s]) /\ ready'[s] = ready[s]
      BY <2>1 DEF InHand, Lines
    <3>2. Taken(s) + queue[s] + InHand(s) + Lines(pipe[s]) <= ready[s]
      BY <2>3 DEF Counted
    <3>3. CASE s = Current
      <4>1. Taken(s) = got /\ Taken(s)' = got + queue[s] /\ queue'[s] = 0 /\ got \in Nat
        BY <2>1, <2>2, <3>3 DEF Taken, Collecting, MonitorTypes, MainTypes
      <4> QED
        BY <3>1, <3>2, <4>1, CountTypes
    <3>4. CASE s # Current
      <4>1. Taken(s) = 0 /\ Taken(s)' = 0 /\ queue'[s] = queue[s]
        BY <2>1, <2>2, <3>4 DEF Taken, MonitorTypes
      <4> QED
        BY <3>1, <3>2, <4>1, CountTypes
    <3> QED
      BY <3>3, <3>4
  <2> QED
    BY <2>1, <2>3 DEF Counted
<1>12. CASE ClearEvent
  <2>1. UNCHANGED <<queue, line, pipe, ready>>
    BY <1>12 DEF ClearEvent, childVars, monVars, dataVars
  <2>2. main' \in {"fork", "forked", "threads", "created"} => got' = 0
    BY <1>12 DEF ClearEvent, Fails, Drop, Proceed, Counted
  <2>3. \/ main' \notin Collecting
        \/ main \in Collecting /\ UNCHANGED <<todo, got>>
    BY <1>12 DEF ClearEvent, Fails, Drop, Proceed, Collecting
  <2> QED
    BY <2>1, <2>2, <2>3, CountedKept
<1>13. CASE BuildEnds
  <2>1. UNCHANGED <<queue, line, pipe, ready>>
    BY <1>13 DEF BuildEnds, childVars, monVars, dataVars
  <2>2. main' \in {"fork", "forked", "threads", "created"} => got' = 0
    BY <1>13 DEF BuildEnds, Fails, Drop, Proceed, Counted
  <2>3. \/ main' \notin Collecting
        \/ main \in Collecting /\ UNCHANGED <<todo, got>>
    BY <1>13 DEF BuildEnds, Fails, Drop, Proceed, Collecting
  <2> QED
    BY <2>1, <2>2, <2>3, CountedKept
<1>14. CASE StopNothing
  <2>1. UNCHANGED <<queue, line, pipe, ready>>
    BY <1>14 DEF StopNothing, childVars, monVars, dataVars
  <2>2. main' \in {"fork", "forked", "threads", "created"} => got' = 0
    BY <1>14 DEF StopNothing, Fails, Drop, Proceed, Counted
  <2>3. \/ main' \notin Collecting
        \/ main \in Collecting /\ UNCHANGED <<todo, got>>
    BY <1>14 DEF StopNothing, Fails, Drop, Proceed, Collecting
  <2> QED
    BY <2>1, <2>2, <2>3, CountedKept
<1>15. CASE Terminate
  <2>1. UNCHANGED <<queue, line, pipe, ready>>
    BY <1>15 DEF Terminate, childVars, monVars, dataVars
  <2>2. main' \in {"fork", "forked", "threads", "created"} => got' = 0
    BY <1>15 DEF Terminate, Fails, Drop, Proceed, Counted
  <2>3. \/ main' \notin Collecting
        \/ main \in Collecting /\ UNCHANGED <<todo, got>>
    BY <1>15 DEF Terminate, Fails, Drop, Proceed, Collecting
  <2> QED
    BY <2>1, <2>2, <2>3, CountedKept
<1>16. CASE Reap
  <2>1. UNCHANGED <<queue, line, pipe, ready>>
    BY <1>16 DEF Reap, childVars, monVars, dataVars
  <2>2. main' \in {"fork", "forked", "threads", "created"} => got' = 0
    BY <1>16 DEF Reap, Fails, Drop, Proceed, Counted
  <2>3. \/ main' \notin Collecting
        \/ main \in Collecting /\ UNCHANGED <<todo, got>>
    BY <1>16 DEF Reap, Fails, Drop, Proceed, Collecting
  <2> QED
    BY <2>1, <2>2, <2>3, CountedKept
<1>17. CASE Join
  <2>1. UNCHANGED <<queue, line, pipe, ready>>
    BY <1>17 DEF Join, childVars, monVars, dataVars
  <2>2. main' \in {"fork", "forked", "threads", "created"} => got' = 0
    BY <1>17 DEF Join, Fails, Drop, Proceed, Counted
  <2>3. \/ main' \notin Collecting
        \/ main \in Collecting /\ UNCHANGED <<todo, got>>
    BY <1>17 DEF Join, Fails, Drop, Proceed, Collecting
  <2> QED
    BY <2>1, <2>2, <2>3, CountedKept
<1>18. CASE Exit
  <2>1. UNCHANGED <<queue, line, pipe, ready>>
    BY <1>18 DEF Exit, childVars, monVars, dataVars
  <2>2. main' \in {"fork", "forked", "threads", "created"} => got' = 0
    BY <1>18 DEF Exit, Fails, Drop, Proceed, Counted
  <2>3. \/ main' \notin Collecting
        \/ main \in Collecting /\ UNCHANGED <<todo, got>>
    BY <1>18 DEF Exit, Fails, Drop, Proceed, Collecting
  <2> QED
    BY <2>1, <2>2, <2>3, CountedKept
<1>19. CASE Signal
  <2>1. UNCHANGED <<queue, line, pipe, ready>>
    BY <1>19 DEF Signal, childVars, monVars, dataVars
  <2>2. main' \in {"fork", "forked", "threads", "created"} => got' = 0
    BY <1>19 DEF Signal, Fails, Drop, Proceed, Counted
  <2>3. \/ main' \notin Collecting
        \/ main \in Collecting /\ UNCHANGED <<todo, got>>
    BY <1>19 DEF Signal, Fails, Drop, Proceed, Collecting
  <2> QED
    BY <2>1, <2>2, <2>3, CountedKept
<1>20. ASSUME NEW s \in Service, ReadLine(s) PROVE Counted'
  <2>1. UNCHANGED mainVars
    BY <1>20 DEF ReadLine, mainVars
  <2>2. \A r \in Service : r # s =>
            /\ queue'[r] = queue[r] /\ line'[r] = line[r] /\ pipe'[r] = pipe[r]
            /\ ready'[r] = ready[r]
    BY <1>20 DEF ReadLine, childVars, monVars, dataVars, ChildTypes, MonitorTypes
  <2>3. /\ queue[s] \in Nat /\ InHand(s) \in Nat /\ Lines(pipe[s]) \in Nat
        /\ ready[s] \in 0..2 /\ pipe[s] \in Seq(Message)
    BY CountTypes
  <2>4. /\ UNCHANGED <<queue, ready>> /\ pipe[s] # <<>> /\ pipe'[s] = Tail(pipe[s])
        /\ line'[s] = Head(pipe[s])
    BY <1>20 DEF ReadLine, dataVars, ChildTypes, MonitorTypes
  <2>5. /\ Lines(pipe'[s]) <= Lines(pipe[s])
        /\ Head(pipe[s]) = "ready" => Lines(pipe'[s]) + 1 <= Lines(pipe[s])
    BY <2>3, <2>4, LinesTail
  <2>6. Lines(pipe'[s]) \in Nat
    BY <2>3, <2>4, LinesTail, LinesFinite
  <2>7. InHand(s)' + Lines(pipe'[s]) <= Lines(pipe[s]) /\ InHand(s)' \in {0, 1}
    BY <2>3, <2>4, <2>5, <2>6 DEF InHand
  <2>9. ~ Start(s).anyLine => \A n \in Nat :
            n + queue[s] + InHand(s) + Lines(pipe[s]) <= ready[s]
                => n + queue'[s] + InHand(s)' + Lines(pipe'[s]) <= ready'[s]
    BY <2>3, <2>4, <2>6, <2>7, SMTT(30)
  <2> QED
    BY <2>1, <2>2, <2>9, CountedOn
<1>21. ASSUME NEW s \in Service, LineLogged(s) PROVE Counted'
  <2>1. UNCHANGED mainVars
    BY <1>21 DEF LineLogged, mainVars
  <2>2. \A r \in Service : r # s =>
            /\ queue'[r] = queue[r] /\ line'[r] = line[r] /\ pipe'[r] = pipe[r]
            /\ ready'[r] = ready[r]
    BY <1>21 DEF LineLogged, childVars, monVars, dataVars, ChildTypes, MonitorTypes
  <2>3. /\ queue[s] \in Nat /\ InHand(s) \in Nat /\ Lines(pipe[s]) \in Nat
        /\ ready[s] \in 0..2 /\ pipe[s] \in Seq(Message)
    BY CountTypes
  <2>4. UNCHANGED <<queue, pipe, ready>> /\ (line' = line \/ line'[s] = "none")
    BY <1>21 DEF LineLogged, childVars, dataVars, MonitorTypes
  <2>5. InHand(s)' \in {0, InHand(s)}
    BY <2>4 DEF InHand
  <2>9. ~ Start(s).anyLine => \A n \in Nat :
            n + queue[s] + InHand(s) + Lines(pipe[s]) <= ready[s]
                => n + queue'[s] + InHand(s)' + Lines(pipe'[s]) <= ready'[s]
    BY <2>3, <2>4, <2>5
  <2> QED
    BY <2>1, <2>2, <2>9, CountedOn
<1>22. ASSUME NEW s \in Service, SetEvent(s) PROVE Counted'
  <2>1. UNCHANGED mainVars
    BY <1>22 DEF SetEvent, mainVars
  <2>2. \A r \in Service : r # s =>
            /\ queue'[r] = queue[r] /\ line'[r] = line[r] /\ pipe'[r] = pipe[r]
            /\ ready'[r] = ready[r]
    BY <1>22 DEF SetEvent, childVars, monVars, dataVars, ChildTypes, MonitorTypes
  <2>3. /\ queue[s] \in Nat /\ InHand(s) \in Nat /\ Lines(pipe[s]) \in Nat
        /\ ready[s] \in 0..2 /\ pipe[s] \in Seq(Message)
    BY CountTypes
  <2>4. UNCHANGED <<queue, line, pipe, ready>> /\ InHand(s)' = InHand(s)
    BY <1>22 DEF SetEvent, childVars, monVars, dataVars, InHand
  <2>9. ~ Start(s).anyLine => \A n \in Nat :
            n + queue[s] + InHand(s) + Lines(pipe[s]) <= ready[s]
                => n + queue'[s] + InHand(s)' + Lines(pipe'[s]) <= ready'[s]
    BY <2>4
  <2> QED
    BY <2>1, <2>2, <2>9, CountedOn
<1>23. ASSUME NEW s \in Service, StreamEnds(s) PROVE Counted'
  <2>1. UNCHANGED mainVars
    BY <1>23 DEF StreamEnds, mainVars
  <2>2. \A r \in Service : r # s =>
            /\ queue'[r] = queue[r] /\ line'[r] = line[r] /\ pipe'[r] = pipe[r]
            /\ ready'[r] = ready[r]
    BY <1>23
       DEF StreamEnds, childVars, monVars, dataVars, ChildTypes, MonitorTypes
  <2>3. /\ queue[s] \in Nat /\ InHand(s) \in Nat /\ Lines(pipe[s]) \in Nat
        /\ ready[s] \in 0..2 /\ pipe[s] \in Seq(Message)
    BY CountTypes
  <2>4. UNCHANGED <<queue, line, pipe, ready>> /\ InHand(s)' = InHand(s)
    BY <1>23 DEF StreamEnds, childVars, monVars, dataVars, InHand
  <2>9. ~ Start(s).anyLine => \A n \in Nat :
            n + queue[s] + InHand(s) + Lines(pipe[s]) <= ready[s]
                => n + queue'[s] + InHand(s)' + Lines(pipe'[s]) <= ready'[s]
    BY <2>4
  <2> QED
    BY <2>1, <2>2, <2>9, CountedOn
<1>24. ASSUME NEW s \in Service, PrintReady(s) PROVE Counted'
  <2>1. UNCHANGED mainVars
    BY <1>24 DEF PrintReady, mainVars
  <2>2. \A r \in Service : r # s =>
            /\ queue'[r] = queue[r] /\ line'[r] = line[r] /\ pipe'[r] = pipe[r]
            /\ ready'[r] = ready[r]
    BY <1>24
       DEF PrintReady, childVars, monVars, dataVars, ChildTypes, MonitorTypes
  <2>3. /\ queue[s] \in Nat /\ InHand(s) \in Nat /\ Lines(pipe[s]) \in Nat
        /\ ready[s] \in 0..2 /\ pipe[s] \in Seq(Message)
    BY CountTypes
  <2>4. UNCHANGED <<queue, line>> /\ InHand(s)' = InHand(s) /\ pipe'[s] = Append(pipe[s], "ready")
    BY <1>24, <2>3
       DEF PrintReady, childVars, monVars, dataVars, InHand, ChildTypes
  <2>5. ready'[s] = ready[s] + 1
    BY <1>24 DEF PrintReady, ChildTypes
  <2>6. Lines(pipe'[s]) = Lines(pipe[s]) + 1
    BY <2>3, <2>4, LinesAppend
  <2>9. ~ Start(s).anyLine => \A n \in Nat :
            n + queue[s] + InHand(s) + Lines(pipe[s]) <= ready[s]
                => n + queue'[s] + InHand(s)' + Lines(pipe'[s]) <= ready'[s]
    BY <2>3, <2>4, <2>5, <2>6, SMTT(30)
  <2> QED
    BY <2>1, <2>2, <2>9, CountedOn
<1>25. ASSUME NEW s \in Service, PrintOther(s) PROVE Counted'
  <2>1. UNCHANGED mainVars
    BY <1>25 DEF PrintOther, mainVars
  <2>2. \A r \in Service : r # s =>
            /\ queue'[r] = queue[r] /\ line'[r] = line[r] /\ pipe'[r] = pipe[r]
            /\ ready'[r] = ready[r]
    BY <1>25
       DEF PrintOther, childVars, monVars, dataVars, ChildTypes, MonitorTypes
  <2>3. /\ queue[s] \in Nat /\ InHand(s) \in Nat /\ Lines(pipe[s]) \in Nat
        /\ ready[s] \in 0..2 /\ pipe[s] \in Seq(Message)
    BY CountTypes
  <2>4. UNCHANGED <<queue, line>> /\ InHand(s)' = InHand(s) /\ pipe'[s] = Append(pipe[s], "other")
    BY <1>25, <2>3
       DEF PrintOther, childVars, monVars, dataVars, InHand, ChildTypes
  <2>5. ready'[s] = ready[s]
    BY <1>25 DEF PrintOther, ChildTypes
  <2>6. Lines(pipe'[s]) = Lines(pipe[s])
    BY <2>3, <2>4, LinesAppend
  <2>9. ~ Start(s).anyLine => \A n \in Nat :
            n + queue[s] + InHand(s) + Lines(pipe[s]) <= ready[s]
                => n + queue'[s] + InHand(s)' + Lines(pipe'[s]) <= ready'[s]
    BY <2>3, <2>4, <2>5, <2>6
  <2> QED
    BY <2>1, <2>2, <2>9, CountedOn
<1>26. ASSUME NEW s \in Service, BuildExits(s) PROVE Counted'
  <2>1. UNCHANGED mainVars
    BY <1>26 DEF BuildExits, mainVars
  <2>2. \A r \in Service : r # s =>
            /\ queue'[r] = queue[r] /\ line'[r] = line[r] /\ pipe'[r] = pipe[r]
            /\ ready'[r] = ready[r]
    BY <1>26
       DEF BuildExits, childVars, monVars, dataVars, ChildTypes, MonitorTypes
  <2>3. /\ queue[s] \in Nat /\ InHand(s) \in Nat /\ Lines(pipe[s]) \in Nat
        /\ ready[s] \in 0..2 /\ pipe[s] \in Seq(Message)
    BY CountTypes
  <2>4. UNCHANGED <<queue, line, pipe, ready>> /\ InHand(s)' = InHand(s)
    BY <1>26 DEF BuildExits, childVars, monVars, dataVars, InHand
  <2>9. ~ Start(s).anyLine => \A n \in Nat :
            n + queue[s] + InHand(s) + Lines(pipe[s]) <= ready[s]
                => n + queue'[s] + InHand(s)' + Lines(pipe'[s]) <= ready'[s]
    BY <2>4
  <2> QED
    BY <2>1, <2>2, <2>9, CountedOn
<1>27. ASSUME NEW s \in Service, Crash(s) PROVE Counted'
  <2>1. UNCHANGED mainVars
    BY <1>27 DEF Crash, mainVars
  <2>2. \A r \in Service : r # s =>
            /\ queue'[r] = queue[r] /\ line'[r] = line[r] /\ pipe'[r] = pipe[r]
            /\ ready'[r] = ready[r]
    BY <1>27 DEF Crash, childVars, monVars, dataVars, ChildTypes, MonitorTypes
  <2>3. /\ queue[s] \in Nat /\ InHand(s) \in Nat /\ Lines(pipe[s]) \in Nat
        /\ ready[s] \in 0..2 /\ pipe[s] \in Seq(Message)
    BY CountTypes
  <2>4. UNCHANGED <<queue, line, pipe, ready>> /\ InHand(s)' = InHand(s)
    BY <1>27 DEF Crash, childVars, monVars, dataVars, InHand
  <2>9. ~ Start(s).anyLine => \A n \in Nat :
            n + queue[s] + InHand(s) + Lines(pipe[s]) <= ready[s]
                => n + queue'[s] + InHand(s)' + Lines(pipe'[s]) <= ready'[s]
    BY <2>4
  <2> QED
    BY <2>1, <2>2, <2>9, CountedOn
<1>28. ASSUME NEW s \in Service, StopsItself(s) PROVE Counted'
  <2>1. UNCHANGED mainVars
    BY <1>28 DEF StopsItself, mainVars
  <2>2. \A r \in Service : r # s =>
            /\ queue'[r] = queue[r] /\ line'[r] = line[r] /\ pipe'[r] = pipe[r]
            /\ ready'[r] = ready[r]
    BY <1>28
       DEF StopsItself, childVars, monVars, dataVars, ChildTypes, MonitorTypes
  <2>3. /\ queue[s] \in Nat /\ InHand(s) \in Nat /\ Lines(pipe[s]) \in Nat
        /\ ready[s] \in 0..2 /\ pipe[s] \in Seq(Message)
    BY CountTypes
  <2>4. UNCHANGED <<queue, line>> /\ InHand(s)' = InHand(s) /\ pipe'[s] = Append(pipe[s], "other")
    BY <1>28, <2>3
       DEF StopsItself, childVars, monVars, dataVars, InHand, ChildTypes
  <2>5. ready'[s] = ready[s]
    BY <1>28 DEF StopsItself, ChildTypes
  <2>6. Lines(pipe'[s]) = Lines(pipe[s])
    BY <2>3, <2>4, LinesAppend
  <2>9. ~ Start(s).anyLine => \A n \in Nat :
            n + queue[s] + InHand(s) + Lines(pipe[s]) <= ready[s]
                => n + queue'[s] + InHand(s)' + Lines(pipe'[s]) <= ready'[s]
    BY <2>3, <2>4, <2>5, <2>6
  <2> QED
    BY <2>1, <2>2, <2>9, CountedOn
<1>30. CASE CreateMonitors
  <2>1. UNCHANGED <<queue, line, pipe, ready>>
    BY <1>30 DEF CreateMonitors, childVars, monVars, dataVars
  <2>2. main' \in {"fork", "forked", "threads", "created"} => got' = 0
    BY <1>30 DEF CreateMonitors, Fails, Drop, Proceed, Counted
  <2>3. \/ main' \notin Collecting
        \/ main \in Collecting /\ UNCHANGED <<todo, got>>
    BY <1>30 DEF CreateMonitors, Fails, Drop, Proceed, Collecting
  <2> QED
    BY <2>1, <2>2, <2>3, CountedKept
<1>31. CASE Caught
  <2>1. UNCHANGED <<queue, line, pipe, ready>>
    BY <1>31 DEF Caught, childVars, monVars, dataVars
  <2>2. main' \in {"fork", "forked", "threads", "created"} => got' = 0
    BY <1>31 DEF Caught, Fails, Drop, Proceed, Counted
  <2>3. \/ main' \notin Collecting
        \/ main \in Collecting /\ UNCHANGED <<todo, got>>
    BY <1>31 DEF Caught, Fails, Drop, Proceed, Collecting
  <2> QED
    BY <2>1, <2>2, <2>3, CountedKept
<1>32. CASE JoinRaises
  <2>1. UNCHANGED <<queue, line, pipe, ready>>
    BY <1>32 DEF JoinRaises, childVars, monVars, dataVars
  <2>2. main' \in {"fork", "forked", "threads", "created"} => got' = 0
    BY <1>32 DEF JoinRaises, Fails, Drop, Proceed, Counted
  <2>3. \/ main' \notin Collecting
        \/ main \in Collecting /\ UNCHANGED <<todo, got>>
    BY <1>32 DEF JoinRaises, Fails, Drop, Proceed, Collecting
  <2> QED
    BY <2>1, <2>2, <2>3, CountedKept
<1>33. ASSUME NEW s \in Service, PutItem(s) PROVE Counted'
  <2>1. UNCHANGED mainVars
    BY <1>33 DEF PutItem, mainVars
  <2>2. \A r \in Service : r # s =>
            /\ queue'[r] = queue[r] /\ line'[r] = line[r] /\ pipe'[r] = pipe[r]
            /\ ready'[r] = ready[r]
    BY <1>33
       DEF PutItem, childVars, monVars, dataVars, ChildTypes, MonitorTypes
  <2>3. /\ queue[s] \in Nat /\ InHand(s) \in Nat /\ Lines(pipe[s]) \in Nat
        /\ ready[s] \in 0..2 /\ pipe[s] \in Seq(Message)
    BY CountTypes
  <2>4. UNCHANGED <<pipe, ready>> /\ line'[s] = "none"
    BY <1>33 DEF PutItem, childVars, MonitorTypes
  <2>5. ~ Start(s).anyLine => queue'[s] + InHand(s)' <= queue[s] + InHand(s)
    <3>1. InHand(s)' = 0
      BY <2>4 DEF InHand
    <3>2. queue'[s] = queue[s] + 1 /\ Matches(s)
      BY <1>33 DEF PutItem, MonitorTypes, MonitorsInv
    <3> QED
      BY <2>3, <3>1, <3>2 DEF Matches, InHand
  <2>6. queue'[s] \in Int /\ InHand(s)' \in Int
    <3>1. queue'[s] = queue[s] + 1
      BY <1>33 DEF PutItem, MonitorTypes
    <3> QED
      BY <2>3, <3>1 DEF InHand
  <2>7. /\ Lines(pipe'[s]) = Lines(pipe[s]) /\ ready'[s] = ready[s]
    BY <2>4
  <2>9. ~ Start(s).anyLine => \A n \in Nat :
            n + queue[s] + InHand(s) + Lines(pipe[s]) <= ready[s]
                => n + queue'[s] + InHand(s)' + Lines(pipe'[s]) <= ready'[s]
    <3>1. SUFFICES ASSUME ~ Start(s).anyLine, NEW n \in Nat,
                          n + queue[s] + InHand(s) + Lines(pipe[s]) <= ready[s]
                   PROVE  n + queue'[s] + InHand(s)' + Lines(pipe'[s]) <= ready'[s]
      OBVIOUS
    <3>2. queue[s] \in Int /\ InHand(s) \in Int /\ Lines(pipe[s]) \in Int /\ n \in Int
          /\ ready[s] \in Int
      BY <2>3
    <3>3. n + queue'[s] + InHand(s)' + Lines(pipe[s]) <= ready[s]
      BY <2>5, <2>6, <3>1, <3>2, Regroup
    <3> QED
      BY <2>7, <3>3
  <2> QED
    BY <2>1, <2>2, <2>9, CountedOn
<1>29. CASE UNCHANGED launchVars
  <2>1. UNCHANGED <<mainVars, queue, line, pipe, ready>>
    BY <1>29 DEF launchVars, mainVars, childVars, monVars, dataVars
  <2>2. /\ main' \in {"fork", "forked", "threads", "created"} => got' = 0
        /\ \/ main' \notin Collecting
           \/ main \in Collecting /\ UNCHANGED <<todo, got>>
    BY <2>1 DEF mainVars, Counted
  <2> QED
    BY <2>1, <2>2, CountedKept
<1> QED
  BY <1>1, <1>2, <1>3, <1>4, <1>5, <1>6, <1>7, <1>8, <1>9, <1>10, <1>11, <1>12,
     <1>13, <1>14, <1>15, <1>16, <1>17, <1>18, <1>19, <1>20, <1>21, <1>22,
     <1>23, <1>24, <1>25, <1>26, <1>27, <1>28, <1>29, <1>30, <1>31, <1>32, <1>33,
     Zenon
     DEF LaunchNext, MainStep, Monitor, Child

\* The main thread is where it does not look at the monitors.
LEMMA MonitorsKept ==
    ASSUME MonitorsInv,
           \A r \in Service :
               /\ mon'[r] = "created" => mon[r] = "created"
               /\ mon'[r] = "putting" => mon[r] = "putting" /\ line'[r] = line[r],
           reaped \subseteq reaped',
           main \in Interruptible => todo' = todo /\ main' \in Interruptible,
           main' \in {"reap", "join"} => main' = main /\ order' = order
    PROVE  MonitorsInv'
<1>1. main' \in {"reap", "join"} => Victim' = Victim
  BY DEF Victim
<1>2. main' = "join" => Victim' \in reaped'
  BY <1>1 DEF MonitorsInv
<1>3. ASSUME NEW s \in Service, mon'[s] = "created"
      PROVE  \/ todo' # <<>> /\ s = Current' /\ main' \in Interruptible
             \/ s \in reaped' /\ ~ (main' \in {"reap", "join"} /\ Victim' = s)
  BY <1>1, <1>3 DEF MonitorsInv, Current
<1>4. ASSUME NEW s \in Service, mon'[s] = "putting" PROVE Matches(s)'
  BY <1>4 DEF MonitorsInv, Matches
<1> QED
  BY <1>2, <1>3, <1>4 DEF MonitorsInv, Interruptible, Ending

\* Every step keeps track of the monitors that were not started.
LEMMA MonitorsStep ==
    ASSUME MainTypes, ChildTypes, MonitorTypes, FollowsPlan, InstancesInv,
           MonitorsInv, [LaunchNext]_launchVars
    PROVE  MonitorsInv'
<1>1. CASE MakePlan
  <2>1. UNCHANGED <<mon, line>> /\ reaped \subseteq reaped'
    BY <1>1 DEF MakePlan, monVars, handles
  <2>2. /\ main \in Interruptible => todo' = todo /\ main' \in Interruptible
        /\ main' \notin {"reap", "join"}
    BY <1>1 DEF MakePlan, Fails, Proceed, Drop, Interruptible, Ending
  <2> QED
    BY <2>1, <2>2, MonitorsKept
<1>2. CASE AllStarted
  <2>1. UNCHANGED <<mon, line>> /\ reaped \subseteq reaped'
    BY <1>2 DEF AllStarted, monVars, handles
  <2>2. /\ main \in Interruptible => todo' = todo /\ main' \in Interruptible
        /\ main' \notin {"reap", "join"}
    BY <1>2 DEF AllStarted, Fails, Proceed, Drop, Interruptible, Ending
  <2> QED
    BY <2>1, <2>2, MonitorsKept
<1>3. CASE RefuseToStart
  <2>1. UNCHANGED <<mon, line>> /\ reaped \subseteq reaped'
    BY <1>3 DEF RefuseToStart, monVars, handles
  <2>2. /\ main \in Interruptible => todo' = todo /\ main' \in Interruptible
        /\ main' \notin {"reap", "join"}
    BY <1>3 DEF RefuseToStart, Fails, Proceed, Drop, Interruptible, Ending
  <2> QED
    BY <2>1, <2>2, MonitorsKept
<1>4. CASE BeginLog
  <2>1. UNCHANGED <<mon, line>> /\ reaped \subseteq reaped'
    BY <1>4 DEF BeginLog, monVars, handles
  <2>2. /\ main \in Interruptible => todo' = todo /\ main' \in Interruptible
        /\ main' \notin {"reap", "join"}
    BY <1>4 DEF BeginLog, Fails, Proceed, Drop, Interruptible, Ending
  <2> QED
    BY <2>1, <2>2, MonitorsKept
<1>5. CASE CreateInstance
  <2>1. UNCHANGED <<mon, line>> /\ reaped \subseteq reaped'
    BY <1>5 DEF CreateInstance, monVars, handles
  <2>2. /\ main \in Interruptible => todo' = todo /\ main' \in Interruptible
        /\ main' \notin {"reap", "join"}
    BY <1>5 DEF CreateInstance, Fails, Proceed, Drop, Interruptible, Ending
  <2> QED
    BY <2>1, <2>2, MonitorsKept
<1>6. CASE Fork
  <2>1. UNCHANGED <<mon, line>> /\ reaped \subseteq reaped'
    BY <1>6 DEF Fork, monVars, handles
  <2>2. /\ main \in Interruptible => todo' = todo /\ main' \in Interruptible
        /\ main' \notin {"reap", "join"}
    BY <1>6 DEF Fork, Fails, Proceed, Drop, Interruptible, Ending
  <2> QED
    BY <2>1, <2>2, MonitorsKept
<1>7. CASE ForkFails
  <2>1. UNCHANGED <<mon, line>> /\ reaped \subseteq reaped'
    BY <1>7 DEF ForkFails, monVars, handles
  <2>2. /\ main \in Interruptible => todo' = todo /\ main' \in Interruptible
        /\ main' \notin {"reap", "join"}
    BY <1>7 DEF ForkFails, Fails, Proceed, Drop, Interruptible, Ending
  <2> QED
    BY <2>1, <2>2, MonitorsKept
<1>8. CASE KeepHandle
  <2>1. UNCHANGED <<mon, line>> /\ reaped \subseteq reaped'
    BY <1>8 DEF KeepHandle, monVars, handles
  <2>2. /\ main \in Interruptible => todo' = todo /\ main' \in Interruptible
        /\ main' \notin {"reap", "join"}
    BY <1>8 DEF KeepHandle, Fails, Proceed, Drop, Interruptible, Ending
  <2> QED
    BY <2>1, <2>2, MonitorsKept
<1>9. CASE StartMonitors
  <2>1. /\ main = "created" /\ main' \in {"next", "wait", "waitexit"} /\ Current \in Service
        /\ UNCHANGED <<line, reaped>> /\ mon' = [mon EXCEPT ![Current] = "reading"]
    BY <1>9, AtWork DEF StartMonitors, Proceed, handles, Starting
  <2>2. \A r \in Service : mon'[r] \in {"created", "putting"} => r # Current /\ mon'[r] = mon[r]
    BY <2>1 DEF MonitorTypes
  <2> QED
    BY <2>1, <2>2 DEF MonitorsInv, Matches, Interruptible, Ending
<1>10. CASE EventSeen
  <2>1. UNCHANGED <<mon, line>> /\ reaped \subseteq reaped'
    BY <1>10 DEF EventSeen, monVars, handles
  <2>2. /\ main \in Interruptible => todo' = todo /\ main' \in Interruptible
        /\ main' \notin {"reap", "join"}
    BY <1>10 DEF EventSeen, Fails, Proceed, Drop, Interruptible, Ending
  <2> QED
    BY <2>1, <2>2, MonitorsKept
<1>11. CASE DrainQueue
  <2>1. UNCHANGED <<mon, line>> /\ reaped \subseteq reaped'
    BY <1>11 DEF DrainQueue, monVars, handles
  <2>2. /\ main \in Interruptible => todo' = todo /\ main' \in Interruptible
        /\ main' \notin {"reap", "join"}
    BY <1>11 DEF DrainQueue, Fails, Proceed, Drop, Interruptible, Ending
  <2> QED
    BY <2>1, <2>2, MonitorsKept
<1>12. CASE ClearEvent
  <2>1. UNCHANGED <<mon, line>> /\ reaped \subseteq reaped'
    BY <1>12 DEF ClearEvent, monVars, handles
  <2>2. /\ main \in Interruptible => todo' = todo /\ main' \in Interruptible
        /\ main' \notin {"reap", "join"}
    BY <1>12 DEF ClearEvent, Fails, Proceed, Drop, Interruptible, Ending
  <2> QED
    BY <2>1, <2>2, MonitorsKept
<1>13. CASE BuildEnds
  <2>1. UNCHANGED <<mon, line>> /\ reaped \subseteq reaped'
    BY <1>13 DEF BuildEnds, monVars, handles
  <2>2. /\ main \in Interruptible => todo' = todo /\ main' \in Interruptible
        /\ main' \notin {"reap", "join"}
    BY <1>13 DEF BuildEnds, Fails, Proceed, Drop, Interruptible, Ending
  <2> QED
    BY <2>1, <2>2, MonitorsKept
<1>14. CASE StopNothing
  <2>1. UNCHANGED <<mon, line>> /\ reaped \subseteq reaped'
    BY <1>14 DEF StopNothing, monVars, handles
  <2>2. /\ main \in Interruptible => todo' = todo /\ main' \in Interruptible
        /\ main' \notin {"reap", "join"}
    BY <1>14 DEF StopNothing, Fails, Proceed, Drop, Interruptible, Ending
  <2> QED
    BY <2>1, <2>2, MonitorsKept
<1>15. CASE Terminate
  <2>1. /\ main = "stopping" /\ main' = "reap" /\ Victim \notin reaped
        /\ UNCHANGED <<mon, line, reaped, todo, order>>
    BY <1>15 DEF Terminate, monVars, handles
  <2>2. Victim' = Victim /\ Current' = Current
    BY <2>1 DEF Victim, Current
  <2> QED
    BY <2>1, <2>2 DEF MonitorsInv, Matches, Interruptible, Ending
<1>16. CASE Reap
  <2>1. /\ main = "reap" /\ main' = "join" /\ reaped' = reaped \cup {Victim}
        /\ UNCHANGED <<mon, line, todo, order>>
    BY <1>16 DEF Reap, monVars
  <2>2. Victim' = Victim /\ Current' = Current
    BY <2>1 DEF Victim, Current
  <2> QED
    BY <2>1, <2>2 DEF MonitorsInv, Matches, Interruptible, Ending
<1>17. CASE Join
  <2>1. UNCHANGED <<mon, line>> /\ reaped \subseteq reaped'
    BY <1>17 DEF Join, monVars, handles
  <2>2. /\ main \in Interruptible => todo' = todo /\ main' \in Interruptible
        /\ main' \notin {"reap", "join"}
    BY <1>17 DEF Join, Fails, Proceed, Drop, Interruptible, Ending
  <2> QED
    BY <2>1, <2>2, MonitorsKept
<1>18. CASE Exit
  <2>1. UNCHANGED <<mon, line>> /\ reaped \subseteq reaped'
    BY <1>18 DEF Exit, monVars, handles
  <2>2. /\ main \in Interruptible => todo' = todo /\ main' \in Interruptible
        /\ main' \notin {"reap", "join"}
    BY <1>18 DEF Exit, Fails, Proceed, Drop, Interruptible, Ending
  <2> QED
    BY <2>1, <2>2, MonitorsKept
<1>19. CASE Signal
  <2>1. UNCHANGED <<mon, line>> /\ reaped \subseteq reaped'
    BY <1>19 DEF Signal, monVars, handles
  <2>2. /\ main \in Interruptible => todo' = todo /\ main' \in Interruptible
        /\ main' \notin {"reap", "join"}
    BY <1>19 DEF Signal, Fails, Proceed, Drop, Interruptible, Ending
  <2> QED
    BY <2>1, <2>2, MonitorsKept
<1>20. ASSUME NEW s \in Service, ReadLine(s) PROVE MonitorsInv'
  <2>1. UNCHANGED <<mainVars, reaped>>
    BY <1>20 DEF ReadLine, mainVars, handles
  <2>2. \A r \in Service :
            /\ mon'[r] = "created" => mon[r] = "created"
            /\ mon'[r] = "putting" => mon[r] = "putting" /\ line'[r] = line[r]
    BY <1>20 DEF ReadLine, MonitorTypes
  <2> QED
    BY <2>1, <2>2, MonitorsKept DEF mainVars
<1>21. ASSUME NEW s \in Service, LineLogged(s) PROVE MonitorsInv'
  <2>1. UNCHANGED <<mainVars, reaped>>
    BY <1>21 DEF LineLogged, mainVars, handles
  <2>2. \A r \in Service : r # s => mon'[r] = mon[r] /\ line'[r] = line[r]
    BY <1>21 DEF LineLogged, MonitorTypes
  <2>3. mon'[s] # "created" /\ (mon'[s] = "putting" => Matches(s) /\ line'[s] = line[s])
    BY <1>21 DEF LineLogged, MonitorTypes
  <2>4. Victim' = Victim /\ Current' = Current
    BY <2>1 DEF Victim, Current, mainVars
  <2> QED
    BY <2>1, <2>2, <2>3, <2>4 DEF MonitorsInv, Matches, Interruptible, Ending, mainVars
<1>22. ASSUME NEW s \in Service, SetEvent(s) PROVE MonitorsInv'
  <2>1. UNCHANGED <<mainVars, reaped>>
    BY <1>22 DEF SetEvent, mainVars, handles
  <2>2. \A r \in Service :
            /\ mon'[r] = "created" => mon[r] = "created"
            /\ mon'[r] = "putting" => mon[r] = "putting" /\ line'[r] = line[r]
    BY <1>22 DEF SetEvent, MonitorTypes
  <2> QED
    BY <2>1, <2>2, MonitorsKept DEF mainVars
<1>23. ASSUME NEW s \in Service, StreamEnds(s) PROVE MonitorsInv'
  <2>1. UNCHANGED <<mainVars, reaped>>
    BY <1>23 DEF StreamEnds, mainVars, handles
  <2>2. \A r \in Service :
            /\ mon'[r] = "created" => mon[r] = "created"
            /\ mon'[r] = "putting" => mon[r] = "putting" /\ line'[r] = line[r]
    BY <1>23 DEF StreamEnds, MonitorTypes
  <2> QED
    BY <2>1, <2>2, MonitorsKept DEF mainVars
<1>24. ASSUME NEW s \in Service, PrintReady(s) PROVE MonitorsInv'
  <2>1. UNCHANGED <<mainVars, reaped>>
    BY <1>24 DEF PrintReady, mainVars, handles
  <2>2. \A r \in Service :
            /\ mon'[r] = "created" => mon[r] = "created"
            /\ mon'[r] = "putting" => mon[r] = "putting" /\ line'[r] = line[r]
    BY <1>24 DEF PrintReady, monVars
  <2> QED
    BY <2>1, <2>2, MonitorsKept DEF mainVars
<1>25. ASSUME NEW s \in Service, PrintOther(s) PROVE MonitorsInv'
  <2>1. UNCHANGED <<mainVars, reaped>>
    BY <1>25 DEF PrintOther, mainVars, handles
  <2>2. \A r \in Service :
            /\ mon'[r] = "created" => mon[r] = "created"
            /\ mon'[r] = "putting" => mon[r] = "putting" /\ line'[r] = line[r]
    BY <1>25 DEF PrintOther, monVars
  <2> QED
    BY <2>1, <2>2, MonitorsKept DEF mainVars
<1>26. ASSUME NEW s \in Service, BuildExits(s) PROVE MonitorsInv'
  <2>1. UNCHANGED <<mainVars, reaped>>
    BY <1>26 DEF BuildExits, mainVars, handles
  <2>2. \A r \in Service :
            /\ mon'[r] = "created" => mon[r] = "created"
            /\ mon'[r] = "putting" => mon[r] = "putting" /\ line'[r] = line[r]
    BY <1>26 DEF BuildExits, monVars
  <2> QED
    BY <2>1, <2>2, MonitorsKept DEF mainVars
<1>27. ASSUME NEW s \in Service, Crash(s) PROVE MonitorsInv'
  <2>1. UNCHANGED <<mainVars, reaped>>
    BY <1>27 DEF Crash, mainVars, handles
  <2>2. \A r \in Service :
            /\ mon'[r] = "created" => mon[r] = "created"
            /\ mon'[r] = "putting" => mon[r] = "putting" /\ line'[r] = line[r]
    BY <1>27 DEF Crash, monVars
  <2> QED
    BY <2>1, <2>2, MonitorsKept DEF mainVars
<1>28. ASSUME NEW s \in Service, StopsItself(s) PROVE MonitorsInv'
  <2>1. UNCHANGED <<mainVars, reaped>>
    BY <1>28 DEF StopsItself, mainVars, handles
  <2>2. \A r \in Service :
            /\ mon'[r] = "created" => mon[r] = "created"
            /\ mon'[r] = "putting" => mon[r] = "putting" /\ line'[r] = line[r]
    BY <1>28 DEF StopsItself, monVars
  <2> QED
    BY <2>1, <2>2, MonitorsKept DEF mainVars
<1>30. CASE CreateMonitors
  <2>1. /\ main = "threads" /\ main' = "created" /\ Current \in Service /\ todo # <<>>
        /\ UNCHANGED <<line, reaped, todo>> /\ mon' = [mon EXCEPT ![Current] = "created"]
    BY <1>30, AtWork DEF CreateMonitors, handles, Starting
  <2>2. \A r \in Service : r # Current => mon'[r] = mon[r]
    BY <2>1 DEF MonitorTypes
  <2>3. Current' = Current /\ mon'[Current] = "created"
    BY <2>1 DEF Current, MonitorTypes
  <2> QED
    BY <2>1, <2>2, <2>3 DEF MonitorsInv, Matches, Interruptible, Ending
<1>31. CASE Caught
  <2>1. UNCHANGED <<mon, line>> /\ reaped \subseteq reaped'
    BY <1>31 DEF Caught, monVars, handles
  <2>2. /\ main \in Interruptible => todo' = todo /\ main' \in Interruptible
        /\ main' \notin {"reap", "join"}
    BY <1>31 DEF Caught, Fails, Proceed, Drop, Interruptible, Ending
  <2> QED
    BY <2>1, <2>2, MonitorsKept
<1>32. CASE JoinRaises
  <2>1. /\ main = "join" /\ main' = "raised" /\ UNCHANGED <<mon, line, todo, reaped>>
        /\ Victim = Current
    BY <1>32, Interrupted DEF JoinRaises, monVars, handles
  <2>2. \A s \in Service : mon[s] = "created" => s \in reaped
    BY <2>1 DEF MonitorsInv
  <2> QED
    BY <2>1, <2>2 DEF MonitorsInv, Matches, Interruptible, Ending
<1>33. ASSUME NEW s \in Service, PutItem(s) PROVE MonitorsInv'
  <2>1. UNCHANGED <<mainVars, reaped>>
    BY <1>33 DEF PutItem, mainVars, handles
  <2>2. \A r \in Service :
            /\ mon'[r] = "created" => mon[r] = "created"
            /\ mon'[r] = "putting" => mon[r] = "putting" /\ line'[r] = line[r]
    BY <1>33 DEF PutItem, MonitorTypes
  <2> QED
    BY <2>1, <2>2, MonitorsKept DEF mainVars
<1>29. CASE UNCHANGED launchVars
  <2>1. UNCHANGED <<mainVars, reaped, mon, line>>
    BY <1>29 DEF launchVars, handles, monVars
  <2> QED
    BY <2>1, MonitorsKept DEF mainVars
<1> QED
  BY <1>1, <1>2, <1>3, <1>4, <1>5, <1>6, <1>7, <1>8, <1>9, <1>10, <1>11, <1>12,
     <1>13, <1>14, <1>15, <1>16, <1>17, <1>18, <1>19, <1>20, <1>21, <1>22,
     <1>23, <1>24, <1>25, <1>26, <1>27, <1>28, <1>29, <1>30, <1>31, <1>32, <1>33,
     Zenon
     DEF LaunchNext, MainStep, Monitor, Child

-----------------------------------------------------------------------------
\* The theorems about the launcher.

\* The inductive invariant holds before the plan is made, and every step keeps it.
LEMMA LaunchInvInit == LaunchInit => LaunchIndInv
<1> SUFFICES ASSUME LaunchInit PROVE LaunchIndInv
  OBVIOUS
<1>1. MainTypes /\ ChildTypes /\ MonitorTypes
  <2>1. <<>> \in Plans /\ <<>> \in Seq(Service) /\ <<>> \in Seq({"ready", "other"})
    BY DEF Plans
  <2>2. MainTypes
    BY <2>1, LaunchBounds DEF LaunchInit, MainTypes
  <2>3. ChildTypes
    BY <2>1 DEF LaunchInit, ChildTypes
  <2>4. MonitorTypes
    BY DEF LaunchInit, MonitorTypes
  <2> QED
    BY <2>2, <2>3, <2>4
<1>2. /\ main \notin Starting \cup {"logging"} /\ main \notin Ending /\ Done = 0
      /\ main \notin {"reap", "join", "exited"} /\ main \notin Collecting /\ main = "plan"
  BY DEF LaunchInit, Starting, Collecting, Ending, Done
<1>3. FollowsPlan
  BY <1>2 DEF FollowsPlan, LaunchInit
<1>4. PassedAreUp
  BY <1>2 DEF PassedAreUp, Collecting
<1>5. InstancesInv
  BY <1>2 DEF InstancesInv, Distinct, LaunchInit
<1>6. ProcessesInv
  BY <1>2 DEF ProcessesInv, LaunchInit
<1>7. Counted
  <2>1. ASSUME NEW s \in Service
        PROVE  Taken(s) = 0 /\ queue[s] = 0 /\ InHand(s) = 0 /\ pipe[s] = <<>> /\ ready[s] = 0
    BY <1>2 DEF LaunchInit, Taken, InHand
  <2>2. Lines(<<>>) = 0
    <3>1. {i \in 1..Len(<<>>) : <<>>[i] = "ready"} = {}
      OBVIOUS
    <3> QED
      BY <3>1, FS_EmptySet DEF Lines
  <2> QED
    BY <1>2, <2>1, <2>2 DEF Counted
<1>8. MonitorsInv
  BY <1>2 DEF MonitorsInv, LaunchInit
<1> QED
  BY <1>1, <1>3, <1>4, <1>5, <1>6, <1>7, <1>8, LaunchTypeParts DEF LaunchIndInv

LEMMA LaunchInvStep == LaunchIndInv /\ [LaunchNext]_launchVars => LaunchIndInv'
<1> SUFFICES ASSUME LaunchIndInv, [LaunchNext]_launchVars PROVE LaunchIndInv'
  OBVIOUS
<1>1. /\ MainTypes /\ ChildTypes /\ MonitorTypes /\ FollowsPlan /\ PassedAreUp
      /\ InstancesInv /\ ProcessesInv /\ Counted /\ MonitorsInv
  BY LaunchTypeParts DEF LaunchIndInv
<1>2. MainTypes'
  BY <1>1, MainTypesStep
<1>3. ChildTypes'
  BY <1>1, ChildTypesStep
<1>4. MonitorTypes'
  BY <1>1, MonitorTypesStep
<1>5. FollowsPlan'
  BY <1>1, FollowsStep
<1>6. PassedAreUp'
  BY <1>1, <1>3, UpStep
<1>7. InstancesInv' /\ ProcessesInv'
  BY <1>1, InstancesStep, ProcessesStep
<1>8. Counted'
  BY <1>1, CountedStep
<1>9. LaunchTypeOK'
  BY <1>2, <1>3, <1>4
     DEF LaunchTypeOK, MainTypes, ChildTypes, MonitorTypes, Plans
<1>10. MonitorsInv'
  BY <1>1, MonitorsStep
<1> QED
  BY <1>5, <1>6, <1>7, <1>8, <1>9, <1>10 DEF LaunchIndInv

LEMMA LaunchInduction == LaunchSpec => []LaunchIndInv
<1>1. LaunchInit => LaunchIndInv
  BY LaunchInvInit
<1>2. LaunchIndInv /\ [LaunchNext]_launchVars => LaunchIndInv'
  BY LaunchInvStep
<1> QED
  BY <1>1, <1>2, PTL DEF LaunchSpec

\* The inductive invariant answers for the order of the starts.
LEMMA LaunchInvFollows == LaunchIndInv => LaunchInv
<1> SUFFICES ASSUME LaunchIndInv PROVE LaunchInv
  OBVIOUS
<1>1. MainTypes /\ FollowsPlan /\ PassedAreUp /\ LaunchTypeOK
  BY LaunchTypeParts DEF LaunchIndInv
<1>2. /\ ThePlan \in Plans /\ Len(ThePlan) \in Nat /\ Done \in Int
      /\ \A i, j \in 1..Len(ThePlan) :
             ThePlan[i] = ThePlan[j] /\ ThePlan[i] \in Service => i = j
  BY <1>1, PlanFacts
<1>3. AwaitedIsUp
  <2>1. SUFFICES ASSUME NEW s \in Service, NEW t \in Service,
                        Start(s).fatal, Precedes(s, t), child[t] # "none"
                 PROVE  Up(s)
    BY DEF AwaitedIsUp, Up
  <2>2. PICK j \in 1..Len(ThePlan) : ThePlan[j] = t /\ \E i \in 1..(j - 1) : ThePlan[i] = s
    BY <1>2, <2>1 DEF Precedes, ThePlan, Plans
  <2>3. PICK i \in 1..(j - 1) : ThePlan[i] = s
    BY <2>2
  <2>4. Reached(t, Unplanned \cup {"fork"})
    BY <1>1, <2>1 DEF FollowsPlan
  <2>5. PICK k \in 1..Len(ThePlan) : ThePlan[k] = t /\ (k <= Done \/ k = Done + 1)
    BY <2>4 DEF Reached
  <2>6. k = j
    BY <1>2, <2>2, <2>5
  <2>7. i <= Done /\ i \in 1..Len(ThePlan)
    BY <1>2, <2>3, <2>5, <2>6
  <2> QED
    BY <1>1, <2>1, <2>3, <2>7 DEF PassedAreUp
<1>4. SourceHasTerminal
  <2>1. SUFFICES ASSUME NEW t \in {"emulator", "simulator", "replay"},
                        Precedes("server", t), ~ Precedes("raise", t)
                 PROVE  Precedes("socat", t)
    BY DEF SourceHasTerminal
  <2>2. DOMAIN ThePlan = 1..Len(ThePlan)
    BY <1>2 DEF Plans
  <2>3. PICK j \in 1..Len(ThePlan) : ThePlan[j] = t /\ \E i \in 1..(j - 1) : ThePlan[i] = "server"
    BY <2>1, <2>2 DEF Precedes, ThePlan
  <2>4. PICK i \in 1..(j - 1) : ThePlan[i] = "server"
    BY <2>3
  <2>5. i \in 1..Len(ThePlan) /\ i < j
    BY <1>2, <2>3, <2>4
  <2>6. inv \in Considered /\ machine \in Machines
    BY <1>1 DEF MainTypes
  <2>7. PICK n \in 1..(j - 1) : ThePlan[n] \in {"raise", "socat"}
    BY <2>3, <2>5, <2>6, TerminalFirst DEF ThePlan
  <2>8. Precedes(ThePlan[n], t)
    BY <2>2, <2>3, <2>7 DEF Precedes, ThePlan
  <2> QED
    BY <2>1, <2>7, <2>8
<1> QED
  BY <1>1, <1>3, <1>4 DEF LaunchInv

\* Whatever is configured, asked for and found, and however it is interrupted:
\* nothing runs before what it relies on is up (rocket.py, start_services).
THEOREM LaunchTheorem == LaunchSpec => []LaunchInv
  BY LaunchInduction, LaunchInvFollows, PTL

\* When the launcher exits, it leaves no process it holds running (cleanup()).
THEOREM NothingLeftTheorem == LaunchSpec => []NothingLeftBehind
<1>1. LaunchIndInv => NothingLeftBehind
  BY DEF LaunchIndInv, InstancesInv, ProcessesInv, NothingLeftBehind, Ended
<1> QED
  BY <1>1, LaunchInduction, PTL

-----------------------------------------------------------------------------
\* The stream of the LabVIEW listener.

\* A set of numbers that has a bound has a greatest one.
LEMMA Greatest ==
    ASSUME NEW n \in Nat, NEW T \in SUBSET (1..n), T # {}
    PROVE  \E m \in T : \A k \in T : k <= m
<1> DEFINE R == OpToRel(<, Nat)
           U == {n - k : k \in T}
<1>1. \A x, y \in Nat : <<y, x>> \in R <=> y < x
  BY DEF OpToRel
<1>2. IsWellFoundedOn(R, Nat)
  BY NatLessThanWellFounded, Zenon
<1>3. U \subseteq Nat /\ U # {}
  <2>1. ASSUME NEW k \in T PROVE n - k \in Nat
    <3>1. k \in 1..n
      OBVIOUS
    <3> QED
      BY <3>1
  <2>2. PICK k \in T : TRUE
    OBVIOUS
  <2>3. n - k \in U
    OBVIOUS
  <2> QED
    BY <2>1, <2>3
<1> HIDE DEF R, U
<1>4. PICK x \in U : \A y \in U : ~(<<y, x>> \in R)
  BY <1>2, <1>3, WFMin, Zenon
<1>5. PICK m \in T : x = n - m
  BY DEF U
<1>6. ASSUME NEW k \in T PROVE k <= m
  <2>1. n - k \in U /\ n - k \in Nat /\ x \in Nat
    BY <1>3 DEF U
  <2>2. ~(n - k < x)
    BY <1>1, <1>4, <2>1
  <2>3. k \in 1..n /\ m \in 1..n
    OBVIOUS
  <2> QED
    BY <1>5, <2>2, <2>3
<1> QED
  BY <1>6

-----------------------------------------------------------------------------
\* The stream holds the last parts sent, in order and without a gap, and so does
\* the chunk taken from it; the rows are behind both.

Before(x, y) == x.cluster < y.cluster \/ (x.cluster = y.cluster /\ x.part < y.part)
InOrder(q) == \A i, j \in 1..Len(q) : i < j => Before(q[i], q[j])
NoGap(q) ==
    \A i, j \in 1..Len(q), x \in Part :
        Before(q[i], x) /\ Before(x, q[j]) => \E k \in 1..Len(q) : q[k] = x

StreamInv ==
    /\ InOrder(stream)
    /\ \A i \in 1..Len(stream) : stream[i].cluster <= clusters
    /\ \A i \in 1..Len(stream), x \in Part :
           Before(stream[i], x) /\ x.cluster <= clusters
               => \E k \in 1..Len(stream) : stream[k] = x

ChunkInv ==
    /\ InOrder(chunk) /\ NoGap(chunk)
    /\ \A i \in 1..Len(chunk) : chunk[i].cluster <= clusters
    /\ \A i \in 1..Len(chunk), j \in 1..Len(stream) : Before(chunk[i], stream[j])

Behind(r) ==
    /\ \A p \in 1..Parts : r[p] <= clusters
    /\ \A i \in 1..Len(stream) : r[stream[i].part] < stream[i].cluster
    /\ \A i \in 1..Len(chunk) : r[chunk[i].part] < chunk[i].cluster

RowInv == \A r \in {row, logged, published} : Behind(r)

LabviewInv == LabviewTypeOK /\ StreamInv /\ ChunkInv /\ RowInv

\* ... from the start.
LEMMA LabviewInvInit == LabviewInit => LabviewInv
<1> SUFFICES ASSUME LabviewInit PROVE LabviewInv
  OBVIOUS
<1>1. LabviewTypeOK
  <2>1. NoRow \in [1..Parts -> 0..MaxClusters]
    BY LabviewAssumption DEF NoRow
  <2>2. <<>> \in Seq(Part) /\ 0 \in 0..MaxClusters /\ 0 \in 0..MaxTrouble
    BY LabviewAssumption
  <2>3. /\ listener = "sleep" /\ socket = "fresh" /\ server = FALSE
        /\ stream = <<>> /\ clusters = 0 /\ chunk = <<>>
        /\ row = NoRow /\ logged = NoRow /\ published = NoRow /\ trouble = 0
    BY DEF LabviewInit
  <2> QED
    BY <2>1, <2>2, <2>3, Zenon DEF LabviewTypeOK
<1>2. StreamInv /\ ChunkInv
  BY DEF LabviewInit, StreamInv, ChunkInv, InOrder, NoGap
<1>3. RowInv
  <2>1. SUFFICES ASSUME NEW r \in {row, logged, published} PROVE Behind(r)
    BY DEF RowInv
  <2>2. r = NoRow /\ clusters = 0 /\ stream = <<>> /\ chunk = <<>>
    BY DEF LabviewInit
  <2>3. \A p \in 1..Parts : r[p] = 0
    BY <2>2 DEF NoRow
  <2> QED
    BY <2>2, <2>3 DEF Behind
<1> QED
  BY <1>1, <1>2, <1>3 DEF LabviewInv


\* Fewer parts, and a row that is one of the old: nothing to see.
LEMMA NothingReceived ==
    ASSUME LabviewInv, UNCHANGED <<stream, clusters>>,
           chunk' = chunk \/ chunk' = <<>>,
           {row', logged', published'} \subseteq {row, logged, published}
    PROVE  StreamInv' /\ ChunkInv' /\ RowInv'
<1>1. StreamInv'
  BY DEF LabviewInv, StreamInv, InOrder
<1>2. ChunkInv'
  BY DEF LabviewInv, ChunkInv, InOrder, NoGap
<1>3. ASSUME NEW r \in {row', logged', published'} PROVE Behind(r)'
  <2>1. Behind(r)
    BY DEF LabviewInv, RowInv
  <2>2. r' = r
    OBVIOUS
  <2> QED
    BY <2>1 DEF Behind
<1> QED
  BY <1>1, <1>2, <1>3 DEF RowInv

\* The cluster of a part, and the order of the parts.
LEMMA Orders ==
    ASSUME NEW x \in Part, NEW y \in Part
    PROVE  /\ x.cluster \in Int /\ x.part \in Int /\ x.cluster >= 1 /\ x.part \in 1..Parts
           /\ ~ (Before(x, y) /\ Before(y, x)) /\ ~ Before(x, x)
           /\ x.part = y.part /\ Before(x, y) => x.cluster < y.cluster
  BY LabviewAssumption DEF Part, Before

\* A chunk is received, and a torn part is lost.
LEMMA ReceiveStep == LabviewInv /\ Receive => StreamInv' /\ ChunkInv' /\ RowInv'
<1> SUFFICES ASSUME LabviewInv, Receive PROVE StreamInv' /\ ChunkInv' /\ RowInv'
  OBVIOUS
<1>1. /\ stream \in Seq(Part) /\ Len(stream) \in Nat /\ StreamInv /\ RowInv
      /\ UNCHANGED <<clusters, row, logged, published>>
  BY DEF LabviewInv, LabviewTypeOK, Receive
<1>2. PICK n \in 1..Len(stream), torn \in BOOLEAN :
          /\ stream' = SubSeq(stream, n + 1, Len(stream))
          /\ chunk' = SubSeq(stream, 1, IF torn THEN n - 1 ELSE n)
  BY DEF Receive
<1> DEFINE m == IF torn THEN n - 1 ELSE n
<1>3. m \in 0..n /\ n \in 1..Len(stream)
  BY <1>1
<1>4. /\ Len(stream') = Len(stream) - n
      /\ \A i \in 1..Len(stream') : n + i \in 1..Len(stream) /\ stream'[i] = stream[n + i]
  <2>1. \A i \in n + 1..Len(stream) : stream[i] \in Part
    BY <1>1, <1>3
  <2>2. /\ Len(stream') = IF n + 1 <= Len(stream) THEN Len(stream) - (n + 1) + 1 ELSE 0
        /\ \A i \in 1..Len(stream) - (n + 1) + 1 : stream'[i] = stream[(n + 1) + i - 1]
    BY <1>1, <1>2, <1>3, <2>1, SubSeqProperties
  <2>3. Len(stream') = Len(stream) - n
    <3>1. Len(stream) \in Nat /\ n \in 1..Len(stream)
      BY <1>1
    <3>2. Len(stream') = IF n + 1 <= Len(stream) THEN Len(stream) - (n + 1) + 1 ELSE 0
      BY <2>2
    <3> QED
      BY <3>1, <3>2
  <2>4. ASSUME NEW i \in 1..Len(stream')
        PROVE  n + i \in 1..Len(stream) /\ stream'[i] = stream[n + i]
    <3>1. i \in 1..Len(stream) - (n + 1) + 1 /\ (n + 1) + i - 1 = n + i
      BY <1>1, <1>3, <2>3
    <3> QED
      BY <1>1, <1>3, <2>2, <2>3, <3>1
  <2> QED
    BY <2>3, <2>4
<1>5. /\ Len(chunk') = m
      /\ \A i \in 1..Len(chunk') : i \in 1..Len(stream) /\ chunk'[i] = stream[i]
  <2> HIDE DEF m
  <2>1. \A i \in 1..m : stream[i] \in Part
    BY <1>1, <1>3
  <2>2. /\ Len(SubSeq(stream, 1, m)) = IF 1 <= m THEN m - 1 + 1 ELSE 0
        /\ \A i \in 1..m - 1 + 1 : SubSeq(stream, 1, m)[i] = stream[1 + i - 1]
    BY <1>1, <1>3, <2>1, SubSeqProperties
  <2>3. chunk' = SubSeq(stream, 1, m)
    BY <1>2 DEF m
  <2> QED
    BY <1>1, <1>3, <2>2, <2>3
<1> HIDE DEF m
<1>6. \A i \in 1..Len(stream) : stream[i] \in Part
  BY <1>1
<1>7. InOrder(stream)
  BY <1>1 DEF StreamInv
<1>8. StreamInv'
  <2>1. InOrder(stream')
    <3>1. SUFFICES ASSUME NEW i \in 1..Len(stream'), NEW j \in 1..Len(stream'), i < j
                   PROVE  Before(stream'[i], stream'[j])
      BY DEF InOrder
    <3>2. /\ n + i \in 1..Len(stream) /\ n + j \in 1..Len(stream) /\ n + i < n + j
          /\ stream'[i] = stream[n + i] /\ stream'[j] = stream[n + j]
      BY <1>3, <1>4, <3>1
    <3> QED
      BY <1>7, <3>2 DEF InOrder
  <2>2. \A i \in 1..Len(stream') : stream'[i].cluster <= clusters
    <3>1. \A i \in 1..Len(stream) : stream[i].cluster <= clusters
      BY <1>1 DEF StreamInv
    <3> QED
      BY <1>4, <3>1
  <2>3. ASSUME NEW i \in 1..Len(stream'), NEW x \in Part,
               Before(stream'[i], x), x.cluster <= clusters
        PROVE  \E k \in 1..Len(stream') : stream'[k] = x
    <3>1. n + i \in 1..Len(stream) /\ Before(stream[n + i], x)
      BY <1>4, <2>3
    <3>2. PICK k \in 1..Len(stream) : stream[k] = x
      BY <1>1, <2>3, <3>1 DEF StreamInv
    <3>3. k # n + i /\ ~(k < n + i)
      BY <1>6, <1>7, <3>1, <3>2, Orders DEF InOrder
    <3>4. k - n \in 1..Len(stream') /\ n + (k - n) = k
      BY <1>1, <1>3, <1>4, <3>1, <3>2, <3>3
    <3> QED
      BY <1>4, <3>2, <3>4
  <2> QED
    BY <1>1, <2>1, <2>2, <2>3 DEF StreamInv
<1>9. ChunkInv'
  <2>1. InOrder(chunk')
    BY <1>3, <1>5, <1>7 DEF InOrder
  <2>2. \A i \in 1..Len(chunk') : chunk'[i].cluster <= clusters
    BY <1>1, <1>5 DEF StreamInv
  <2>3. ASSUME NEW i \in 1..Len(chunk'), NEW j \in 1..Len(stream')
        PROVE  Before(chunk'[i], stream'[j])
    <3>1. i < n + j
      BY <1>1, <1>3, <1>5
    <3> QED
      BY <1>4, <1>5, <1>7, <3>1 DEF InOrder
  <2>4. ASSUME NEW i \in 1..Len(chunk'), NEW j \in 1..Len(chunk'), NEW x \in Part,
               Before(chunk'[i], x), Before(x, chunk'[j])
        PROVE  \E k \in 1..Len(chunk') : chunk'[k] = x
    <3>1. /\ i \in 1..Len(stream) /\ j \in 1..Len(stream) /\ j <= m
          /\ Before(stream[i], x) /\ Before(x, stream[j])
      BY <1>3, <1>5, <2>4
    <3>2. x.cluster <= clusters
      <4>1. stream[j].cluster <= clusters /\ x.cluster <= stream[j].cluster
        BY <1>1, <1>6, <3>1, Orders DEF StreamInv, Before
      <4>2. clusters \in Int /\ x.cluster \in Int /\ stream[j].cluster \in Int
        BY <1>6, <3>1, Orders DEF LabviewInv, LabviewTypeOK
      <4> QED
        BY <4>1, <4>2
    <3>3. PICK k \in 1..Len(stream) : stream[k] = x
      BY <1>1, <3>1, <3>2 DEF StreamInv
    <3>4. k # j /\ ~(j < k)
      BY <1>6, <1>7, <3>1, <3>3, Orders DEF InOrder
    <3>5. k \in 1..Len(chunk')
      BY <1>3, <1>5, <3>1, <3>4
    <3> QED
      BY <1>5, <3>3, <3>5
  <2> QED
    BY <1>1, <2>1, <2>2, <2>3, <2>4 DEF ChunkInv, NoGap
<1>10. RowInv'
  <2>1. SUFFICES ASSUME NEW r \in {row, logged, published}
                 PROVE  /\ \A p \in 1..Parts : r[p] <= clusters'
                        /\ \A i \in 1..Len(stream') : r[stream'[i].part] < stream'[i].cluster
                        /\ \A i \in 1..Len(chunk') : r[chunk'[i].part] < chunk'[i].cluster
    BY <1>1 DEF RowInv, Behind
  <2>2. Behind(r)
    BY <1>1 DEF RowInv
  <2> QED
    BY <1>1, <1>4, <1>5, <2>2 DEF Behind
<1> QED
  BY <1>8, <1>9, <1>10

-----------------------------------------------------------------------------
\* A cluster is sent, a row is parsed.

\* A cluster is sent.
LEMMA SendStep ==
    LabviewInv /\ SendCluster => LabviewTypeOK' /\ StreamInv' /\ ChunkInv' /\ RowInv'
<1> SUFFICES ASSUME LabviewInv, SendCluster
             PROVE  LabviewTypeOK' /\ StreamInv' /\ ChunkInv' /\ RowInv'
  OBVIOUS
<1> DEFINE c == clusters + 1
           sent == [part \in 1..Parts |-> [cluster |-> c, part |-> part]]
<1>1. /\ stream \in Seq(Part) /\ Len(stream) \in Nat /\ clusters \in Nat
      /\ c \in 1..MaxClusters /\ Parts \in Nat /\ clusters < c
      /\ LabviewTypeOK /\ StreamInv /\ ChunkInv /\ RowInv
  BY LabviewAssumption DEF LabviewInv, LabviewTypeOK, SendCluster
<1>2. /\ clusters' = c /\ stream' = stream \o sent
      /\ UNCHANGED <<listener, socket, server, trouble, chunk, row, logged, published>>
  BY DEF SendCluster, rows
<1> HIDE DEF c
<1>3. /\ sent \in Seq(Part) /\ Len(sent) = Parts
      /\ \A p \in 1..Parts : sent[p].cluster = c /\ sent[p].part = p
  BY <1>1 DEF Part
<1> HIDE DEF sent
<1>4. /\ stream' \in Seq(Part) /\ Len(stream') = Len(stream) + Parts
      /\ \A i \in 1..Len(stream) : stream'[i] = stream[i]
      /\ \A p \in 1..Parts : stream'[Len(stream) + p] = sent[p]
  <2>1. /\ stream' \in Seq(Part) /\ Len(stream') = Len(stream) + Len(sent)
        /\ \A i \in 1..Len(stream) + Len(sent) :
               stream'[i] = IF i <= Len(stream) THEN stream[i] ELSE sent[i - Len(stream)]
    BY <1>1, <1>2, <1>3, ConcatProperties
  <2>2. ASSUME NEW p \in 1..Parts PROVE stream'[Len(stream) + p] = sent[p]
    <3>1. /\ Len(stream) + p \in 1..Len(stream) + Len(sent) /\ ~(Len(stream) + p <= Len(stream))
          /\ (Len(stream) + p) - Len(stream) = p
      BY <1>1, <1>3
    <3> QED
      BY <2>1, <3>1
  <2> QED
    BY <1>1, <1>3, <2>1, <2>2
<1>5. \A i \in 1..Len(stream') :
          \/ /\ i \in 1..Len(stream) /\ stream'[i] = stream[i]
             /\ stream'[i].cluster \in Int /\ stream'[i].cluster <= clusters
          \/ /\ i \notin 1..Len(stream) /\ i - Len(stream) \in 1..Parts
             /\ stream'[i].cluster = c /\ stream'[i].part = i - Len(stream)
  <2>1. SUFFICES ASSUME NEW i \in 1..Len(stream')
                 PROVE  \/ /\ i \in 1..Len(stream) /\ stream'[i] = stream[i]
                           /\ stream'[i].cluster \in Int /\ stream'[i].cluster <= clusters
                        \/ /\ i \notin 1..Len(stream) /\ i - Len(stream) \in 1..Parts
                           /\ stream'[i].cluster = c /\ stream'[i].part = i - Len(stream)
    OBVIOUS
  <2>2. CASE i \in 1..Len(stream)
    <3>1. stream[i].cluster \in Int /\ stream[i].cluster <= clusters
      BY <1>1, <2>2, Orders DEF StreamInv
    <3> QED
      BY <1>4, <2>2, <3>1
  <2>3. CASE i \notin 1..Len(stream)
    <3>1. i - Len(stream) \in 1..Parts /\ Len(stream) + (i - Len(stream)) = i
      BY <1>1, <1>4, <2>3
    <3> QED
      BY <1>3, <1>4, <2>3, <3>1
  <2> QED
    BY <2>2, <2>3
<1>6. \A i \in 1..Len(stream) : stream[i] \in Part
  BY <1>1
<1>7. LabviewTypeOK'
  <2>1. clusters' \in 0..MaxClusters
    BY <1>1, <1>2
  <2>2. {row', logged', published'} = {row, logged, published}
    BY <1>2
  <2> QED
    BY <1>1, <1>2, <1>4, <2>1, <2>2, Zenon DEF LabviewTypeOK
<1>8. StreamInv'
  <2>1. ASSUME NEW i \in 1..Len(stream'), NEW j \in 1..Len(stream'), i < j
        PROVE  Before(stream'[i], stream'[j])
    <3>1. CASE i \in 1..Len(stream) /\ j \in 1..Len(stream)
      BY <1>1, <1>4, <2>1, <3>1 DEF StreamInv, InOrder
    <3>2. CASE i \in 1..Len(stream) /\ j \notin 1..Len(stream)
      <4>1. stream'[i].cluster <= clusters /\ stream'[i].cluster \in Int /\ stream'[j].cluster = c
        BY <1>5, <3>2
      <4> QED
        BY <1>1, <4>1 DEF Before
    <3>3. CASE i \notin 1..Len(stream)
      <4>1. j \notin 1..Len(stream)
        BY <1>1, <2>1, <3>3
      <4>2. /\ stream'[i].cluster = c /\ stream'[j].cluster = c
            /\ stream'[i].part = i - Len(stream) /\ stream'[j].part = j - Len(stream)
        BY <1>5, <3>3, <4>1
      <4> QED
        BY <1>1, <2>1, <4>2 DEF Before
    <3> QED
      BY <3>1, <3>2, <3>3
  <2>2. ASSUME NEW i \in 1..Len(stream') PROVE stream'[i].cluster <= clusters'
    <3>1. stream'[i].cluster = c \/ (stream'[i].cluster \in Int /\ stream'[i].cluster <= clusters)
      BY <1>5
    <3> QED
      BY <1>1, <1>2, <3>1
  <2>3. ASSUME NEW i \in 1..Len(stream'), NEW x \in Part,
               Before(stream'[i], x), x.cluster <= clusters'
        PROVE  \E k \in 1..Len(stream') : stream'[k] = x
    <3>1. CASE x.cluster = c
      <4>1. x.part \in 1..Parts /\ x = sent[x.part]
        BY <1>1, <3>1, Orders DEF Part, sent
      <4>2. Len(stream) + x.part \in 1..Len(stream')
        BY <1>1, <1>4, <4>1
      <4> QED
        BY <1>4, <4>1, <4>2
    <3>2. CASE x.cluster # c
      <4>1. x.cluster <= clusters /\ x.cluster < c /\ x.cluster \in Int
        BY <1>1, <1>2, <2>3, <3>2, Orders DEF c
      <4>2. i \in 1..Len(stream) /\ stream'[i] = stream[i]
        BY <1>1, <1>5, <2>3, <4>1 DEF Before
      <4>3. PICK k \in 1..Len(stream) : stream[k] = x
        BY <1>1, <2>3, <4>1, <4>2 DEF StreamInv
      <4>4. k \in 1..Len(stream') /\ stream'[k] = x
        BY <1>1, <1>4, <4>3
      <4> QED
        BY <4>4
    <3> QED
      BY <3>1, <3>2
  <2> QED
    BY <2>1, <2>2, <2>3 DEF StreamInv, InOrder
<1>9. ChunkInv'
  <2>1. ASSUME NEW i \in 1..Len(chunk)
        PROVE  /\ chunk[i].cluster \in Int /\ chunk[i].cluster <= clusters
               /\ chunk[i].cluster < c /\ chunk[i].cluster <= c
    <3>1. chunk[i].cluster \in Int
      BY <1>1, Orders DEF LabviewTypeOK
    <3>2. chunk[i].cluster <= clusters
      BY <1>1 DEF ChunkInv
    <3> QED
      BY <1>1, <3>1, <3>2
  <2>2. ASSUME NEW i \in 1..Len(chunk), NEW j \in 1..Len(stream')
        PROVE  Before(chunk[i], stream'[j])
    <3>1. CASE j \in 1..Len(stream) /\ stream'[j] = stream[j]
      BY <1>1, <3>1 DEF ChunkInv
    <3>2. CASE stream'[j].cluster = c
      BY <2>1, <3>2 DEF Before
    <3> QED
      BY <1>5, <3>1, <3>2
  <2> QED
    BY <1>1, <1>2, <2>1, <2>2 DEF ChunkInv, InOrder, NoGap
<1>10. RowInv'
  <2>1. SUFFICES ASSUME NEW r \in {row, logged, published}
                 PROVE  /\ \A p \in 1..Parts : r[p] <= c
                        /\ \A i \in 1..Len(stream') : r[stream'[i].part] < stream'[i].cluster
                        /\ \A i \in 1..Len(chunk) : r[chunk[i].part] < chunk[i].cluster
    BY <1>2 DEF RowInv, Behind
  <2>2. Behind(r) /\ r \in [1..Parts -> 0..MaxClusters]
    BY <1>1 DEF RowInv, LabviewTypeOK
  <2>3. ASSUME NEW p \in 1..Parts PROVE r[p] <= c /\ r[p] < c
    <3>1. r[p] \in Int /\ r[p] <= clusters
      BY <2>2 DEF Behind
    <3> QED
      BY <1>1, <3>1
  <2>4. ASSUME NEW i \in 1..Len(stream') PROVE r[stream'[i].part] < stream'[i].cluster
    <3>1. CASE i \in 1..Len(stream) /\ stream'[i] = stream[i]
      BY <2>2, <3>1 DEF Behind
    <3>2. CASE stream'[i].cluster = c /\ stream'[i].part \in 1..Parts
      BY <2>3, <3>2
    <3> QED
      BY <1>5, <3>1, <3>2
  <2> QED
    BY <2>2, <2>3, <2>4 DEF Behind
<1> QED
  BY <1>7, <1>8, <1>9, <1>10

\* The last value a name has in the chunk.
LEMMA LastReading ==
    ASSUME LabviewTypeOK, NEW p \in 1..Parts, LastIn(p) # {}
    PROVE  \E i \in 1..Len(chunk) :
               /\ chunk[i].part = p /\ Reading(p) = chunk[i].cluster
               /\ \A j \in 1..Len(chunk) : chunk[j].part = p => j <= i
<1>1. chunk \in Seq(Part) /\ Len(chunk) \in Nat /\ DOMAIN chunk = 1..Len(chunk)
  BY DEF LabviewTypeOK
<1>2. LastIn(p) \in SUBSET (1..Len(chunk))
  BY <1>1 DEF LastIn
<1>3. \E m \in LastIn(p) : \A k \in LastIn(p) : k <= m
  BY <1>1, <1>2, Greatest
<1> DEFINE i == CHOOSE m \in LastIn(p) : \A k \in LastIn(p) : k <= m
<1>4. i \in LastIn(p) /\ \A k \in LastIn(p) : k <= i
  BY <1>3, Zenon
<1>5. Reading(p) = chunk[i].cluster
  BY DEF Reading
<1> HIDE DEF i
<1>6. i \in 1..Len(chunk) /\ chunk[i].part = p
  BY <1>1, <1>4 DEF LastIn
<1>7. ASSUME NEW j \in 1..Len(chunk), chunk[j].part = p PROVE j <= i
  BY <1>1, <1>4, <1>7 DEF LastIn
<1> QED
  BY <1>5, <1>6, <1>7

\* A row is parsed.
LEMMA ParseStep ==
    ASSUME LabviewInv, Parse
    PROVE  /\ LabviewTypeOK' /\ StreamInv' /\ ChunkInv' /\ RowInv'
           /\ row' # row =>
                 /\ \A p, q \in 1..Parts : row'[p] <= row'[q] + 1
                 /\ \A p \in 1..Parts : row'[p] >= published[p] /\ row'[p] >= logged[p]
<1>1. LabviewTypeOK /\ StreamInv /\ ChunkInv /\ RowInv
  BY DEF LabviewInv
<1>2. /\ UNCHANGED <<socket, server, stream, clusters, trouble, logged, published>>
      /\ chunk' = <<>> /\ chunk' \in Seq(Part)
  BY DEF Parse, peer
<1>3. ASSUME listener' = "died", row' = row
      PROVE  LabviewTypeOK' /\ StreamInv' /\ ChunkInv' /\ RowInv'
  <2>1. LabviewTypeOK'
    BY <1>1, <1>2, <1>3 DEF LabviewTypeOK, Over
  <2> QED
    BY <1>2, <1>3, <2>1, NothingReceived
<1>4. ASSUME ~ \E part \in 1..Parts : LastIn(part) = {},
             listener' = "log", row' = [part \in 1..Parts |-> Reading(part)]
      PROVE  /\ LabviewTypeOK' /\ StreamInv' /\ ChunkInv' /\ RowInv'
             /\ \A p, q \in 1..Parts : row'[p] <= row'[q] + 1
             /\ \A p \in 1..Parts : row'[p] >= published[p] /\ row'[p] >= logged[p]
  <2>1. ASSUME NEW p \in 1..Parts
        PROVE  \E i \in 1..Len(chunk) :
                   /\ chunk[i].part = p /\ row'[p] = chunk[i].cluster
                   /\ \A j \in 1..Len(chunk) : chunk[j].part = p => j <= i
    BY <1>1, <1>4, LastReading
  <2>2. \A i \in 1..Len(chunk) : chunk[i] \in Part
    BY <1>1 DEF LabviewTypeOK
  <2>3. \A i \in 1..Len(stream) : stream[i] \in Part
    BY <1>1 DEF LabviewTypeOK
  <2>4. clusters \in 0..MaxClusters /\ MaxClusters \in Nat
    BY <1>1, LabviewAssumption DEF LabviewTypeOK
  <2>5. ASSUME NEW p \in 1..Parts PROVE row'[p] \in 0..MaxClusters /\ row'[p] <= clusters
    <3>1. PICK i \in 1..Len(chunk) : row'[p] = chunk[i].cluster
      BY <2>1
    <3>2. chunk[i].cluster \in Int /\ chunk[i].cluster >= 1 /\ chunk[i].cluster <= clusters
      BY <1>1, <2>2, Orders DEF ChunkInv
    <3> QED
      BY <2>4, <3>1, <3>2
  <2>6. row' \in [1..Parts -> 0..MaxClusters]
    BY <1>4, <2>5
  <2>7. LabviewTypeOK'
    <3>1. \A r \in {row', logged', published'} : r \in [1..Parts -> 0..MaxClusters]
      BY <1>1, <1>2, <2>6 DEF LabviewTypeOK
    <3>2. listener' \in {"sleep", "connect", "pause", "recv", "parse", "log", "publish"} \cup Over
      BY <1>4
    <3> QED
      BY <1>1, <1>2, <3>1, <3>2, Zenon DEF LabviewTypeOK
  <2>8. StreamInv' /\ ChunkInv'
    BY <1>1, <1>2 DEF StreamInv, ChunkInv, InOrder, NoGap
  <2>9. RowInv'
    <3>1. ASSUME NEW r \in {row', logged', published'} PROVE Behind(r)'
      <4>1. CASE r \in {logged, published}
        BY <1>1, <1>2, <4>1 DEF RowInv, Behind
      <4>2. CASE r = row'
        <5>1. ASSUME NEW j \in 1..Len(stream)
              PROVE  row'[stream[j].part] < stream[j].cluster
          <6>1. stream[j].part \in 1..Parts
            BY <2>3, Orders
          <6>2. PICK i \in 1..Len(chunk) :
                    chunk[i].part = stream[j].part /\ row'[stream[j].part] = chunk[i].cluster
            BY <2>1, <6>1
          <6>3. Before(chunk[i], stream[j])
            BY <1>1 DEF ChunkInv
          <6> QED
            BY <2>2, <2>3, <6>2, <6>3, Orders
        <5> QED
          BY <1>2, <2>5, <4>2, <5>1 DEF Behind
      <4> QED
        BY <1>2, <4>1, <4>2
    <3> QED
      BY <3>1 DEF RowInv
  <2>10. ASSUME NEW p \in 1..Parts, NEW q \in 1..Parts PROVE row'[p] <= row'[q] + 1
    <3>1. PICK i \in 1..Len(chunk) : chunk[i].part = p /\ row'[p] = chunk[i].cluster
      BY <2>1
    <3>2. PICK k \in 1..Len(chunk) :
              /\ chunk[k].part = q /\ row'[q] = chunk[k].cluster
              /\ \A j \in 1..Len(chunk) : chunk[j].part = q => j <= k
      BY <2>1
    <3>3. /\ chunk[i].cluster \in 1..MaxClusters /\ chunk[k].cluster \in 1..MaxClusters
      BY <2>2 DEF Part
    <3>4. SUFFICES ASSUME ~(chunk[i].cluster <= chunk[k].cluster + 1) PROVE FALSE
      BY <3>1, <3>2
    <3> DEFINE x == [cluster |-> chunk[k].cluster + 1, part |-> q]
    <3>5. x \in Part
      BY <2>4, <3>3, <3>4 DEF Part
    <3>6. Before(chunk[k], x) /\ Before(x, chunk[i])
      BY <3>3, <3>4 DEF Before
    <3>7. PICK l \in 1..Len(chunk) : chunk[l] = x
      BY <1>1, <3>5, <3>6 DEF ChunkInv, NoGap
    <3>8. chunk[l].part = q
      BY <3>7
    <3>9. l <= k
      BY <3>2, <3>8
    <3>10. l = k \/ Before(chunk[l], chunk[k])
      BY <1>1, <3>9 DEF ChunkInv, InOrder
    <3> QED
      BY <2>2, <3>5, <3>6, <3>7, <3>10, Orders
  <2>11. ASSUME NEW p \in 1..Parts PROVE row'[p] >= published[p] /\ row'[p] >= logged[p]
    <3>1. PICK i \in 1..Len(chunk) : chunk[i].part = p /\ row'[p] = chunk[i].cluster
      BY <2>1
    <3>2. /\ published[p] < chunk[i].cluster /\ logged[p] < chunk[i].cluster
      BY <1>1, <3>1 DEF RowInv, Behind
    <3>3. published[p] \in 0..MaxClusters /\ logged[p] \in 0..MaxClusters
      BY <1>1 DEF LabviewTypeOK
    <3>4. chunk[i].cluster \in Int
      BY <2>2, Orders
    <3> QED
      BY <3>1, <3>2, <3>3, <3>4
  <2> QED
    BY <2>7, <2>8, <2>9, <2>10, <2>11
<1>5. CASE \E part \in 1..Parts : LastIn(part) = {}
  <2>1. listener' = "died" /\ row' = row
    BY <1>5 DEF Parse
  <2> QED
    BY <1>3, <2>1
<1>6. CASE ~ \E part \in 1..Parts : LastIn(part) = {}
  <2>1. listener' = "log" /\ row' = [part \in 1..Parts |-> Reading(part)]
    BY <1>6 DEF Parse
  <2> QED
    BY <1>4, <1>6, <2>1
<1> QED
  BY <1>5, <1>6

-----------------------------------------------------------------------------
\* Every step of the listener.

Forward ==
    row' # row =>
        /\ \A p, q \in 1..Parts : row'[p] <= row'[q] + 1
        /\ \A p \in 1..Parts : row'[p] >= published[p] /\ row'[p] >= logged[p]

\* Trouble is bounded.
LEMMA TroubleBound ==
    ASSUME LabviewTypeOK
    PROVE  trouble \in 0..MaxTrouble /\ (Trouble => trouble' \in 0..MaxTrouble)
<1>1. trouble \in 0..MaxTrouble
  BY DEF LabviewTypeOK
<1> QED
  BY <1>1, LabviewAssumption DEF Trouble

\* Whatever the listener and its server do.
LEMMA LabviewStep ==
    ASSUME LabviewInv,
           Listener \/ Unreachable \/ LabviewServer \/ (PublishRow /\ UNCHANGED trouble)
    PROVE  LabviewInv' /\ Forward
<1>1. LabviewTypeOK /\ (Trouble => trouble' \in 0..MaxTrouble)
  BY TroubleBound DEF LabviewInv
<1>2. ASSUME LabviewTypeOK', UNCHANGED <<row, stream, clusters>>, chunk' = chunk,
             {logged', published'} \subseteq {row, logged, published}
      PROVE  LabviewInv' /\ Forward
  <2>1. {row', logged', published'} \subseteq {row, logged, published}
    BY <1>2
  <2> QED
    BY <1>2, <2>1, NothingReceived DEF LabviewInv, Forward
<1>3. CASE Retry
  <2>1. /\ UNCHANGED <<row, stream, clusters, chunk>>
        /\ {logged', published'} \subseteq {row, logged, published}
    BY <1>3 DEF Retry, peer, rows
  <2>2. /\ listener' \in {"sleep", "connect", "pause", "recv", "parse", "log", "publish"} \cup Over
        /\ socket' \in {"fresh", "connected", "gone"} /\ server' \in BOOLEAN
        /\ trouble' \in 0..MaxTrouble
    BY <1>1, <1>3, Zenon DEF Retry, peer, Over, LabviewTypeOK
  <2>3. \A r \in {row', logged', published'} : r \in [1..Parts -> 0..MaxClusters]
    BY <1>1, <2>1 DEF LabviewTypeOK
  <2>4. LabviewTypeOK'
    BY <1>1, <2>1, <2>2, <2>3, Zenon DEF LabviewTypeOK
  <2> QED
    BY <1>2, <2>1, <2>4
<1>4. CASE Connected
  <2>1. /\ UNCHANGED <<row, stream, clusters, chunk>>
        /\ {logged', published'} \subseteq {row, logged, published}
    BY <1>4 DEF Connected, peer, rows
  <2>2. /\ listener' \in {"sleep", "connect", "pause", "recv", "parse", "log", "publish"} \cup Over
        /\ socket' \in {"fresh", "connected", "gone"} /\ server' \in BOOLEAN
        /\ trouble' \in 0..MaxTrouble
    BY <1>1, <1>4, Zenon DEF Connected, peer, Over, LabviewTypeOK
  <2>3. \A r \in {row', logged', published'} : r \in [1..Parts -> 0..MaxClusters]
    BY <1>1, <2>1 DEF LabviewTypeOK
  <2>4. LabviewTypeOK'
    BY <1>1, <2>1, <2>2, <2>3, Zenon DEF LabviewTypeOK
  <2> QED
    BY <1>2, <2>1, <2>4
<1>5. CASE ConnectionRefused
  <2>1. /\ UNCHANGED <<row, stream, clusters, chunk>>
        /\ {logged', published'} \subseteq {row, logged, published}
    BY <1>5 DEF ConnectionRefused, peer, rows
  <2>2. /\ listener' \in {"sleep", "connect", "pause", "recv", "parse", "log", "publish"} \cup Over
        /\ socket' \in {"fresh", "connected", "gone"} /\ server' \in BOOLEAN
        /\ trouble' \in 0..MaxTrouble
    BY <1>1, <1>5, Zenon DEF ConnectionRefused, peer, Over, LabviewTypeOK
  <2>3. \A r \in {row', logged', published'} : r \in [1..Parts -> 0..MaxClusters]
    BY <1>1, <2>1 DEF LabviewTypeOK
  <2>4. LabviewTypeOK'
    BY <1>1, <2>1, <2>2, <2>3, Zenon DEF LabviewTypeOK
  <2> QED
    BY <1>2, <2>1, <2>4
<1>6. CASE Unreachable
  <2>1. /\ UNCHANGED <<row, stream, clusters, chunk>>
        /\ {logged', published'} \subseteq {row, logged, published}
    BY <1>6 DEF Unreachable, peer, rows
  <2>2. /\ listener' \in {"sleep", "connect", "pause", "recv", "parse", "log", "publish"} \cup Over
        /\ socket' \in {"fresh", "connected", "gone"} /\ server' \in BOOLEAN
        /\ trouble' \in 0..MaxTrouble
    BY <1>1, <1>6, Zenon DEF Unreachable, peer, Over, LabviewTypeOK
  <2>3. \A r \in {row', logged', published'} : r \in [1..Parts -> 0..MaxClusters]
    BY <1>1, <2>1 DEF LabviewTypeOK
  <2>4. LabviewTypeOK'
    BY <1>1, <2>1, <2>2, <2>3, Zenon DEF LabviewTypeOK
  <2> QED
    BY <1>2, <2>1, <2>4
<1>7. CASE AlreadyConnected
  <2>1. /\ UNCHANGED <<row, stream, clusters, chunk>>
        /\ {logged', published'} \subseteq {row, logged, published}
    BY <1>7 DEF AlreadyConnected, peer, rows
  <2>2. /\ listener' \in {"sleep", "connect", "pause", "recv", "parse", "log", "publish"} \cup Over
        /\ socket' \in {"fresh", "connected", "gone"} /\ server' \in BOOLEAN
        /\ trouble' \in 0..MaxTrouble
    BY <1>1, <1>7, Zenon DEF AlreadyConnected, peer, Over, LabviewTypeOK
  <2>3. \A r \in {row', logged', published'} : r \in [1..Parts -> 0..MaxClusters]
    BY <1>1, <2>1 DEF LabviewTypeOK
  <2>4. LabviewTypeOK'
    BY <1>1, <2>1, <2>2, <2>3, Zenon DEF LabviewTypeOK
  <2> QED
    BY <1>2, <2>1, <2>4
<1>8. CASE Pause
  <2>1. /\ UNCHANGED <<row, stream, clusters, chunk>>
        /\ {logged', published'} \subseteq {row, logged, published}
    BY <1>8 DEF Pause, peer, rows
  <2>2. /\ listener' \in {"sleep", "connect", "pause", "recv", "parse", "log", "publish"} \cup Over
        /\ socket' \in {"fresh", "connected", "gone"} /\ server' \in BOOLEAN
        /\ trouble' \in 0..MaxTrouble
    BY <1>1, <1>8, Zenon DEF Pause, peer, Over, LabviewTypeOK
  <2>3. \A r \in {row', logged', published'} : r \in [1..Parts -> 0..MaxClusters]
    BY <1>1, <2>1 DEF LabviewTypeOK
  <2>4. LabviewTypeOK'
    BY <1>1, <2>1, <2>2, <2>3, Zenon DEF LabviewTypeOK
  <2> QED
    BY <1>2, <2>1, <2>4
<1>9. CASE Disconnected
  <2>1. /\ UNCHANGED <<row, stream, clusters, chunk>>
        /\ {logged', published'} \subseteq {row, logged, published}
    BY <1>9 DEF Disconnected, peer, rows
  <2>2. /\ listener' \in {"sleep", "connect", "pause", "recv", "parse", "log", "publish"} \cup Over
        /\ socket' \in {"fresh", "connected", "gone"} /\ server' \in BOOLEAN
        /\ trouble' \in 0..MaxTrouble
    BY <1>1, <1>9, Zenon DEF Disconnected, peer, Over, LabviewTypeOK
  <2>3. \A r \in {row', logged', published'} : r \in [1..Parts -> 0..MaxClusters]
    BY <1>1, <2>1 DEF LabviewTypeOK
  <2>4. LabviewTypeOK'
    BY <1>1, <2>1, <2>2, <2>3, Zenon DEF LabviewTypeOK
  <2> QED
    BY <1>2, <2>1, <2>4
<1>10. CASE SaveToLog
  <2>1. /\ UNCHANGED <<row, stream, clusters, chunk>>
        /\ {logged', published'} \subseteq {row, logged, published}
    BY <1>10 DEF SaveToLog, peer, rows
  <2>2. /\ listener' \in {"sleep", "connect", "pause", "recv", "parse", "log", "publish"} \cup Over
        /\ socket' \in {"fresh", "connected", "gone"} /\ server' \in BOOLEAN
        /\ trouble' \in 0..MaxTrouble
    BY <1>1, <1>10, Zenon DEF SaveToLog, peer, Over, LabviewTypeOK
  <2>3. \A r \in {row', logged', published'} : r \in [1..Parts -> 0..MaxClusters]
    BY <1>1, <2>1 DEF LabviewTypeOK
  <2>4. LabviewTypeOK'
    BY <1>1, <2>1, <2>2, <2>3, Zenon DEF LabviewTypeOK
  <2> QED
    BY <1>2, <2>1, <2>4
<1>11. CASE Serve
  <2>1. /\ UNCHANGED <<row, stream, clusters, chunk>>
        /\ {logged', published'} \subseteq {row, logged, published}
    BY <1>11 DEF Serve, peer, rows
  <2>2. /\ listener' \in {"sleep", "connect", "pause", "recv", "parse", "log", "publish"} \cup Over
        /\ socket' \in {"fresh", "connected", "gone"} /\ server' \in BOOLEAN
        /\ trouble' \in 0..MaxTrouble
    BY <1>1, <1>11, Zenon DEF Serve, peer, Over, LabviewTypeOK
  <2>3. \A r \in {row', logged', published'} : r \in [1..Parts -> 0..MaxClusters]
    BY <1>1, <2>1 DEF LabviewTypeOK
  <2>4. LabviewTypeOK'
    BY <1>1, <2>1, <2>2, <2>3, Zenon DEF LabviewTypeOK
  <2> QED
    BY <1>2, <2>1, <2>4
<1>12. CASE Disconnect
  <2>1. /\ UNCHANGED <<row, stream, clusters, chunk>>
        /\ {logged', published'} \subseteq {row, logged, published}
    BY <1>12 DEF Disconnect, peer, rows
  <2>2. /\ listener' \in {"sleep", "connect", "pause", "recv", "parse", "log", "publish"} \cup Over
        /\ socket' \in {"fresh", "connected", "gone"} /\ server' \in BOOLEAN
        /\ trouble' \in 0..MaxTrouble
    BY <1>1, <1>12, Zenon DEF Disconnect, peer, Over, LabviewTypeOK
  <2>3. \A r \in {row', logged', published'} : r \in [1..Parts -> 0..MaxClusters]
    BY <1>1, <2>1 DEF LabviewTypeOK
  <2>4. LabviewTypeOK'
    BY <1>1, <2>1, <2>2, <2>3, Zenon DEF LabviewTypeOK
  <2> QED
    BY <1>2, <2>1, <2>4
<1>13. CASE PublishRow /\ UNCHANGED trouble
  <2>1. /\ UNCHANGED <<row, stream, clusters, chunk>>
        /\ {logged', published'} \subseteq {row, logged, published}
    BY <1>13 DEF PublishRow, peer, rows
  <2>2. /\ listener' \in {"sleep", "connect", "pause", "recv", "parse", "log", "publish"} \cup Over
        /\ socket' \in {"fresh", "connected", "gone"} /\ server' \in BOOLEAN
        /\ trouble' \in 0..MaxTrouble
    BY <1>1, <1>13, Zenon DEF PublishRow, peer, Over, LabviewTypeOK
  <2>3. \A r \in {row', logged', published'} : r \in [1..Parts -> 0..MaxClusters]
    BY <1>1, <2>1 DEF LabviewTypeOK
  <2>4. LabviewTypeOK'
    BY <1>1, <2>1, <2>2, <2>3, Zenon DEF LabviewTypeOK
  <2> QED
    BY <1>2, <2>1, <2>4
<1>14. CASE Receive
  <2>1. StreamInv' /\ ChunkInv' /\ RowInv' /\ UNCHANGED <<row, logged, published>>
    BY <1>14, ReceiveStep DEF Receive
  <2>2. stream' \in Seq(Part) /\ chunk' \in Seq(Part)
    <3>1. \A i \in 1..Len(stream) : stream[i] \in Part
      BY <1>1 DEF LabviewTypeOK
    <3>2. ASSUME NEW a \in Int, NEW b \in Int, a >= 1, b <= Len(stream)
          PROVE  SubSeq(stream, a, b) \in Seq(Part)
      <4>1. \A i \in a..b : stream[i] \in Part
        BY <3>1, <3>2
      <4> QED
        BY <4>1, SubSeqProperties
    <3>3. PICK m \in 1..Len(stream), torn \in BOOLEAN :
              /\ stream' = SubSeq(stream, m + 1, Len(stream))
              /\ chunk' = SubSeq(stream, 1, IF torn THEN m - 1 ELSE m)
      BY <1>14 DEF Receive
    <3>4. Len(stream) \in Nat
      BY <1>1 DEF LabviewTypeOK
    <3>5. stream' \in Seq(Part)
      BY <3>2, <3>3, <3>4
    <3>6. m - 1 \in Int /\ m - 1 <= Len(stream) /\ m \in Int /\ m <= Len(stream) /\ 1 \in Int
      BY <3>4
    <3>7. SubSeq(stream, 1, m - 1) \in Seq(Part) /\ SubSeq(stream, 1, m) \in Seq(Part)
      BY <3>2, <3>6
    <3>8. chunk' = SubSeq(stream, 1, m - 1) \/ chunk' = SubSeq(stream, 1, m)
      BY <3>3
    <3> QED
      BY <3>5, <3>7, <3>8
  <2>3. LabviewTypeOK'
    <3>1. {row', logged', published'} = {row, logged, published}
      BY <2>1
    <3>2. listener' \in {"pause", "parse"} /\ UNCHANGED <<socket, server, clusters, trouble>>
      BY <1>14 DEF Receive
    <3> QED
      BY <1>1, <2>2, <3>1, <3>2, Zenon DEF LabviewTypeOK
  <2> QED
    BY <2>1, <2>3 DEF LabviewInv, Forward
<1>15. CASE Parse
  BY <1>15, ParseStep DEF LabviewInv, Forward
<1>16. CASE SendCluster
  <2>1. row' = row
    BY <1>16 DEF SendCluster, rows
  <2> QED
    BY <1>16, <2>1, SendStep DEF LabviewInv, Forward
<1> QED
  BY <1>3, <1>4, <1>5, <1>6, <1>7, <1>8, <1>9, <1>10, <1>11, <1>12, <1>13,
     <1>14, <1>15, <1>16, Zenon
     DEF Listener, LabviewServer

\* A session may have the network or the log in trouble.
LEMMA LabviewTroubled ==
    ASSUME LabviewInv,
           UNCHANGED <<listener, socket, server, stream, clusters, chunk, row, logged, published>>,
           Trouble \/ UNCHANGED trouble
    PROVE  LabviewInv' /\ Forward
<1>1. LabviewTypeOK /\ trouble' \in 0..MaxTrouble
  BY TroubleBound DEF LabviewInv
<1>2. {row', logged', published'} = {row, logged, published}
  OBVIOUS
<1>3. LabviewTypeOK'
  BY <1>1, <1>2, Zenon DEF LabviewTypeOK
<1>4. StreamInv' /\ ChunkInv' /\ RowInv'
  BY <1>2, NothingReceived
<1> QED
  BY <1>3, <1>4 DEF LabviewInv, Forward

-----------------------------------------------------------------------------
\* The sessions of the frontend API.

Sources == {"pendant", "server", "labview", "ping", "log"}
RowValues == [1..Parts -> 0..MaxClusters]
Seen == [pendant : 0..MaxStates, row : RowValues]
Map(f) == f = [s \in Session |-> f[s]]

ApiTypes ==
    /\ stopping \in BOOLEAN /\ focus \in Focuses /\ shifted \subseteq Session
    /\ api \in {"serving", "closing", "exited"} /\ shutdown \in BOOLEAN
    /\ visits \in 0..MaxVisits /\ commands \in 0..MaxCommands /\ state \in 0..MaxStates

ProducerTypes ==
    /\ ws \in [Session -> {"none", "open", "closed"}]
    /\ producer \in [Session -> {"none", "poll", "round", "body", "done"}]
    /\ due \in [Session -> SUBSET Sources]
    /\ readable \in [Session -> SUBSET (Sources \ {"ping"})]
    /\ newest \in [Session -> Seen] /\ shown \in [Session -> Seen]
    /\ pinged \in [Session -> BOOLEAN]

\* The tasks of a session come and go with its websocket, the results of the
\* pings are due in a round only, and no state of the pendant is from the future.
ProducerInv ==
    \A s \in Session :
        /\ (ws[s] = "none" <=> producer[s] = "none")
        /\ "ping" \in due[s] => producer[s] \in {"round", "body"}
        /\ newest[s].pendant <= state /\ shown[s].pendant <= state

ConsumerTypes ==
    /\ consumer \in [Session -> {"none", "wait", "done"}]
    /\ inbox \in [Session -> Messages]
    /\ Map(bytes) /\ Map(answered)

SessionIndInv ==
    /\ LabviewInv /\ ApiTypes /\ ProducerTypes /\ ProducerInv /\ ConsumerTypes
    /\ NothingStaleIsSent

\* ... and no step of a session disturbs it.
LEMMA LabviewAlways ==
    ASSUME LabviewInv, [ApiNext]_apiVars
    PROVE  LabviewInv' /\ Forward
<1>1. ASSUME NEW s \in Session, Connect(s) PROVE LabviewInv' /\ Forward
  BY <1>1, LabviewTroubled DEF Connect, labview
<1>2. ASSUME NEW s \in Session, Poll(s) PROVE LabviewInv' /\ Forward
  BY <1>2, LabviewTroubled DEF Poll, labview
<1>3. ASSUME NEW s \in Session, ForwardPendant(s) PROVE LabviewInv' /\ Forward
  BY <1>3, LabviewTroubled DEF ForwardPendant, labview
<1>4. ASSUME NEW s \in Session, ForwardServer(s) PROVE LabviewInv' /\ Forward
  <2>1. UNCHANGED <<listener, socket, server, stream, clusters, chunk, row, logged, published>>
    BY <1>4 DEF ForwardServer, rows
  <2>2. Trouble \/ UNCHANGED trouble
    BY <1>4, Zenon DEF ForwardServer
  <2> QED
    BY <2>1, <2>2, LabviewTroubled
<1>5. ASSUME NEW s \in Session, ForwardLabview(s) PROVE LabviewInv' /\ Forward
  BY <1>5, LabviewTroubled DEF ForwardLabview, labview
<1>6. ASSUME NEW s \in Session, PingNotDue(s) PROVE LabviewInv' /\ Forward
  BY <1>6, LabviewTroubled DEF PingNotDue, labview
<1>7. ASSUME NEW s \in Session, SendPing(s) PROVE LabviewInv' /\ Forward
  BY <1>7, LabviewTroubled DEF SendPing, labview
<1>8. ASSUME NEW s \in Session, ForwardLog(s) PROVE LabviewInv' /\ Forward
  BY <1>8, LabviewTroubled DEF ForwardLog, labview
<1>9. ASSUME NEW s \in Session, EndRound(s) PROVE LabviewInv' /\ Forward
  BY <1>9, LabviewTroubled DEF EndRound, labview
<1>10. ASSUME NEW s \in Session, BodyArrives(s) PROVE LabviewInv' /\ Forward
  BY <1>10, LabviewTroubled DEF BodyArrives, labview
<1>11. ASSUME NEW s \in Session, Ping(s) PROVE LabviewInv' /\ Forward
  BY <1>11, LabviewTroubled DEF Ping, labview
<1>12. ASSUME NEW s \in Session, EndConsumer(s) PROVE LabviewInv' /\ Forward
  BY <1>12, LabviewTroubled DEF EndConsumer, labview
<1>13. ASSUME NEW s \in Session, EndSession(s) PROVE LabviewInv' /\ Forward
  BY <1>13, LabviewTroubled DEF EndSession, labview
<1>14. ASSUME NEW s \in Session, CloseBrowser(s) PROVE LabviewInv' /\ Forward
  BY <1>14, LabviewTroubled DEF CloseBrowser, labview
<1>15. ASSUME NEW s \in Session, BrowserSends(s) PROVE LabviewInv' /\ Forward
  BY <1>15, LabviewTroubled DEF BrowserSends, labview
<1>16. ASSUME NEW s \in Session, Handle(s) PROVE LabviewInv' /\ Forward
  BY <1>16, LabviewTroubled DEF Handle, labview
<1>17. CASE ListenerSteps
  BY <1>17, LabviewStep DEF ListenerSteps
<1>18. CASE LabviewServerSteps
  BY <1>18, LabviewStep DEF LabviewServerSteps
<1>19. CASE PublishedRow
  BY <1>19, LabviewStep DEF PublishedRow
<1>20. CASE StopListener
  BY <1>20, LabviewTroubled DEF StopListener, labview
<1>21. CASE PublishPendant
  BY <1>21, LabviewTroubled DEF PublishPendant, labview
<1>22. CASE SwitchPendant
  BY <1>22, LabviewTroubled DEF SwitchPendant, labview
<1>23. CASE OtherMessage
  BY <1>23, LabviewTroubled DEF OtherMessage, labview
<1>24. CASE SetShutdown
  BY <1>24, LabviewTroubled DEF SetShutdown, labview
<1>25. CASE CloseAll
  BY <1>25, LabviewTroubled DEF CloseAll, labview
<1>26. CASE ExitApi
  BY <1>26, LabviewTroubled DEF ExitApi, labview
<1>27. CASE UNCHANGED apiVars
  BY <1>27, LabviewTroubled DEF apiVars, labview
<1> QED
  BY <1>1, <1>2, <1>3, <1>4, <1>5, <1>6, <1>7, <1>8, <1>9, <1>10, <1>11, <1>12,
     <1>13, <1>14, <1>15, <1>16, <1>17, <1>18, <1>19, <1>20, <1>21, <1>22,
     <1>23, <1>24, <1>25, <1>26, <1>27, Zenon
     DEF ApiNext, Produce

\* Every step keeps the types of the main task, and of the consumers.
LEMMA ApiTypesStep ==
    ASSUME LabviewInv, ApiTypes, [ApiNext]_apiVars
    PROVE  ApiTypes'
<1>1. ASSUME NEW s \in Session, Connect(s) PROVE ApiTypes'
  BY <1>1, FrontendAssumption DEF Connect, ApiTypes, frontend
<1>2. ASSUME NEW s \in Session, Poll(s) PROVE ApiTypes'
  BY <1>2 DEF Poll, ApiTypes, lifecycle, producing, consuming, frontend
<1>3. ASSUME NEW s \in Session, ForwardPendant(s) PROVE ApiTypes'
  BY <1>3 DEF ForwardPendant, ApiTypes, lifecycle, producing, consuming, frontend
<1>4. ASSUME NEW s \in Session, ForwardServer(s) PROVE ApiTypes'
  BY <1>4 DEF ForwardServer, ApiTypes, lifecycle, producing, consuming, frontend
<1>5. ASSUME NEW s \in Session, ForwardLabview(s) PROVE ApiTypes'
  BY <1>5 DEF ForwardLabview, ApiTypes, lifecycle, producing, consuming, frontend
<1>6. ASSUME NEW s \in Session, PingNotDue(s) PROVE ApiTypes'
  BY <1>6 DEF PingNotDue, ApiTypes, lifecycle, producing, consuming, frontend
<1>7. ASSUME NEW s \in Session, SendPing(s) PROVE ApiTypes'
  BY <1>7 DEF SendPing, ApiTypes, lifecycle, producing, consuming, frontend
<1>8. ASSUME NEW s \in Session, ForwardLog(s) PROVE ApiTypes'
  BY <1>8 DEF ForwardLog, ApiTypes, lifecycle, producing, consuming, frontend
<1>9. ASSUME NEW s \in Session, EndRound(s) PROVE ApiTypes'
  BY <1>9 DEF EndRound, ApiTypes, lifecycle, producing, consuming, frontend
<1>10. ASSUME NEW s \in Session, BodyArrives(s) PROVE ApiTypes'
  BY <1>10 DEF BodyArrives, ApiTypes, lifecycle, producing, consuming, frontend
<1>11. ASSUME NEW s \in Session, Ping(s) PROVE ApiTypes'
  BY <1>11 DEF Ping, ApiTypes, lifecycle, producing, consuming, frontend
<1>12. ASSUME NEW s \in Session, EndConsumer(s) PROVE ApiTypes'
  BY <1>12 DEF EndConsumer, ApiTypes, lifecycle, producing, consuming, frontend
<1>13. ASSUME NEW s \in Session, EndSession(s) PROVE ApiTypes'
  BY <1>13 DEF EndSession, ApiTypes, lifecycle, producing, consuming, frontend
<1>14. ASSUME NEW s \in Session, CloseBrowser(s) PROVE ApiTypes'
  BY <1>14 DEF CloseBrowser, ApiTypes, lifecycle, producing, consuming, frontend
<1>15. ASSUME NEW s \in Session, BrowserSends(s) PROVE ApiTypes'
  BY <1>15, FrontendAssumption DEF BrowserSends, ApiTypes, lifecycle, frontend
<1>16. ASSUME NEW s \in Session, Handle(s) PROVE ApiTypes'
  BY <1>16 DEF Handle, ApiTypes, lifecycle, producing, consuming, frontend
<1>17. CASE ListenerSteps
  BY <1>17 DEF ListenerSteps, ApiTypes, lifecycle, producing, consuming, frontend
<1>18. CASE LabviewServerSteps
  BY <1>18
     DEF LabviewServerSteps, ApiTypes, lifecycle, producing, consuming, frontend
<1>19. CASE PublishedRow
  BY <1>19 DEF PublishedRow, ApiTypes, lifecycle, producing, consuming, frontend
<1>20. CASE StopListener
  BY <1>20 DEF StopListener, ApiTypes, lifecycle, producing, consuming, frontend
<1>21. CASE PublishPendant
  BY <1>21 DEF PublishPendant, ApiTypes, lifecycle, producing, consuming, frontend
<1>22. CASE SwitchPendant
  BY <1>22, FrontendAssumption
     DEF SwitchPendant, ApiTypes, lifecycle, producing, consuming, frontend
<1>23. CASE OtherMessage
  BY <1>23 DEF OtherMessage, ApiTypes, lifecycle, producing, consuming, frontend
<1>24. CASE SetShutdown
  BY <1>24 DEF SetShutdown, ApiTypes, lifecycle, producing, consuming, frontend
<1>25. CASE CloseAll
  BY <1>25 DEF CloseAll, ApiTypes, lifecycle, producing, consuming, frontend
<1>26. CASE ExitApi
  BY <1>26 DEF ExitApi, ApiTypes, lifecycle, producing, consuming, frontend
<1>27. CASE UNCHANGED apiVars
  BY <1>27 DEF apiVars, ApiTypes, frontend
<1> QED
  BY <1>1, <1>2, <1>3, <1>4, <1>5, <1>6, <1>7, <1>8, <1>9, <1>10, <1>11, <1>12,
     <1>13, <1>14, <1>15, <1>16, <1>17, <1>18, <1>19, <1>20, <1>21, <1>22,
     <1>23, <1>24, <1>25, <1>26, <1>27, Zenon
     DEF ApiNext, Produce

\* No message is one.
LEMMA SilenceIsMessage == Silence \in Messages
  BY DEF Messages

LEMMA ConsumerTypesStep ==
    ASSUME ConsumerTypes, [ApiNext]_apiVars
    PROVE  ConsumerTypes'
<1>1. ASSUME NEW s \in Session, Connect(s) PROVE ConsumerTypes'
  BY <1>1 DEF Connect, ConsumerTypes, consuming, frontend, Map
<1>2. ASSUME NEW s \in Session, Poll(s) PROVE ConsumerTypes'
  BY <1>2 DEF Poll, ConsumerTypes, consuming, frontend, Map
<1>3. ASSUME NEW s \in Session, ForwardPendant(s) PROVE ConsumerTypes'
  BY <1>3 DEF ForwardPendant, ConsumerTypes, consuming, frontend, Map
<1>4. ASSUME NEW s \in Session, ForwardServer(s) PROVE ConsumerTypes'
  BY <1>4 DEF ForwardServer, ConsumerTypes, consuming, frontend, Map
<1>5. ASSUME NEW s \in Session, ForwardLabview(s) PROVE ConsumerTypes'
  BY <1>5 DEF ForwardLabview, ConsumerTypes, consuming, frontend, Map
<1>6. ASSUME NEW s \in Session, PingNotDue(s) PROVE ConsumerTypes'
  BY <1>6 DEF PingNotDue, ConsumerTypes, consuming, frontend, Map
<1>7. ASSUME NEW s \in Session, SendPing(s) PROVE ConsumerTypes'
  BY <1>7 DEF SendPing, ConsumerTypes, consuming, frontend, Map
<1>8. ASSUME NEW s \in Session, ForwardLog(s) PROVE ConsumerTypes'
  BY <1>8 DEF ForwardLog, ConsumerTypes, consuming, frontend, Map
<1>9. ASSUME NEW s \in Session, EndRound(s) PROVE ConsumerTypes'
  BY <1>9 DEF EndRound, ConsumerTypes, consuming, frontend, Map
<1>10. ASSUME NEW s \in Session, BodyArrives(s) PROVE ConsumerTypes'
  BY <1>10 DEF BodyArrives, ConsumerTypes, consuming, frontend, Map
<1>11. ASSUME NEW s \in Session, Ping(s) PROVE ConsumerTypes'
  BY <1>11 DEF Ping, ConsumerTypes, consuming, frontend, Map
<1>12. ASSUME NEW s \in Session, EndConsumer(s) PROVE ConsumerTypes'
  BY <1>12 DEF EndConsumer, ConsumerTypes, consuming, frontend, Map
<1>13. ASSUME NEW s \in Session, EndSession(s) PROVE ConsumerTypes'
  BY <1>13, SilenceIsMessage DEF EndSession, ConsumerTypes, Map
<1>14. ASSUME NEW s \in Session, CloseBrowser(s) PROVE ConsumerTypes'
  BY <1>14 DEF CloseBrowser, ConsumerTypes, consuming, frontend, Map
<1>15. ASSUME NEW s \in Session, BrowserSends(s) PROVE ConsumerTypes'
  BY <1>15 DEF BrowserSends, ConsumerTypes, Map
<1>16. ASSUME NEW s \in Session, Handle(s) PROVE ConsumerTypes'
  BY <1>16, SilenceIsMessage DEF Handle, ConsumerTypes, Map
<1>17. CASE ListenerSteps
  BY <1>17 DEF ListenerSteps, ConsumerTypes, consuming, frontend, Map
<1>18. CASE LabviewServerSteps
  BY <1>18 DEF LabviewServerSteps, ConsumerTypes, consuming, frontend, Map
<1>19. CASE PublishedRow
  BY <1>19 DEF PublishedRow, ConsumerTypes, consuming, frontend, Map
<1>20. CASE StopListener
  BY <1>20 DEF StopListener, ConsumerTypes, consuming, frontend, Map
<1>21. CASE PublishPendant
  BY <1>21 DEF PublishPendant, ConsumerTypes, consuming, frontend, Map
<1>22. CASE SwitchPendant
  BY <1>22 DEF SwitchPendant, ConsumerTypes, consuming, frontend, Map
<1>23. CASE OtherMessage
  BY <1>23 DEF OtherMessage, ConsumerTypes, consuming, frontend, Map
<1>24. CASE SetShutdown
  BY <1>24 DEF SetShutdown, ConsumerTypes, consuming, frontend, Map
<1>25. CASE CloseAll
  BY <1>25 DEF CloseAll, ConsumerTypes, consuming, frontend, Map
<1>26. CASE ExitApi
  BY <1>26 DEF ExitApi, ConsumerTypes, consuming, frontend, Map
<1>27. CASE UNCHANGED apiVars
  BY <1>27 DEF apiVars, ConsumerTypes, frontend, Map
<1> QED
  BY <1>1, <1>2, <1>3, <1>4, <1>5, <1>6, <1>7, <1>8, <1>9, <1>10, <1>11, <1>12,
     <1>13, <1>14, <1>15, <1>16, <1>17, <1>18, <1>19, <1>20, <1>21, <1>22,
     <1>23, <1>24, <1>25, <1>26, <1>27, Zenon
     DEF ApiNext, Produce

\* What is sent is never left from a message before.
LEMMA StaleStep ==
    ASSUME ConsumerTypes, NothingStaleIsSent, [ApiNext]_apiVars
    PROVE  NothingStaleIsSent'
<1>1. ASSUME NEW s \in Session, Connect(s) PROVE NothingStaleIsSent'
  BY <1>1 DEF Connect, NothingStaleIsSent, consuming, frontend
<1>2. ASSUME NEW s \in Session, Poll(s) PROVE NothingStaleIsSent'
  BY <1>2 DEF Poll, NothingStaleIsSent, consuming, frontend
<1>3. ASSUME NEW s \in Session, ForwardPendant(s) PROVE NothingStaleIsSent'
  BY <1>3 DEF ForwardPendant, NothingStaleIsSent, consuming, frontend
<1>4. ASSUME NEW s \in Session, ForwardServer(s) PROVE NothingStaleIsSent'
  BY <1>4 DEF ForwardServer, NothingStaleIsSent, consuming, frontend
<1>5. ASSUME NEW s \in Session, ForwardLabview(s) PROVE NothingStaleIsSent'
  BY <1>5 DEF ForwardLabview, NothingStaleIsSent, consuming, frontend
<1>6. ASSUME NEW s \in Session, PingNotDue(s) PROVE NothingStaleIsSent'
  BY <1>6 DEF PingNotDue, NothingStaleIsSent, consuming, frontend
<1>7. ASSUME NEW s \in Session, SendPing(s) PROVE NothingStaleIsSent'
  BY <1>7 DEF SendPing, NothingStaleIsSent, consuming, frontend
<1>8. ASSUME NEW s \in Session, ForwardLog(s) PROVE NothingStaleIsSent'
  BY <1>8 DEF ForwardLog, NothingStaleIsSent, consuming, frontend
<1>9. ASSUME NEW s \in Session, EndRound(s) PROVE NothingStaleIsSent'
  BY <1>9 DEF EndRound, NothingStaleIsSent, consuming, frontend
<1>10. ASSUME NEW s \in Session, BodyArrives(s) PROVE NothingStaleIsSent'
  BY <1>10 DEF BodyArrives, NothingStaleIsSent, consuming, frontend
<1>11. ASSUME NEW s \in Session, Ping(s) PROVE NothingStaleIsSent'
  BY <1>11 DEF Ping, NothingStaleIsSent, consuming, frontend
<1>12. ASSUME NEW s \in Session, EndConsumer(s) PROVE NothingStaleIsSent'
  BY <1>12 DEF EndConsumer, NothingStaleIsSent, consuming, frontend
<1>13. ASSUME NEW s \in Session, EndSession(s) PROVE NothingStaleIsSent'
  BY <1>13 DEF EndSession, NothingStaleIsSent, ConsumerTypes, Map
<1>14. ASSUME NEW s \in Session, CloseBrowser(s) PROVE NothingStaleIsSent'
  BY <1>14 DEF CloseBrowser, NothingStaleIsSent, consuming, frontend
<1>15. ASSUME NEW s \in Session, BrowserSends(s) PROVE NothingStaleIsSent'
  BY <1>15 DEF BrowserSends, NothingStaleIsSent, ConsumerTypes, Map
<1>16. ASSUME NEW s \in Session, Handle(s) PROVE NothingStaleIsSent'
  BY <1>16 DEF Handle, NothingStaleIsSent, ConsumerTypes, Map
<1>17. CASE ListenerSteps
  BY <1>17 DEF ListenerSteps, NothingStaleIsSent, consuming, frontend
<1>18. CASE LabviewServerSteps
  BY <1>18 DEF LabviewServerSteps, NothingStaleIsSent, consuming, frontend
<1>19. CASE PublishedRow
  BY <1>19 DEF PublishedRow, NothingStaleIsSent, consuming, frontend
<1>20. CASE StopListener
  BY <1>20 DEF StopListener, NothingStaleIsSent, consuming, frontend
<1>21. CASE PublishPendant
  BY <1>21 DEF PublishPendant, NothingStaleIsSent, consuming, frontend
<1>22. CASE SwitchPendant
  BY <1>22 DEF SwitchPendant, NothingStaleIsSent, consuming, frontend
<1>23. CASE OtherMessage
  BY <1>23 DEF OtherMessage, NothingStaleIsSent, consuming, frontend
<1>24. CASE SetShutdown
  BY <1>24 DEF SetShutdown, NothingStaleIsSent, consuming, frontend
<1>25. CASE CloseAll
  BY <1>25 DEF CloseAll, NothingStaleIsSent, consuming, frontend
<1>26. CASE ExitApi
  BY <1>26 DEF ExitApi, NothingStaleIsSent, consuming, frontend
<1>27. CASE UNCHANGED apiVars
  BY <1>27 DEF apiVars, NothingStaleIsSent, frontend
<1> QED
  BY <1>1, <1>2, <1>3, <1>4, <1>5, <1>6, <1>7, <1>8, <1>9, <1>10, <1>11, <1>12,
     <1>13, <1>14, <1>15, <1>16, <1>17, <1>18, <1>19, <1>20, <1>21, <1>22,
     <1>23, <1>24, <1>25, <1>26, <1>27, Zenon
     DEF ApiNext, Produce

-----------------------------------------------------------------------------
\* What the producer of a session knows, and the theorems.

\* What the sockets of a session hold.
LEMMA ProducerAt ==
    ASSUME ApiTypes, ProducerTypes, ProducerInv, NEW s \in Session
    PROVE  /\ newest[s] \in Seen /\ shown[s] \in Seen
           /\ [shown[s] EXCEPT !.pendant = newest[s].pendant] \in Seen
           /\ [shown[s] EXCEPT !.row = newest[s].row] \in Seen
           /\ [newest[s] EXCEPT !.pendant = state] \in Seen
           /\ newest[s].pendant <= state /\ shown[s].pendant <= state
           /\ state \in 0..MaxStates
<1>1. newest[s] \in Seen /\ shown[s] \in Seen /\ state \in 0..MaxStates
  BY DEF ProducerTypes, ApiTypes
<1> QED
  BY <1>1 DEF Seen, ProducerInv

\* What comes of a send.
LEMMA SentStep ==
    ASSUME ProducerTypes, ProducerInv, NEW s \in Session, NEW source,
           NEW what \in Seen,
           what.pendant <= state, producer[s] = "round", Sent(s, source, what),
           UNCHANGED <<ws, newest, pinged, state>>
    PROVE  ProducerTypes' /\ ProducerInv'
<1>1. readable' \in [Session -> SUBSET (Sources \ {"ping"})]
  BY DEF Sent, ProducerTypes
<1>2. CASE /\ shown' = [shown EXCEPT ![s] = what]
           /\ due' = [due EXCEPT ![s] = @ \ {source}]
           /\ UNCHANGED producer
  <2>1. ProducerTypes'
    BY <1>1, <1>2 DEF ProducerTypes
  <2> QED
    BY <1>2, <2>1 DEF ProducerTypes, ProducerInv
<1>3. CASE /\ producer' = [producer EXCEPT ![s] = "done"]
           /\ due' = [due EXCEPT ![s] = {}]
           /\ UNCHANGED shown
  <2>1. ProducerTypes'
    BY <1>1, <1>3 DEF ProducerTypes
  <2> QED
    BY <1>3, <2>1 DEF ProducerTypes, ProducerInv
<1> QED
  BY <1>2, <1>3, Zenon DEF Sent

\* What is heard.
LEMMA HearStep ==
    ASSUME ProducerTypes, ProducerInv,
           NEW sources \in SUBSET (Sources \ {"ping"}), NEW what,
           \A s \in Session : what[s] \in Seen /\ what[s].pendant <= state,
           Hear(sources, what), UNCHANGED <<ws, producer, due, pinged, shown, state>>
    PROVE  ProducerTypes' /\ ProducerInv'
<1>1. ASSUME NEW s \in Session
      PROVE  /\ readable'[s] \in SUBSET (Sources \ {"ping"})
             /\ newest'[s] \in Seen /\ newest'[s].pendant <= state
  BY DEF Hear, ProducerTypes, ProducerInv
<1>2. ProducerTypes'
  BY <1>1 DEF ProducerTypes, Hear
<1> QED
  BY <1>1, <1>2 DEF ProducerInv

\* Every step keeps what the producers know.
LEMMA ProducerStep ==
    ASSUME LabviewInv, ApiTypes, ProducerTypes, ProducerInv, [ApiNext]_apiVars
    PROVE  ProducerTypes' /\ ProducerInv'
<1>1. ASSUME NEW s \in Session, Connect(s) PROVE ProducerTypes' /\ ProducerInv'
  <2>1. ProducerTypes'
    BY <1>1
       DEF Connect, ProducerTypes, Sources, lifecycle, producing, consuming,
           frontend
  <2>2. ProducerInv'
    BY <1>1, <2>1 DEF Connect, ProducerTypes, ProducerInv, producing, frontend
  <2> QED
    BY <2>1, <2>2
<1>2. ASSUME NEW s \in Session, Poll(s) PROVE ProducerTypes' /\ ProducerInv'
  <2>1. ProducerTypes'
    BY <1>2
       DEF Poll, ProducerTypes, Sources, lifecycle, producing, consuming, frontend
  <2>2. ProducerInv'
    BY <1>2, <2>1 DEF Poll, ProducerTypes, ProducerInv, producing, frontend
  <2> QED
    BY <2>1, <2>2
<1>3. ASSUME NEW s \in Session, ForwardPendant(s) PROVE ProducerTypes' /\ ProducerInv'
  <2>1. /\ Sent(s, "pendant", [shown[s] EXCEPT !.pendant = newest[s].pendant])
        /\ producer[s] = "round" /\ UNCHANGED <<ws, newest, pinged, state>>
    BY <1>3 DEF ForwardPendant
  <2>2. [shown[s] EXCEPT !.pendant = newest[s].pendant] \in Seen
        /\ ([shown[s] EXCEPT !.pendant = newest[s].pendant]).pendant <= state
    BY ProducerAt DEF Seen
  <2> QED
    BY <2>1, <2>2, SentStep
<1>4. ASSUME NEW s \in Session, ForwardServer(s) PROVE ProducerTypes' /\ ProducerInv'
  <2>1. producer[s] = "round" /\ UNCHANGED <<ws, newest, pinged, state>>
    BY <1>4 DEF ForwardServer
  <2>2. CASE Sent(s, "server", shown[s])
    BY <2>1, <2>2, ProducerAt, SentStep
  <2>3. CASE /\ readable' = [readable EXCEPT ![s] = @ \ {"server"}]
             /\ \/ due' = [due EXCEPT ![s] = @ \ {"server"}] /\ UNCHANGED producer
                \/ /\ producer' = [producer EXCEPT ![s] = "poll"]
                   /\ due' = [due EXCEPT ![s] = {}]
             /\ UNCHANGED shown
    <3>1. ProducerTypes'
      BY <2>1, <2>3 DEF ProducerTypes
    <3> QED
      BY <2>1, <2>3, <3>1 DEF ProducerTypes, ProducerInv
  <2>4. CASE producer' = [producer EXCEPT ![s] = "body"] /\ UNCHANGED <<readable, due, shown>>
    <3>1. ProducerTypes'
      BY <2>1, <2>4 DEF ProducerTypes
    <3> QED
      BY <2>1, <2>4, <3>1 DEF ProducerTypes, ProducerInv
  <2> QED
    BY <1>4, <2>2, <2>3, <2>4, Zenon DEF ForwardServer
<1>5. ASSUME NEW s \in Session, ForwardLabview(s) PROVE ProducerTypes' /\ ProducerInv'
  <2>1. /\ Sent(s, "labview", [shown[s] EXCEPT !.row = newest[s].row])
        /\ producer[s] = "round" /\ UNCHANGED <<ws, newest, pinged, state>>
    BY <1>5 DEF ForwardLabview
  <2>2. [shown[s] EXCEPT !.row = newest[s].row] \in Seen
        /\ ([shown[s] EXCEPT !.row = newest[s].row]).pendant <= state
    BY ProducerAt DEF Seen
  <2> QED
    BY <2>1, <2>2, SentStep
<1>6. ASSUME NEW s \in Session, PingNotDue(s) PROVE ProducerTypes' /\ ProducerInv'
  <2>1. ProducerTypes'
    BY <1>6
       DEF PingNotDue, ProducerTypes, Sources, lifecycle, producing, consuming,
           frontend
  <2>2. ProducerInv'
    BY <1>6, <2>1 DEF PingNotDue, ProducerTypes, ProducerInv, producing, frontend
  <2> QED
    BY <2>1, <2>2
<1>7. ASSUME NEW s \in Session, SendPing(s) PROVE ProducerTypes' /\ ProducerInv'
  <2>1. /\ Sent(s, "ping", shown[s])
        /\ producer[s] = "round" /\ UNCHANGED <<ws, newest, pinged, state>>
    BY <1>7 DEF SendPing
  <2>2. shown[s] \in Seen
        /\ (shown[s]).pendant <= state
    BY ProducerAt DEF Seen
  <2> QED
    BY <2>1, <2>2, SentStep
<1>8. ASSUME NEW s \in Session, ForwardLog(s) PROVE ProducerTypes' /\ ProducerInv'
  <2>1. /\ Sent(s, "log", shown[s])
        /\ producer[s] = "round" /\ UNCHANGED <<ws, newest, pinged, state>>
    BY <1>8 DEF ForwardLog
  <2>2. shown[s] \in Seen
        /\ (shown[s]).pendant <= state
    BY ProducerAt DEF Seen
  <2> QED
    BY <2>1, <2>2, SentStep
<1>9. ASSUME NEW s \in Session, EndRound(s) PROVE ProducerTypes' /\ ProducerInv'
  <2>1. ProducerTypes'
    BY <1>9
       DEF EndRound, ProducerTypes, Sources, lifecycle, producing, consuming,
           frontend
  <2>2. ProducerInv'
    BY <1>9, <2>1 DEF EndRound, ProducerTypes, ProducerInv, producing, frontend
  <2> QED
    BY <2>1, <2>2
<1>10. ASSUME NEW s \in Session, BodyArrives(s) PROVE ProducerTypes' /\ ProducerInv'
  <2>1. ProducerTypes'
    BY <1>10
       DEF BodyArrives, ProducerTypes, Sources, lifecycle, producing, consuming,
           frontend
  <2>2. ProducerInv'
    BY <1>10, <2>1
       DEF BodyArrives, ProducerTypes, ProducerInv, producing, frontend
  <2> QED
    BY <2>1, <2>2
<1>11. ASSUME NEW s \in Session, Ping(s) PROVE ProducerTypes' /\ ProducerInv'
  <2>1. ProducerTypes'
    BY <1>11
       DEF Ping, ProducerTypes, Sources, lifecycle, producing, consuming, frontend
  <2>2. ProducerInv'
    BY <1>11, <2>1 DEF Ping, ProducerTypes, ProducerInv, producing, frontend
  <2> QED
    BY <2>1, <2>2
<1>12. ASSUME NEW s \in Session, EndConsumer(s) PROVE ProducerTypes' /\ ProducerInv'
  BY <1>12 DEF EndConsumer, ProducerTypes, ProducerInv, producing, frontend
<1>13. ASSUME NEW s \in Session, EndSession(s) PROVE ProducerTypes' /\ ProducerInv'
  <2>1. Nothing \in Seen /\ Nothing.pendant = 0 /\ state \in 0..MaxStates
    BY LabviewAssumption, FrontendAssumption
       DEF Nothing, NoRow, Seen, RowValues, ApiTypes
  <2>2. ProducerTypes'
    BY <1>13, <2>1 DEF EndSession, ProducerTypes
  <2> QED
    BY <1>13, <2>1, <2>2 DEF EndSession, ProducerTypes, ProducerInv
<1>14. ASSUME NEW s \in Session, CloseBrowser(s) PROVE ProducerTypes' /\ ProducerInv'
  <2>1. ProducerTypes'
    BY <1>14
       DEF CloseBrowser, ProducerTypes, Sources, lifecycle, producing,
           consuming, frontend
  <2>2. ProducerInv'
    BY <1>14, <2>1
       DEF CloseBrowser, ProducerTypes, ProducerInv, producing, frontend
  <2> QED
    BY <2>1, <2>2
<1>15. ASSUME NEW s \in Session, BrowserSends(s) PROVE ProducerTypes' /\ ProducerInv'
  BY <1>15 DEF BrowserSends, ProducerTypes, ProducerInv, producing, frontend
<1>16. ASSUME NEW s \in Session, Handle(s) PROVE ProducerTypes' /\ ProducerInv'
  BY <1>16 DEF Handle, ProducerTypes, ProducerInv, producing, frontend
<1>17. CASE ListenerSteps
  BY <1>17 DEF ListenerSteps, ProducerTypes, ProducerInv, producing, frontend
<1>18. CASE LabviewServerSteps
  BY <1>18 DEF LabviewServerSteps, ProducerTypes, ProducerInv, producing, frontend
<1>19. CASE PublishedRow
  <2>1. /\ published' \in RowValues
        /\ Hear({"labview"}, [r \in Session |-> [newest[r] EXCEPT !.row = published']])
        /\ UNCHANGED <<ws, producer, due, pinged, shown, state>>
    <3>1. row \in RowValues
      BY DEF LabviewInv, LabviewTypeOK, RowValues
    <3> QED
      BY <1>19, <3>1 DEF PublishedRow, PublishRow, lifecycle
  <2> DEFINE what == [r \in Session |-> [newest[r] EXCEPT !.row = published']]
  <2>2. \A r \in Session : what[r] \in Seen /\ what[r].pendant <= state
    BY <2>1, ProducerAt DEF Seen
  <2>3. {"labview"} \in SUBSET (Sources \ {"ping"})
    BY DEF Sources
  <2> HIDE DEF what
  <2>4. Hear({"labview"}, what)
    BY <2>1 DEF what
  <2> QED
    BY <2>1, <2>2, <2>3, <2>4, HearStep
<1>20. CASE StopListener
  BY <1>20 DEF StopListener, ProducerTypes, ProducerInv, producing, frontend
<1>21. CASE PublishPendant
  <2> DEFINE what == [r \in Session |-> [newest[r] EXCEPT !.pendant = state]]
  <2>1. Hear({"pendant"}, what) /\ UNCHANGED <<ws, producer, due, pinged, shown, state>>
    BY <1>21 DEF PublishPendant
  <2>2. \A r \in Session : what[r] \in Seen /\ what[r].pendant <= state
    <3>1. ASSUME NEW r \in Session
          PROVE  [newest[r] EXCEPT !.pendant = state] \in Seen
                 /\ [newest[r] EXCEPT !.pendant = state].pendant <= state
      <4>1. newest[r] \in Seen /\ state \in 0..MaxStates
        BY ProducerAt
      <4>2. state \in Int /\ state <= state
        BY <4>1, FrontendAssumption
      <4> QED
        BY <4>1, <4>2 DEF Seen
    <3> QED
      BY <3>1
  <2>3. {"pendant"} \in SUBSET (Sources \ {"ping"})
    BY DEF Sources
  <2> HIDE DEF what
  <2> QED
    BY <2>1, <2>2, <2>3, HearStep
<1>22. CASE SwitchPendant
  <2>1. /\ UNCHANGED <<ws, producer, due, readable, newest, shown, pinged>>
        /\ state' = state + 1 /\ state \in 0..MaxStates
    BY <1>22 DEF SwitchPendant, producing, ApiTypes
  <2>2. ASSUME NEW s \in Session PROVE newest[s].pendant <= state' /\ shown[s].pendant <= state'
    <3>1. newest[s].pendant \in 0..MaxStates /\ shown[s].pendant \in 0..MaxStates
      BY ProducerAt DEF Seen
    <3>2. newest[s].pendant \in Int /\ shown[s].pendant \in Int /\ state \in Int
      BY <2>1, <3>1, FrontendAssumption
    <3>3. newest[s].pendant <= state /\ shown[s].pendant <= state
      BY ProducerAt
    <3> QED
      BY <2>1, <3>2, <3>3
  <2> QED
    BY <2>1, <2>2 DEF ProducerTypes, ProducerInv
<1>23. CASE OtherMessage
  <2>1. PICK source \in {"server", "log"} : Hear({source}, newest)
    BY <1>23 DEF OtherMessage
  <2>2. UNCHANGED <<ws, producer, due, pinged, shown, state>>
    BY <1>23 DEF OtherMessage
  <2>3. {source} \in SUBSET (Sources \ {"ping"})
    BY <2>1 DEF Sources
  <2> QED
    BY <2>1, <2>2, <2>3, ProducerAt, HearStep
<1>24. CASE SetShutdown
  BY <1>24 DEF SetShutdown, ProducerTypes, ProducerInv, producing, frontend
<1>25. CASE CloseAll
  <2>1. ProducerTypes'
    BY <1>25
       DEF CloseAll, ProducerTypes, Sources, lifecycle, producing, consuming,
           frontend
  <2>2. ProducerInv'
    BY <1>25, <2>1 DEF CloseAll, ProducerTypes, ProducerInv, producing, frontend
  <2> QED
    BY <2>1, <2>2
<1>26. CASE ExitApi
  BY <1>26 DEF ExitApi, ProducerTypes, ProducerInv, producing, frontend
<1>27. CASE UNCHANGED apiVars
  BY <1>27 DEF apiVars, ProducerTypes, ProducerInv, frontend
<1> QED
  BY <1>1, <1>2, <1>3, <1>4, <1>5, <1>6, <1>7, <1>8, <1>9, <1>10, <1>11, <1>12,
     <1>13, <1>14, <1>15, <1>16, <1>17, <1>18, <1>19, <1>20, <1>21, <1>22,
     <1>23, <1>24, <1>25, <1>26, <1>27, Zenon
     DEF ApiNext, Produce


\* The inductive invariant of the sessions holds first and always.
LEMMA SessionInit == ApiInit => SessionIndInv
<1> SUFFICES ASSUME ApiInit PROVE SessionIndInv
  OBVIOUS
<1>1. LabviewInv
  BY LabviewInvInit DEF ApiInit
<1>2. ApiTypes
  <2>1. 0 \in 0..MaxVisits /\ 0 \in 0..MaxCommands /\ 0 \in 0..MaxStates
    BY FrontendAssumption
  <2> QED
    BY <2>1, Zenon DEF ApiInit, ApiTypes
<1>3. Nothing \in Seen /\ Nothing.pendant = 0
  BY LabviewAssumption, FrontendAssumption DEF Nothing, NoRow, Seen, RowValues
<1>4. ProducerTypes /\ ProducerInv
  BY <1>3 DEF ApiInit, ProducerTypes, ProducerInv
<1>5. ConsumerTypes /\ NothingStaleIsSent
  BY SilenceIsMessage DEF ApiInit, ConsumerTypes, Map, NothingStaleIsSent
<1> QED
  BY <1>1, <1>2, <1>4, <1>5 DEF SessionIndInv

LEMMA SessionStep == SessionIndInv /\ [ApiNext]_apiVars => SessionIndInv' /\ Forward
<1> SUFFICES ASSUME SessionIndInv, [ApiNext]_apiVars PROVE SessionIndInv' /\ Forward
  OBVIOUS
<1>1. /\ LabviewInv /\ ApiTypes /\ ProducerTypes /\ ProducerInv /\ ConsumerTypes
      /\ NothingStaleIsSent
  BY DEF SessionIndInv
<1> QED
  BY <1>1, LabviewAlways, ApiTypesStep, ProducerStep, ConsumerTypesStep, StaleStep
     DEF SessionIndInv

LEMMA SessionInduction == ApiSpec => []SessionIndInv
  BY SessionInit, SessionStep, PTL DEF ApiSpec

\* It answers for the types and for what is sent.
LEMMA SessionInvFollows == SessionIndInv => SessionInv
<1> SUFFICES ASSUME SessionIndInv PROVE SessionInv
  OBVIOUS
<1>1. /\ LabviewTypeOK /\ ApiTypes /\ ProducerTypes /\ ProducerInv /\ ConsumerTypes
      /\ NothingStaleIsSent
  BY DEF SessionIndInv, LabviewInv
<1>2. {Order[i] : i \in DOMAIN Order} = Sources
  BY DEF Order, Sources
<1>3. ASSUME NEW s \in Session
      PROVE  newest[s].pendant \in 0..state /\ shown[s].pendant \in 0..state
  <2>1. newest[s].pendant \in 0..MaxStates /\ shown[s].pendant \in 0..MaxStates
    BY <1>1, ProducerAt DEF Seen
  <2>2. newest[s].pendant <= state /\ shown[s].pendant <= state /\ state \in 0..MaxStates
    BY <1>1, ProducerAt
  <2> QED
    BY <2>1, <2>2, FrontendAssumption
<1>4. ASSUME NEW s \in Session
      PROVE  /\ ws[s] \in {"none", "open", "closed"}
             /\ producer[s] \in {"none", "poll", "round", "body", "done"}
             /\ consumer[s] \in {"none", "wait", "done"}
             /\ readable[s] \subseteq Sources \ {"ping"}
             /\ pinged[s] \in BOOLEAN /\ inbox[s] \in Messages
  BY <1>1 DEF ProducerTypes, ConsumerTypes
<1>5. ASSUME NEW s \in Session
      PROVE  /\ (ws[s] = "none" <=> producer[s] = "none")
             /\ {"ping"} \subseteq due[s] => producer[s] \in {"round", "body"}
  BY <1>1 DEF ProducerInv
<1>6. ApiTypeOK
  BY <1>1, <1>2, <1>3, <1>4, <1>5, Zenon DEF ApiTypeOK, ApiTypes
<1> QED
  BY <1>1, <1>6 DEF SessionInv

\* The two tasks of a session come and go with its websocket, and what is sent
\* for a message of the browser is the packet of that message, for any number
\* of browsers, messages and failures (frontend_api.py).
THEOREM SessionTheorem == ApiSpec => []SessionInv
  BY SessionInduction, SessionInvFollows, PTL

\* A row of LabVIEW is of one cluster or of two that follow each other, and no
\* row goes back behind one that was published or logged, wherever TCP cuts the
\* stream (labview_listener.py).
THEOREM RowsTheorem == ApiSpec => RowsGoForward
<1>1. SessionIndInv /\ [ApiNext]_apiVars =>
          [row' # row =>
              /\ \A p, q \in 1..Parts : row'[p] <= row'[q] + 1
              /\ \A p \in 1..Parts : row'[p] >= published[p] /\ row'[p] >= logged[p]]_row
  BY SessionStep DEF Forward
<1> QED
  BY <1>1, SessionInduction, PTL DEF ApiSpec, RowsGoForward
=============================================================================
