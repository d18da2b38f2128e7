------------------------------ MODULE Launcher ------------------------------
(***************************************************************************)
(* rocket.py: the main thread starts the services of a plan one after the  *)
(* other, some of which it waits for, sleeps, and stops them all when a    *)
(* signal or an exception ends it.  Each service is a LoggedSubProcess: a  *)
(* child that prints lines and a monitor thread that logs them, looks for  *)
(* the awaited one, and passes what it found through a queue and an event. *)
(***************************************************************************)
EXTENDS LaunchPlan, SequencesExt, Integers

CONSTANTS
    Considered,     \* the command lines considered
    Machines,       \* the machines considered
    Carried,        \* those that are carried out and not only planned
    MaxSignals,     \* signals the launcher may receive
    MaxCrashes,     \* children that may exit on their own
    Chatty          \* the children that print a line besides the awaited ones

Service == {"cmake", "cmake-build", "socat", "server", "emulator", "simulator",
            "replay", "viewer", "pendant_daemon", "pendant_emulator", "labview",
            "api", "webserver"}

ASSUME CommandAssumption ==
    Considered \subseteq RunCommands \cup DevCommands \cup SimulationCommands
                          \cup ReplayCommands
ASSUME MachineAssumption ==
    Machines \subseteq [cache : BOOLEAN, binary : {"found", "none", "several"},
                        reachable : SUBSET (Serial \cup {"TCP"}),
                        pendant : {"pendant_daemon", "pendant_emulator"}]
ASSUME LaunchBounds ==
    MaxSignals \in Nat /\ MaxCrashes \in Nat /\ Chatty \subseteq Service

-----------------------------------------------------------------------------
\* One record for each start_*() function: the lines it waits for (-1: the
\* exit of the process), whether its exceptions end the launch, and whether
\* its callback counts every line as the awaited one.

StartMiddlewareBuild    == [awaits |-> -1, fatal |-> TRUE,  anyLine |-> FALSE]
StartFakeSerialDevice   == [awaits |-> 2,  fatal |-> TRUE,  anyLine |-> FALSE]
StartMiddleware         == [awaits |-> 1,  fatal |-> TRUE,  anyLine |-> FALSE]
StartEmulator           == [awaits |-> 0,  fatal |-> TRUE,  anyLine |-> FALSE]
StartSimulator          == [awaits |-> 0,  fatal |-> FALSE, anyLine |-> FALSE]
StartReplaySystem       == [awaits |-> 0,  fatal |-> FALSE, anyLine |-> FALSE]
StartEventViewer        == [awaits |-> 1,  fatal |-> FALSE, anyLine |-> TRUE]
StartPendantDaemon      == [awaits |-> 0,  fatal |-> FALSE, anyLine |-> FALSE]
StartPendantEmulator    == [awaits |-> 0,  fatal |-> FALSE, anyLine |-> FALSE]
StartLabviewListener    == [awaits |-> 0,  fatal |-> FALSE, anyLine |-> FALSE]
StartFrontendApi        == [awaits |-> 0,  fatal |-> FALSE, anyLine |-> FALSE]
StartFrontendWebserver  == [awaits |-> 0,  fatal |-> FALSE, anyLine |-> FALSE]

Start(s) ==
    CASE s \in {"cmake", "cmake-build"} -> StartMiddlewareBuild
      [] s = "socat" -> StartFakeSerialDevice
      [] s = "server" -> StartMiddleware
      [] s = "emulator" -> StartEmulator
      [] s = "simulator" -> StartSimulator
      [] s = "replay" -> StartReplaySystem
      [] s = "viewer" -> StartEventViewer
      [] s = "pendant_daemon" -> StartPendantDaemon
      [] s = "pendant_emulator" -> StartPendantEmulator
      [] s = "labview" -> StartLabviewListener
      [] s = "api" -> StartFrontendApi
      [] s = "webserver" -> StartFrontendWebserver

-----------------------------------------------------------------------------
VARIABLES
    inv, machine,   \* the command line and what it finds
    main,           \* where the main thread is
    todo,           \* the services still to start, the current one first
    instances,      \* LoggedSubProcess._instances
    order,          \* cleanup(): the instances still to stop
    got,            \* items the current wait has collected
    signals, crashes,
    child,          \* the process of each service
    held,           \* the services whose _process is assigned
    reaped,         \* the services whose returncode is known
    ready, chat,    \* awaited lines printed, children that printed another
    pipe,           \* the lines not yet read
    mon,            \* where each monitor thread is
    line,           \* the line it has in hand
    queue, event, hits, stopped,    \* _parsed_data, _callback_data_available,
                                    \* _callback_hits, _stop_callbacks
    logLock,        \* who is inside the handlers of the logger
    grip            \* the lock of the queue or of the event of the current service,
                    \* that main took in get_parsed_data() and never gives back

mainVars  == <<main, todo, instances, order, got>>
dataVars  == <<queue, event, hits, stopped>>
monVars   == <<mon, line>>
childVars == <<child, ready, chat, pipe>>
handles   == <<held, reaped>>
inputs    == <<inv, machine>>
bounds    == <<signals, crashes>>
locks     == <<logLock, grip>>
launchVars == <<inputs, mainVars, bounds, childVars, handles, monVars, dataVars, locks>>

Free == "free"
Main == "main"
Ending == {"stopping", "reap", "join"}
Current == Head(todo)

LaunchInit ==
    /\ inv \in Considered /\ machine \in Machines
    /\ main = "plan" /\ todo = <<>> /\ instances = <<>> /\ order = <<>> /\ got = 0
    /\ signals = 0 /\ crashes = 0
    /\ child = [s \in Service |-> "none"]
    /\ held = {} /\ reaped = {}
    /\ ready = [s \in Service |-> 0] /\ chat = {}
    /\ pipe = [s \in Service |-> <<>>]
    /\ mon = [s \in Service |-> "off"] /\ line = [s \in Service |-> "none"]
    /\ queue = [s \in Service |-> 0] /\ event = [s \in Service |-> FALSE]
    /\ hits = [s \in Service |-> 0] /\ stopped = [s \in Service |-> FALSE]
    /\ logLock = Free /\ grip = "none"

-----------------------------------------------------------------------------
\* The main thread starts services.

\* the command function decides what to start; a plan that is not carried out
\* is only looked at
MakePlan ==
    /\ main = "plan"
    /\ todo' = Plan(inv, machine)
    /\ main' = IF inv \in Carried THEN "next" ELSE "planned"
    /\ UNCHANGED <<inputs, instances, order, got, bounds, childVars, handles,
                   monVars, dataVars, locks>>

\* all started: sleep until a signal
AllStarted ==
    /\ main = "next" /\ todo = <<>>
    /\ main' = "asleep"
    /\ UNCHANGED <<inputs, todo, instances, order, got, bounds, childVars,
                   handles, monVars, dataVars, locks>>

\* MUTANT: the service being started is forgotten
FailsWithoutCurrent ==
    /\ main' = "stopping"
    /\ order' = Reverse(SelectSeq(instances, LAMBDA s : todo = <<>> \/ s # Current))
    /\ UNCHANGED <<todo, instances, got>>

\* the exception of a step that is fatal reaches main(), which cleans up
Fails ==
    /\ main' = "stopping"
    /\ order' = Reverse(instances)
    /\ UNCHANGED <<todo, instances, got>>

RefuseToStart ==
    /\ main = "next" /\ todo # <<>> /\ Current = "raise"
    /\ Fails
    /\ UNCHANGED <<inputs, bounds, childVars, handles, monVars, dataVars, locks>>

\* each start_*() logs what it is about to run
BeginLog ==
    /\ main = "next" /\ todo # <<>> /\ Current # "raise"
    /\ logLock = Free
    /\ logLock' = Main /\ main' = "logging"
    /\ UNCHANGED <<inputs, todo, instances, order, got, bounds, childVars,
                   handles, monVars, dataVars, grip>>

\* LoggedSubProcess.__init__ registers the instance
CreateInstance ==
    /\ main = "logging"
    /\ logLock' = Free /\ main' = "fork" /\ got' = 0
    /\ instances' = Append(instances, Current)
    /\ UNCHANGED <<inputs, todo, order, bounds, childVars, handles, monVars,
                   dataVars, grip>>

\* start(): Popen creates the child, or finds no program
Fork ==
    /\ main = "fork"
    /\ child' = [child EXCEPT ![Current] = "running"]
    /\ main' = "forked"
    /\ UNCHANGED <<inputs, todo, instances, order, got, bounds, ready, chat, pipe,
                   handles, monVars, dataVars, locks>>

ForkFails ==
    /\ main = "fork" /\ crashes < MaxCrashes
    /\ crashes' = crashes + 1
    /\ main' = "raised"
    /\ UNCHANGED <<inputs, todo, instances, order, got, signals, childVars, handles,
                   monVars, dataVars, locks>>

\* ... and only then is _process assigned
KeepHandle ==
    /\ main = "forked"
    /\ held' = held \cup {Current}
    /\ main' = "threads"
    /\ UNCHANGED <<inputs, todo, instances, order, got, bounds, childVars, reaped,
                   monVars, dataVars, locks>>

\* the two threads of its streams (here: one monitor) are created ...
CreateMonitors ==
    /\ main = "threads"
    /\ mon' = [mon EXCEPT ![Current] = "created"]
    /\ main' = "created"
    /\ UNCHANGED <<inputs, todo, instances, order, got, bounds, childVars, handles,
                   line, dataVars, locks>>

Proceed == main' = "next" /\ todo' = Tail(todo)

\* ... and started; start_*() goes on with what it waits for
StartMonitors ==
    /\ main = "created"
    /\ mon' = [mon EXCEPT ![Current] = "reading"]
    /\ \/ Start(Current).awaits = 0 /\ Proceed
       \/ Start(Current).awaits > 0 /\ main' = "wait" /\ UNCHANGED todo
       \/ Start(Current).awaits < 0 /\ main' = "waitexit" /\ UNCHANGED todo
    /\ UNCHANGED <<inputs, instances, order, got, bounds, childVars, handles,
                   line, dataVars, locks>>

\* start_*() catches every exception of start(); some raise it again
Caught ==
    /\ main = "raised"
    /\ IF Start(Current).fatal THEN Fails
       ELSE Proceed /\ UNCHANGED <<instances, order, got>>
    /\ UNCHANGED <<inputs, bounds, childVars, handles, monVars, dataVars, locks>>

\* get_parsed_data() ...
EventSeen ==
    /\ main = "wait" /\ event[Current]
    /\ main' = "drain"
    /\ UNCHANGED <<inputs, todo, instances, order, got, bounds, childVars,
                   handles, monVars, dataVars, locks>>

\* ... empties the queue ...
DrainQueue ==
    /\ main = "drain"
    /\ got' = got + queue[Current]
    /\ queue' = [queue EXCEPT ![Current] = 0]
    /\ main' = "clear"
    /\ UNCHANGED <<inputs, todo, instances, order, bounds, childVars, handles,
                   monVars, event, hits, stopped, locks>>

\* MUTANT: the caller goes on with the first device
ClearEventAtFirst ==
    /\ main = "clear"
    /\ event' = [event EXCEPT ![Current] = FALSE]
    /\ IF got >= 1 THEN main' = "next" /\ todo' = Tail(todo)
       ELSE main' = "wait" /\ UNCHANGED todo
    /\ UNCHANGED <<inputs, instances, order, got, bounds, childVars, handles,
                   monVars, queue, hits, stopped, locks>>

\* ... and clears the event; the caller asks again until it has enough
ClearEvent ==
    /\ main = "clear"
    /\ event' = [event EXCEPT ![Current] = FALSE]
    /\ IF got >= Start(Current).awaits THEN Proceed
       ELSE main' = "wait" /\ UNCHANGED todo
    /\ UNCHANGED <<inputs, instances, order, got, bounds, childVars, handles,
                   monVars, queue, hits, stopped, locks>>

\* the build waits for the exit of its processes, and for code 0
BuildEnds ==
    /\ main = "waitexit" /\ child[Current] \in {"dead", "failed"}
    /\ reaped' = reaped \cup {Current}
    /\ IF child[Current] = "dead" THEN Proceed /\ UNCHANGED <<instances, order, got>>
       ELSE Fails
    /\ UNCHANGED <<inputs, bounds, childVars, held, monVars, dataVars, locks>>

-----------------------------------------------------------------------------
\* The main thread stops them.

\* the lock that get_parsed_data() may hold at a place, within wait(), empty(),
\* get() or clear()
Gripped == IF main = "drain" THEN "queue"
           ELSE IF main \in {"wait", "clear"} THEN "event" ELSE grip

\* signal_handler runs on the main thread, between any two of its steps and
\* also inside the logger, the queue or the event, and comes back to none of
\* them unless cleanup() raises
Signal ==
    /\ main \notin {"plan", "planned", "exited"} /\ signals < MaxSignals
    /\ signals' = signals + 1
    /\ Fails
    /\ grip' \in {grip, Gripped}
    /\ UNCHANGED <<inputs, crashes, childVars, handles, monVars, dataVars, logLock>>

Victim == Head(order)

Drop ==
    /\ instances' = RemoveFirst(instances, Victim)
    /\ order' = Tail(order)
    /\ main' = "stopping"

\* stop() of an instance with no process, or one known to have ended
StopNothing ==
    /\ main = "stopping" /\ order # <<>>
    /\ Victim \notin held \/ Victim \in reaped
    /\ Drop
    /\ UNCHANGED <<inputs, todo, got, bounds, childVars, handles, monVars,
                   dataVars, locks>>

Terminate ==
    /\ main = "stopping" /\ order # <<>>
    /\ Victim \in held \ reaped
    /\ child' = [child EXCEPT ![Victim] = IF @ = "running" THEN "stopping" ELSE @]
    /\ main' = "reap"
    /\ UNCHANGED <<inputs, todo, instances, order, got, bounds, ready, chat, pipe,
                   handles, monVars, dataVars, locks>>

\* wait() returns, or the timeout makes it a kill
Reap ==
    /\ main = "reap"
    /\ child' = [child EXCEPT ![Victim] = IF @ = "failed" THEN @ ELSE "dead"]
    /\ reaped' = reaped \cup {Victim}
    /\ main' = "join"
    /\ UNCHANGED <<inputs, todo, instances, order, got, bounds, ready, chat, pipe,
                   held, monVars, dataVars, locks>>

\* join() has no timeout ...
Join ==
    /\ main = "join" /\ mon[Victim] \in {"off", "done"}
    /\ Drop
    /\ UNCHANGED <<inputs, todo, got, bounds, childVars, handles, monVars,
                   dataVars, locks>>

\* ... and refuses a thread that was not started: the exception leaves cleanup()
\* and the handler, and comes out of the start() that the signal interrupted
JoinRaises ==
    /\ main = "join" /\ mon[Victim] = "created"
    /\ main' = "raised" /\ order' = <<>>
    /\ UNCHANGED <<inputs, todo, instances, got, bounds, childVars, handles, monVars,
                   dataVars, locks>>

Exit ==
    /\ main = "stopping" /\ order = <<>>
    /\ main' = "exited"
    /\ UNCHANGED <<inputs, todo, instances, order, got, bounds, childVars,
                   handles, monVars, dataVars, locks>>

-----------------------------------------------------------------------------
\* A monitor thread.

\* a line is read and logged
ReadLine(s) ==
    /\ mon[s] = "reading" /\ pipe[s] # <<>> /\ logLock = Free
    /\ line' = [line EXCEPT ![s] = Head(pipe[s])]
    /\ pipe' = [pipe EXCEPT ![s] = Tail(@)]
    /\ logLock' = s
    /\ mon' = [mon EXCEPT ![s] = "logging"]
    /\ UNCHANGED <<inputs, mainVars, bounds, child, ready, chat, handles, dataVars,
                   grip>>

\* the awaited one goes into the queue, if callbacks have not stopped
Matches(s) == Start(s).awaits > 0 /\ (line[s] = "ready" \/ Start(s).anyLine)

LineLogged(s) ==
    /\ mon[s] = "logging"
    /\ logLock' = Free
    /\ IF Matches(s) /\ ~ stopped[s]
       THEN mon' = [mon EXCEPT ![s] = "putting"] /\ UNCHANGED line
       ELSE /\ mon' = [mon EXCEPT ![s] = "reading"]
            /\ line' = [line EXCEPT ![s] = "none"]
    /\ UNCHANGED <<inputs, mainVars, bounds, childVars, handles, dataVars, grip>>

\* main keeps a lock of this service
Withheld(s, lock) == grip = lock /\ Current = s

PutItem(s) ==
    /\ mon[s] = "putting" /\ ~ Withheld(s, "queue")
    /\ queue' = [queue EXCEPT ![s] = @ + 1]
    /\ line' = [line EXCEPT ![s] = "none"]
    /\ mon' = [mon EXCEPT ![s] = "found"]
    /\ UNCHANGED <<inputs, mainVars, bounds, childVars, handles, event, hits,
                   stopped, locks>>

\* MUTANT: the event waits for one hit more
SetEventLate(s) ==
    /\ mon[s] = "found" /\ ~ Withheld(s, "event")
    /\ hits' = [hits EXCEPT ![s] = @ + 1]
    /\ event' = [event EXCEPT ![s] = hits[s] >= Start(s).awaits]
    /\ stopped' = [stopped EXCEPT ![s] = hits'[s] >= Start(s).awaits]
    /\ mon' = [mon EXCEPT ![s] = "reading"]
    /\ UNCHANGED <<inputs, mainVars, bounds, childVars, handles, line, queue, locks>>

\* ... and the event is set after it
SetEvent(s) ==
    /\ mon[s] = "found" /\ ~ Withheld(s, "event")
    /\ hits' = [hits EXCEPT ![s] = @ + 1]
    /\ event' = [event EXCEPT ![s] = TRUE]
    /\ stopped' = [stopped EXCEPT ![s] = hits'[s] >= Start(s).awaits]
    /\ mon' = [mon EXCEPT ![s] = "reading"]
    /\ UNCHANGED <<inputs, mainVars, bounds, childVars, handles, line, queue, locks>>

\* MUTANT: the end of the stream is not noticed
StreamNeverEnds(s) == mon[s] = "done" /\ UNCHANGED launchVars

StreamEnds(s) ==
    /\ mon[s] = "reading" /\ pipe[s] = <<>> /\ child[s] \in {"dead", "failed"}
    /\ mon' = [mon EXCEPT ![s] = "done"]
    /\ UNCHANGED <<inputs, mainVars, bounds, childVars, handles, line, dataVars, locks>>

Monitor(s) ==
    ReadLine(s) \/ LineLogged(s) \/ PutItem(s) \/ SetEvent(s) \/ StreamEnds(s)

-----------------------------------------------------------------------------
\* A child (external): it prints the awaited lines in time and others at any
\* time, may exit early, and prints a last line when it is told to stop.

Serves(s) == s = "server" => MiddlewareComesUp(Argv(inv))

PrintReady(s) ==
    /\ child[s] = "running" /\ ready[s] < Start(s).awaits /\ Serves(s)
    /\ ready' = [ready EXCEPT ![s] = @ + 1]
    /\ pipe' = [pipe EXCEPT ![s] = Append(@, "ready")]
    /\ UNCHANGED <<inputs, mainVars, bounds, child, chat, handles, monVars,
                   dataVars, locks>>

PrintOther(s) ==
    /\ child[s] = "running" /\ s \in Chatty \ chat
    /\ chat' = chat \cup {s}
    /\ pipe' = [pipe EXCEPT ![s] = Append(@, "other")]
    /\ UNCHANGED <<inputs, mainVars, bounds, child, ready, handles, monVars,
                   dataVars, locks>>

BuildExits(s) ==
    /\ child[s] = "running" /\ Start(s).awaits = -1
    /\ child' = [child EXCEPT ![s] = "dead"]
    /\ UNCHANGED <<inputs, mainVars, bounds, ready, chat, pipe, handles, monVars,
                   dataVars, locks>>

Crash(s) ==
    /\ child[s] = "running"
    /\ crashes < MaxCrashes \/ ~ Serves(s)
    /\ crashes' = IF Serves(s) THEN crashes + 1 ELSE crashes
    /\ child' = [child EXCEPT ![s] = "failed"]
    /\ UNCHANGED <<inputs, mainVars, signals, ready, chat, pipe, handles, monVars,
                   dataVars, locks>>

StopsItself(s) ==
    /\ child[s] = "stopping"
    /\ child' = [child EXCEPT ![s] = "dead"]
    /\ pipe' = [pipe EXCEPT ![s] = Append(@, "other")]
    /\ UNCHANGED <<inputs, mainVars, bounds, ready, chat, handles, monVars,
                   dataVars, locks>>

Child(s) == PrintReady(s) \/ PrintOther(s) \/ BuildExits(s) \/ Crash(s) \/ StopsItself(s)

-----------------------------------------------------------------------------
MainStep ==
    \/ MakePlan \/ AllStarted \/ RefuseToStart \/ BeginLog \/ CreateInstance
    \/ Fork \/ ForkFails \/ KeepHandle \/ CreateMonitors \/ StartMonitors \/ Caught
    \/ EventSeen \/ DrainQueue \/ ClearEvent \/ BuildEnds
    \/ StopNothing \/ Terminate \/ Reap \/ Join \/ JoinRaises \/ Exit

LaunchNext == MainStep \/ Signal \/ \E s \in Service : Monitor(s) \/ Child(s)

LaunchFairness ==
    /\ WF_launchVars(MainStep)
    /\ \A s \in Service : WF_launchVars(Monitor(s))

LaunchSpec == LaunchInit /\ [][LaunchNext]_launchVars
FairLaunch == LaunchSpec /\ LaunchFairness

-----------------------------------------------------------------------------
\* Properties.

LaunchTypeOK ==
    /\ inv \in Considered /\ machine \in Machines
    /\ main \in {"plan", "planned", "next", "logging", "fork", "forked", "threads",
                 "created", "raised", "wait", "drain", "clear", "waitexit", "asleep",
                 "exited"} \cup Ending
    /\ todo \in Seq(Service \cup {"raise"})
    /\ {instances, order} \subseteq Seq(Service)
    /\ got \in Nat
    /\ signals \in 0..MaxSignals /\ crashes \in 0..MaxCrashes
    /\ child \in [Service -> {"none", "running", "stopping", "dead", "failed"}]
    /\ held \subseteq Service /\ reaped \subseteq held
    /\ ready \in [Service -> 0..2] /\ chat \subseteq Chatty
    /\ pipe \in [Service -> Seq({"ready", "other"})]
    /\ mon \in [Service -> {"off", "created", "reading", "logging", "putting",
                         "found", "done"}]
    /\ line \in [Service -> {"none", "ready", "other"}]
    /\ queue \in [Service -> Nat] /\ hits \in [Service -> Nat]
    /\ event \in [Service -> BOOLEAN] /\ stopped \in [Service -> BOOLEAN]
    /\ logLock \in Service \cup {Free, Main}
    /\ grip \in {"none", "queue", "event"}

Precedes(s, t) ==
    LET plan == Plan(inv, machine)
    IN  \E j \in DOMAIN plan : plan[j] = t /\ \E i \in 1..(j - 1) : plan[i] = s

\* Nothing that talks to a service runs before the service is up: the build
\* has succeeded, both pseudo-terminals have a name, the middleware has said
\* that it started.
AwaitedIsUp ==
    \A s, t \in Service :
        Start(s).fatal /\ child[t] # "none" /\ Precedes(s, t) =>
            IF Start(s).awaits = -1 THEN child[s] = "dead"
            ELSE ready[s] >= Start(s).awaits

\* An emulator, simulator or replay is only planned with a pseudo-terminal to
\* write to.
SourceHasTerminal ==
    \A t \in {"emulator", "simulator", "replay"} :
        Precedes("server", t) /\ ~ Precedes("raise", t) => Precedes("socat", t)

\* Nothing runs before what it needs is there, in an order that is always that
\* of the plan.
LaunchInv == LaunchTypeOK /\ AwaitedIsUp /\ SourceHasTerminal

\* However often and wherever it is interrupted, the launcher does not exit
\* before every process it holds is dead.  (Their last words may be lost: the
\* monitor of a process known to have ended is not joined.)
NothingLeftBehind ==
    main = "exited" =>
        /\ instances = <<>>
        /\ \A s \in held : child[s] \in {"dead", "failed"}

\* One awaited line is enough: once the child has printed it, the launcher
\* goes on.
Waiting(s) == main \in {"wait", "drain", "clear"} /\ Current = s

AwaitedLineIsSeen ==
    \A s \in {"server", "viewer"} :
        (Waiting(s) /\ ready[s] = 1) ~> ~ Waiting(s)

\* A signal ends the program, but for the three places where it finds the main
\* thread inside the logger, the queue or the event, which the monitors that
\* cleanup() joins need, or between creating the monitors of a service and
\* starting them: cleanup() then raises, and a start_*() that swallows
\* exceptions goes on with the launch.
SignalSwallowed ==
    /\ todo # <<>> /\ Current \in Service
    /\ mon[Current] = "created" /\ ~ Start(Current).fatal

ShutdownEnds ==
    (main \in Ending /\ logLock # Main /\ grip = "none" /\ ~ SignalSwallowed)
        ~> (main = "exited")
=============================================================================
