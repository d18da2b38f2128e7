----------------------------- MODULE LaunchPlan -----------------------------
(***************************************************************************)
(* What a command line of rocket.py starts.  An invocation is a record of  *)
(* the options; a plan is the sequence of services start_services() starts *)
(* for it, in which "raise" is the exception that ends it.  The machine is *)
(* what the launcher finds: the build cache, the middleware binary, the    *)
(* boards.  Which service follows which, and what is refused where, is     *)
(* kept; paths, ports and radio parameters are not.                        *)
(***************************************************************************)
EXTENDS Sequences, FiniteSets, Naturals

CONSTANTS
    Config,     \* interface_release_gse, ... of the [hardware] section
    Missions,   \* replay data sets that are installed
    Ravens      \* blue raven data sets that are installed

Unset == "unset"            \* an option or a field without a value

\* InterfaceType of start_middleware.py; Emulated is _test_interfaces, Serial
\* are the LoRa boards.
Interface == {"UART_E5", "UART_FEATHER", "TEST", "TEST_UART_E5", "TCP", "NONE"}
Emulated == {"TEST", "TEST_UART_E5"}
Serial == {"UART_E5", "UART_FEATHER"}

ConfigFields == {"release_gse", "release_av", "dev_gse", "dev_av"}

ASSUME ConfigAssumption ==
    /\ Config \in [ConfigFields -> Interface \cup {Unset}]
    /\ {Config["dev_gse"], Config["dev_av"]} \subseteq Interface

-----------------------------------------------------------------------------
\* The four commands, with the options each leaves to its user.

NoOptions(command) ==
    [command |-> {command}, docker |-> {FALSE}, single |-> {Unset}, gse |-> {Unset},
     av |-> {Unset}, nobuild |-> {FALSE}, nopendant |-> {FALSE}, gseOnly |-> {FALSE},
     frontend |-> {TRUE}, frontendOnly |-> {FALSE}, mode |-> {Unset},
     mission |-> {Unset}, raven |-> {Unset}, simulation |-> {Unset}]

Invocations(of) ==
    [command : of.command, docker : of.docker, single : of.single, gse : of.gse,
     av : of.av, nobuild : of.nobuild, nopendant : of.nopendant,
     gseOnly : of.gseOnly, frontend : of.frontend, frontendOnly : of.frontendOnly,
     mode : of.mode, mission : of.mission, raven : of.raven,
     simulation : of.simulation]

Given == Interface \cup {Unset}

RunChoices(of) == [of EXCEPT !.gseOnly = BOOLEAN, !.frontendOnly = BOOLEAN]

RunCommands ==
    Invocations([RunChoices(NoOptions("RUN")) EXCEPT !.nobuild = {TRUE},
                     !.gse = {Config["release_gse"]}, !.av = {Config["release_av"]}])

SimChoices(of) == [of EXCEPT !.docker = BOOLEAN, !.nobuild = BOOLEAN]

DevChoices(of) ==
    [RunChoices(SimChoices(of)) EXCEPT !.single = Given, !.gse = Given, !.av = Given,
        !.nopendant = BOOLEAN, !.frontend = BOOLEAN]

DevCommands == Invocations(DevChoices(NoOptions("DEV")))

EmulatedLinks(of) ==
    [of EXCEPT !.gse = {"TEST"}, !.av = {"TEST"}, !.nopendant = {TRUE}]

SimulationCommands == Invocations(EmulatedLinks(SimChoices(NoOptions("SIMULATION"))))

ReplayChoices(of) ==
    [SimChoices(of) EXCEPT !.mode = {Unset, "mission", "simulation"},
        !.mission = Missions \cup {Unset}, !.raven = Ravens \cup {Unset},
        !.simulation = {Unset, "TEST", "DEMO", "legacy", "fail"}]

ReplayCommands == Invocations(EmulatedLinks(ReplayChoices(NoOptions("REPLAY"))))

-----------------------------------------------------------------------------
\* What the commands refuse before anything starts.

\* _validate_interface_options
InterfaceOptionsRefused(i) ==
    \/ i.single # Unset /\ {i.gse, i.av} # {Unset}
    \/ (i.gse = Unset) # (i.av = Unset)
    \/ /\ Unset \notin {i.gse, i.av}
       /\ i.av \in Emulated \/ (i.gse \in Emulated /\ i.av # i.gse)

\* replay()
ReplayOptionsRefused(i) ==
    \/ i.mode = Unset
    \/ i.mode = "mission" /\ (i.mission = "TEST" \/ {i.mission, i.raven} = {Unset})
    \/ i.mode = "simulation" /\ i.simulation \notin {"TEST", "DEMO"}

\* _validate_mutually_exclusive_options
ScopeRefused(i) == i.gseOnly /\ i.frontendOnly

Refused(i) ==
    \/ i.command = "DEV" /\ InterfaceOptionsRefused(i)
    \/ i.command \in {"RUN", "DEV"} /\ ScopeRefused(i)
    \/ i.command = "REPLAY" /\ ReplayOptionsRefused(i)
    \/ i.docker

-----------------------------------------------------------------------------
\* RuntimeLaunchConfig: the two links, and how each finds its device.

LinkType(i, given, fallback) ==
    CASE i.single # Unset -> i.single
      [] i.single = Unset /\ given # Unset -> given
      [] OTHER -> fallback

Links(i) ==
    [gse |-> LinkType(i, i.gse, Config["dev_gse"]),
     av  |-> IF i.gseOnly THEN "NONE" ELSE LinkType(i, i.av, Config["dev_av"])]

\* _validate_split_emulation_support
SplitSupported(l) ==
    \/ "NONE" \in {l.gse, l.av}
    \/ {l.gse, l.av} \cap Emulated = {}
    \/ l.gse = l.av

UsesPseudoTerminals(l) ==
    /\ {l.gse, l.av} \cap Emulated # {}
    /\ {l.gse, l.av} \subseteq Emulated \cup {"NONE"}

\* _resolve_non_test_device_path finds a path unless the board is missing
DeviceFound(type, machine) ==
    type \in Serial \cup {"TCP"} => type \in machine.reachable

ResolvePaths(l, machine) ==
    CASE ~ SplitSupported(l) -> <<"raise">>
      [] SplitSupported(l) /\ UsesPseudoTerminals(l) -> <<"socat">>
      [] OTHER -> IF /\ {l.gse, l.av} \cap Emulated = {}
                     /\ \A type \in {l.gse, l.av} : DeviceFound(type, machine)
                  THEN <<>> ELSE <<"raise">>

-----------------------------------------------------------------------------
\* The middleware: its command line, and what the C++ side makes of it.

\* build_middleware_argv: the radio parameters are there for a serial link
Argv(i) ==
    [gse |-> Links(i).gse, av |-> Links(i).av,
     lora |-> {Links(i).gse, Links(i).av} \cap Serial # {},
     gseOnly |-> i.gseOnly]

SupportedPairs ==
    {"TCP"} \X {"UART_E5", "UART_FEATHER", "NONE"} \cup
    {<<"TEST_UART_E5", "TEST_UART_E5">>, <<"TEST", "TEST">>} \cup
    (Serial \cup Emulated) \X {"NONE"}

\* parse_args, then create_interface for the links main() opens
MiddlewareComesUp(argv) ==
    /\ \E pair \in SupportedPairs :
           pair[1] = argv.gse /\ (argv.gseOnly \/ pair[2] = argv.av)
    /\ {argv.gse, argv.av} \cap Serial # {} => argv.lora
    /\ argv.gse # "NONE"
    /\ argv.gseOnly \/ argv.av # "NONE"

\* get_middleware_path: exactly one binary, of this version
StartServer(machine) ==
    IF machine.binary = "found" THEN <<"server">> ELSE <<"raise">>

-----------------------------------------------------------------------------
\* The rest of start_services().

StartBuild(i, machine) ==
    IF i.nobuild THEN <<>>
    ELSE (IF machine.cache THEN <<>> ELSE <<"cmake">>) \o <<"cmake-build">>

\* start_replay_system wants exactly one data set; it logs the error it raises
ReplaySources(i) ==
    {s \in (IF i.mode = "mission" THEN {i.mission, i.raven} ELSE {i.simulation}) :
        s # Unset}

\* build_aux_service_plan
AuxService(i) ==
    CASE i.command = "DEV" /\ {Links(i).gse, Links(i).av} \cap Emulated # {}
            -> <<"emulator">>
      [] i.command = "SIMULATION" -> <<"simulator">>
      [] i.command = "REPLAY" /\ Cardinality(ReplaySources(i)) = 1 -> <<"replay">>
      [] OTHER -> <<>>

If(condition, service) == IF condition THEN <<service>> ELSE <<>>

Plan(i, machine) ==
    CASE Refused(i) -> <<"raise">>
      [] ~ Refused(i) /\ i.frontendOnly -> <<"webserver">>
      [] OTHER ->
           StartBuild(i, machine) \o ResolvePaths(Links(i), machine)
           \o StartServer(machine) \o AuxService(i) \o <<"viewer">>
           \o If(~ i.nopendant /\ i.mode # "mission", machine.pendant)
           \o If(i.mode # "mission" /\ i.simulation = Unset, "labview")
           \o <<"api">> \o If(i.frontend, "webserver")

=============================================================================
