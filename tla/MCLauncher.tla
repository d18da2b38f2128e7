----------------------------- MODULE MCLauncher -----------------------------
\* Instances of Launcher for TLC.
EXTENDS Launcher

\* the [hardware] section of config.ini
MCConfig == [release_gse |-> "TCP", release_av |-> "UART_FEATHER",
             dev_gse |-> "TEST", dev_av |-> "TEST"]

MCMachines ==
    {[cache |-> TRUE, binary |-> "found", reachable |-> Serial \cup {"TCP"},
      pendant |-> "pendant_daemon"],
     [cache |-> FALSE, binary |-> "none", reachable |-> {"TCP"},
      pendant |-> "pendant_emulator"]}

\* every command, but of dev without the options no refusal depends on
AllConsidered ==
    RunCommands \cup SimulationCommands \cup ReplayCommands \cup
    {i \in DevCommands : i.nopendant = ~ i.frontend /\ (i.docker => i.nobuild)}

\* one plan with pseudo-terminals, one that builds, one of a single service
WithTerminals ==
    Invocations([NoOptions("DEV") EXCEPT !.single = {"TEST"}, !.nobuild = {TRUE},
                     !.nopendant = {TRUE}, !.frontend = {FALSE}])
WithBuild ==
    Invocations([NoOptions("DEV") EXCEPT !.single = {"TCP"}, !.gseOnly = {TRUE},
                     !.nopendant = {TRUE}, !.frontend = {FALSE}])
WebOnly ==
    Invocations([NoOptions("RUN") EXCEPT !.gse = {"TCP"}, !.av = {"UART_FEATHER"},
                     !.nobuild = {TRUE}, !.frontendOnly = {TRUE}])
AllCarried == WithTerminals \cup WithBuild \cup WebOnly
=============================================================================
