---------------------------- MODULE PendantState ----------------------------
(***************************************************************************)
(* pendant_state.py: what the switches of the pendant ask of the ground    *)
(* support equipment. A state is the set of what is on.                    *)
(***************************************************************************)
EXTENDS Naturals

PendantInput == {"SYSTEM_ACTIVE", "E_STOP", "FILL_MODE", "ARMED", "N2O",
                 "PURGE", "O2", "IGNITION", "F9", "F10", "F11", "F12"}

Spare == {"F9", "F10", "F11", "F12"}

GSEState == {"SYS_ON", "FILL_SELECTED", "IGNITION_SELECTED", "N2O_ACTIVE",
             "NEUTRAL_ACTIVE", "PURGE_ACTIVE", "O2_MOMENT_ACTIVE",
             "IGNITION_MOMENT_ACTIVE"} \cup Spare

\* What must be on for a state, what must be off, and what makes no sense to
\* be on when the state is.
When(requiredTrue, requiredFalse, nonsense) ==
    [on |-> requiredTrue, off |-> requiredFalse, nonsense |-> nonsense]

Firing   == {"ARMED", "O2", "IGNITION"}
Filling  == {"FILL_MODE", "N2O", "PURGE"}
Spares(f) == When({"SYSTEM_ACTIVE", f}, {}, {})

Conditions ==
    [SYS_ON |->
        When({"SYSTEM_ACTIVE"}, {"E_STOP"}, {}),
     FILL_SELECTED |->
        When({"SYSTEM_ACTIVE", "FILL_MODE"}, {"E_STOP"}, Firing),
     IGNITION_SELECTED |->
        When({"SYSTEM_ACTIVE", "ARMED"}, {"E_STOP"}, Filling),
     N2O_ACTIVE |->
        When({"SYSTEM_ACTIVE", "FILL_MODE", "N2O"}, {"E_STOP"},
             Firing \cup {"PURGE"}),
     NEUTRAL_ACTIVE |->
        When({"SYSTEM_ACTIVE", "FILL_MODE"}, {"E_STOP", "N2O", "PURGE"}, Firing),
     PURGE_ACTIVE |->
        When({"SYSTEM_ACTIVE", "FILL_MODE", "PURGE"}, {"E_STOP"},
             Firing \cup {"N2O"}),
     O2_MOMENT_ACTIVE |->
        When({"SYSTEM_ACTIVE", "ARMED", "O2"}, {"E_STOP"}, Filling),
     IGNITION_MOMENT_ACTIVE |->
        When({"SYSTEM_ACTIVE", "ARMED", "IGNITION"}, {"E_STOP"}, Filling),
     F9 |-> Spares("F9"), F10 |-> Spares("F10"), F11 |-> Spares("F11"),
     F12 |-> Spares("F12")]

IsTrue(state, pressed) ==
    /\ Conditions[state].on \subseteq pressed
    /\ Conditions[state].off \cap pressed = {}

Impossible(pressed) ==
    \E state \in GSEState :
        IsTrue(state, pressed) /\ Conditions[state].nonsense \cap pressed # {}

\* MUTANT: an impossible condition is reported, not acted upon.
GseStatesUnchecked(pressed) == {state \in GSEState : IsTrue(state, pressed)}

\* FALLBACK_GSE_STATES_DICT_SYS_ON answers an impossible condition.
GseStates(pressed) ==
    IF Impossible(pressed) THEN {"SYS_ON"}
    ELSE {state \in GSEState : IsTrue(state, pressed)}

\* PendantState.get_fallback_table: nothing is on.
FallbackTable == {}

\* The states GCStoGSEStateCMD encodes: the spare buttons are left out.
Command(pressed) == GseStates(pressed) \ Spare

\* What a command may never ask for: filling and ignition at once, two
\* positions of the fill valve, a valve or the igniter without its selector,
\* anything while the system key is off.
Interlocked(command) ==
    /\ ~({"FILL_SELECTED", "IGNITION_SELECTED"} \subseteq command)
    /\ ~({"N2O_ACTIVE", "NEUTRAL_ACTIVE"} \subseteq command)
    /\ ~({"N2O_ACTIVE", "PURGE_ACTIVE"} \subseteq command)
    /\ ~({"NEUTRAL_ACTIVE", "PURGE_ACTIVE"} \subseteq command)
    /\ command \cap {"N2O_ACTIVE", "NEUTRAL_ACTIVE", "PURGE_ACTIVE"} # {}
          => "FILL_SELECTED" \in command
    /\ command \cap {"O2_MOMENT_ACTIVE", "IGNITION_MOMENT_ACTIVE"} # {}
          => "IGNITION_SELECTED" \in command
    /\ command # {} => "SYS_ON" \in command
=============================================================================
