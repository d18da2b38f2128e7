------------------------------ MODULE MCPendant ------------------------------
(* Switch settings that ask for a valve, for the impossible, and for an      *)
(* emergency stop; an emulated device that fills and fires.                  *)
EXTENDS Pendant

HeldSets == {{"SYSTEM_ACTIVE", "FILL_MODE", "N2O"},
             {"SYSTEM_ACTIVE", "FILL_MODE", "ARMED"},
             {"SYSTEM_ACTIVE", "FILL_MODE", "N2O", "E_STOP", "F9"}}

ShownSets == {{"SYSTEM_ACTIVE", "FILL_MODE", "N2O"},
              {"SYSTEM_ACTIVE", "ARMED", "IGNITION"}}
=============================================================================
