----------------------------- MODULE MCEmulator ------------------------------
(* Four bit integers; a peak, where an encoder refuses the value, a wave on *)
(* its way up with the flight state 6, and one on its way down.             *)
EXTENDS Emulator

SomePhases == {-4, -2, 3}
SomeFields == {"accel_high_y", "camera_controller"}
=============================================================================
