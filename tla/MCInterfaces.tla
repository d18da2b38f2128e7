---------------------------- MODULE MCInterfaces ----------------------------
(* Small instances of the interfaces: two payloads and the constants of      *)
(* middleware_timing.hpp in ticks of 250 ms for TCP; for LoRa enough trouble *)
(* to end the setup of the Feather, and enough packets to lose some.         *)
EXTENDS Interfaces

Symmetry == Permutations(Payload)
=============================================================================
