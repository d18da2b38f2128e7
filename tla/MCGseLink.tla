------------------------------ MODULE MCGseLink ------------------------------
(* A small instance of GseLink: one pendant payload, one solenoid payload.    *)
EXTENDS GseLink
=============================================================================
