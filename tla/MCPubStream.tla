---------------------------- MODULE MCPubStream ----------------------------
(* Small instances of PubStream: a viewer, a session, or both.               *)
EXTENDS PubStream, TLC

\* Packets are told apart past all that the disturbances can cost.
ASSUME NumbersSuffice == Numbers > 2 * MaxFaults
=============================================================================
