----------------------------- MODULE LatestValue -----------------------------
(***************************************************************************)
(* What a sender thread may rely on from SharedGcsState, without mutexes,  *)
(* versions or condition variables: a register that always holds the       *)
(* payload to transmit, a sender that fetches it, and the promise that the *)
(* sender only goes to rest on the payload the register holds.  A new      *)
(* payload ends the rest, so an operator's change is never left waiting    *)
(* for the heartbeat.                                                      *)
(***************************************************************************)
CONSTANT Value

VARIABLES
  cur,      \* the payload the register holds
  got,      \* the payload the sender fetched last
  resting   \* the sender rests until the heartbeat

vars == <<cur, got, resting>>

TypeOK ==
  /\ cur \in Value
  /\ got \in Value
  /\ resting \in BOOLEAN

Init ==
  /\ cur \in Value
  /\ got = cur
  /\ resting = FALSE

\* A different payload is stored; it interrupts a resting sender.
Publish ==
  /\ \E v \in Value \ {cur} : cur' = v
  /\ resting' = FALSE
  /\ UNCHANGED got

\* The sender fetches the register, never anything older.
Fetch ==
  /\ ~resting
  /\ got' = cur
  /\ UNCHANGED <<cur, resting>>

\* The sender rests only when it holds what the register holds.
Rest ==
  /\ ~resting
  /\ got = cur
  /\ resting' = TRUE
  /\ UNCHANGED <<cur, got>>

\* The heartbeat ends the rest.
Heartbeat ==
  /\ resting
  /\ resting' = FALSE
  /\ UNCHANGED <<cur, got>>

Next == Publish \/ Fetch \/ Rest \/ Heartbeat

Spec == Init /\ [][Next]_vars
=============================================================================
