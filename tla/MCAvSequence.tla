----------------------------- MODULE MCAvSequence -----------------------------
(* Small instances of AvSequence: a lock timeout of one tick.                *)
EXTENDS AvSequence
=============================================================================
