--------------------------- MODULE MCEventViewer ----------------------------
(* A session with one flag and one test of each kind, and three viewers.   *)
EXTENDS EventViewer

\* The tables of the viewer, which no step changes.
ASSUME Tables == RowsFitHeaders /\ AtmosphereIsContinuous
=============================================================================
