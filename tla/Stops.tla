-------------------------------- MODULE Stops --------------------------------
(***************************************************************************)
(* Periods of standstill, as the line (simulator.py, StopEvent) and the    *)
(* downtime tracker (oee.py, DowntimeEvent) each keep them: a start and,   *)
(* once it is known, an end.                                               *)
(***************************************************************************)
EXTENDS Integers, Sequences, SequencesExt

CONSTANT None

ASSUME StopsAssumption == None \notin Nat

IsOpen(stop) == stop.end = None

(* An open stop counts for nothing until it is closed.                     *)
Duration(stop) ==
    IF IsOpen(stop) \/ stop.end < stop.start THEN 0 ELSE stop.end - stop.start

(* The latest open stop of a record, 0 when there is none.                 *)
LatestOpen(stops) == SelectLastInSeq(stops, IsOpen)
=============================================================================
