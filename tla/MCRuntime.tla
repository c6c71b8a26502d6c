------------------------------ MODULE MCRuntime ------------------------------
(***************************************************************************)
(* A small instance of Runtime.  Of the queued faults two come at one      *)
(* time, the second displacing the first and never ending by itself, and   *)
(* the third cuts the line off for a while.                                *)
(***************************************************************************)
EXTENDS Runtime

Queued(at, fault, lasts) == [at |-> at, fault |-> fault, lasts |-> lasts]

MCSchedules ==
    {<<Queued(1, "jam", 1), Queued(1, "sensor_stuck", None), Queued(3, "comms_drop", 1)>>}
=============================================================================
