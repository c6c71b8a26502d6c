---------------------------- MODULE MCHistorian ----------------------------
(***************************************************************************)
(* A small instance of Historian: one tag, a swinging door, a deadband, or *)
(* both, with and without a heartbeat.                                     *)
(***************************************************************************)
EXTENDS Historian

CONSTANT t1

Setup(deadband, tolerance, maxInterval) ==
    [deadband |-> deadband, tolerance |-> tolerance, maxInterval |-> maxInterval]

MCSettings == {Setup(0, 1, 3), Setup(1, 0, None), Setup(1, 1, 2)}

(* For a signal that rests long enough to be rebuilt badly.                *)
MCResting == {Setup(1, 1, 4)}
=============================================================================
