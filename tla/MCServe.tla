------------------------------- MODULE MCServe -------------------------------
(***************************************************************************)
(* A small instance of Serve: a latched alarm and one that is not, and two *)
(* workers.                                                                *)
(***************************************************************************)
EXTENDS Serve
=============================================================================
