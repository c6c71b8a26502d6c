------------------------------ MODULE MCPoller ------------------------------
(***************************************************************************)
(* A small instance of Poller: a fast and a slow group that share a        *)
(* device; the slow one also has a tag on a device without a driver.       *)
(***************************************************************************)
EXTENDS Poller

MCDevicesOf == <<{1}, {1, 2}>>
MCPeriod == <<1, 2>>
=============================================================================
