------------------------------ MODULE MCAlarms ------------------------------
(***************************************************************************)
(* A small instance of Alarms: one alarm of each kind of evaluation, the   *)
(* configuration being chosen in the initial state.  An alarm without      *)
(* delays or deadband is enough to reach a flood.  Alarms do not interact  *)
(* but through the flood count; the theorems hold for any set of them.     *)
(***************************************************************************)
EXTENDS Alarms

CONSTANTS a1, measured, setpoint

Bit == [tag |-> measured, kind |-> "digital", limit |-> 0, deadband |-> 0,
        onDelay |-> 0, offDelay |-> 0, latched |-> FALSE, enabled |-> TRUE,
        setpointTag |-> None, setpoint |-> 0, rocWindow |-> 1, trigger |-> TRUE]

High == [Bit EXCEPT !.kind = "hi", !.limit = 1, !.deadband = 1,
                    !.onDelay = 1, !.offDelay = 1, !.latched = TRUE]
Low == [Bit EXCEPT !.kind = "lo", !.limit = 1, !.offDelay = 2]
Deviation == [High EXCEPT !.kind = "deviation", !.setpointTag = setpoint,
                          !.onDelay = 2, !.offDelay = 0]
Rising == [Bit EXCEPT !.kind = "roc_hi", !.latched = TRUE]
Falling == [Rising EXCEPT !.kind = "roc_lo", !.rocWindow = 2]
Disabled == [Bit EXCEPT !.enabled = FALSE]

MCConfigs ==
    {[a \in {a1} |-> s] : s \in {Bit, High, Low, Deviation, Rising, Falling, Disabled}}
MCAlarmNames == {a1}
MCReadings == [t \in {measured, setpoint} |-> IF t = measured THEN {0, 1, 2} ELSE {0}]
MCTags == {measured, setpoint}
=============================================================================
