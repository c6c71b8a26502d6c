------------------------------- MODULE Uptime -------------------------------
(***************************************************************************)
(* What the downtime account of a shift promises, whatever keeps it.  The  *)
(* line shows that it is running, or the cause of its standstill, or       *)
(* nothing when it cannot be reached; it is looked at now and then.  A     *)
(* stop lasts from the look that found the line standing to the look that  *)
(* found it running again or to the end of the shift, and all of it is     *)
(* charged to the cause shown when it was found, once.                     *)
(***************************************************************************)
EXTENDS Integers

CONSTANTS
    Causes,         \* of a standstill
    Running, None   \* two more values of "shows", neither of them a cause

VARIABLES
    now,
    shows,          \* Running, a cause, or None when the line is out of reach
    seen,           \* what the last look found: running or not, None before
    stop,           \* the stop under way, None when there is none
    lost,           \* the time charged to each cause
    over            \* the shift has ended

vars == <<now, shows, seen, stop, lost, over>>

Init ==
    /\ now = 0
    /\ shows \in Causes \cup {Running, None}
    /\ seen = None
    /\ stop = None
    /\ lost = [c \in Causes |-> 0]
    /\ over = FALSE

LineChanges ==
    /\ ~over
    /\ now' \in {now, now + 1}
    /\ shows' \in Causes \cup {Running, None}
    /\ UNCHANGED <<seen, stop, lost, over>>

Charged == [lost EXCEPT ![stop.why] = @ + now - stop.since]

LooksUp ==
    /\ ~over /\ shows = Running
    /\ seen' = TRUE
    /\ stop' = None
    /\ lost' = IF stop = None THEN lost ELSE Charged
    /\ UNCHANGED <<now, shows, over>>

LooksDown ==
    /\ ~over /\ shows \in Causes
    /\ seen' = FALSE
    /\ stop' = IF stop = None THEN [since |-> now, why |-> shows] ELSE stop
    /\ UNCHANGED <<now, shows, lost, over>>

EndShift ==
    /\ ~over
    /\ over' = TRUE
    /\ stop' = None
    /\ lost' = IF stop = None THEN lost ELSE Charged
    /\ UNCHANGED <<now, shows, seen>>

Next == LineChanges \/ LooksUp \/ LooksDown \/ EndShift

Spec == Init /\ [][Next]_vars
=============================================================================
