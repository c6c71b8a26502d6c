--------------------------------- MODULE Oee ---------------------------------
(***************************************************************************)
(* The downtime tracker and the OEE figures of oee.py, as functions of the *)
(* stops recorded so far.  A factor is a fraction <<n, d>>, not yet        *)
(* divided; <<0, 1>> stands for the zero the code reports when there is    *)
(* nothing to divide by.                                                   *)
(***************************************************************************)
EXTENDS Stops

CONSTANT IdealCycleTime

ASSUME OeeAssumption == IdealCycleTime \in Nat \ {0}

Categories == {"planned", "unplanned"}

-----------------------------------------------------------------------------
(* DowntimeTracker                                                         *)

(* Mutant of Closed: a stop that has ended is ended again.                 *)
ClosedAgain(stop, t) == [stop EXCEPT !.end = t]

Closed(stop, t) == IF IsOpen(stop) THEN [stop EXCEPT !.end = t] ELSE stop

StartStop(events, t, reason, category) ==
    IF LatestOpen(events) # 0 THEN events
    ELSE Append(events, [start |-> t, end |-> None, reason |-> reason, category |-> category])

EndStop(events, t) ==
    LET last == LatestOpen(events)
    IN  IF last = 0 THEN events ELSE [events EXCEPT ![last] = Closed(@, t)]

CloseAll(events, t) == [i \in DOMAIN events |-> Closed(events[i], t)]

(* A sum over a sequence, by a recursive function on its positions.        *)
SumOf(numbers) ==
    LET upTo[n \in 0..Len(numbers)] == IF n = 0 THEN 0 ELSE upTo[n - 1] + numbers[n]
    IN  upTo[Len(numbers)]

Charges(events, Counts(_)) ==
    [i \in 1..Len(events) |-> IF Counts(events[i]) THEN Duration(events[i]) ELSE 0]

Total(events, category) == SumOf(Charges(events, LAMBDA e : e.category = category))

(* A row of the Pareto: what one reason cost.                              *)
Lost(events, reason) ==
    SumOf(Charges(events, LAMBDA e : e.category = "unplanned" /\ e.reason = reason))

RecordState(events, t, running, reason) ==
    IF running THEN EndStop(events, t) ELSE StartStop(events, t, reason, "unplanned")

-----------------------------------------------------------------------------
(* The figures                                                             *)

Fraction(n, d) == IF d > 0 THEN <<n, d>> ELSE <<0, 1>>

(* What compute_oee refuses.                                               *)
Refused(planned, downtime, total, rejects) ==
    \/ planned < 0 \/ downtime < 0 \/ downtime > planned
    \/ total < 0 \/ rejects < 0 \/ rejects > total

(* Performance is held at 1, however short the run time was.               *)
ComputeOee(planned, downtime, total, rejects) ==
    LET runTime == planned - downtime
        raw == Fraction(IdealCycleTime * total, runTime)
    IN  [availability |-> Fraction(runTime, planned),
         performance  |-> IF raw[1] > raw[2] THEN <<1, 1>> ELSE raw,
         quality      |-> Fraction(total - rejects, total)]

AtLeastZero(n) == IF n < 0 THEN 0 ELSE n

(* The time the shift was to produce, and the stops taken from it.         *)
PlannedTime(events, elapsed) == AtLeastZero(elapsed - Total(events, "planned"))

DowntimeOf(events, elapsed) ==
    LET unplanned == Total(events, "unplanned")
        planned == PlannedTime(events, elapsed)
    IN  IF unplanned < planned THEN unplanned ELSE planned
=============================================================================
