------------------------------- MODULE Runtime -------------------------------
(***************************************************************************)
(* The scan cycle of runtime.py over the simulated line: each poll reads   *)
(* the line and feeds its state and its counters to the OEE calculator;    *)
(* at the end of the shift the open stop is closed for the report.         *)
(*                                                                         *)
(* The clock of the runtime is that of the line, since a read first steps  *)
(* the line up to now.  A poll may come at any time: before, between and   *)
(* after the commands of one second, or after many seconds.  Only the poll *)
(* group that holds the line state matters here, and it holds the counters *)
(* and the fault code too; history and alarms are modules of their own.    *)
(***************************************************************************)
EXTENDS SimulatedLine, Oee

VARIABLES
    events,         \* the stops of the downtime tracker
    counts,         \* the counters the calculator was last given
    lastRunning,    \* what the last good scan said, None before the first
    over            \* the shift has been reported

kept == <<events, counts, lastRunning, over>>

vars == <<plc, commands, kept>>

(* The reasons of _STATE_REASONS and of _FAULT_CODE_REASONS.               *)
Reasons == {"Line stopped", "Equipment fault", "Product starvation",
            "Conveyor jam", "Sensor fault", "Network loss"}

Event == [start : Nat, end : Nat \cup {None}, reason : Reasons, category : Categories]

(* "Nothing yet" is neither an answer nor a stop.                          *)
ASSUME RuntimeAssumption == None \notin BOOLEAN /\ None \notin [since : Nat, why : Reasons]

Init ==
    /\ InitLine
    /\ events = <<>>
    /\ counts = [total |-> 0, rejects |-> 0]
    /\ lastRunning = None
    /\ over = FALSE

-----------------------------------------------------------------------------
(* Helpers                                                                 *)

(* Mutant of StateReason: the table has no entry for a starved line.       *)
NoStarvedReason(state) ==
    CASE state = "STOPPED" -> "Line stopped"
      [] state = "FAULT" -> "Equipment fault"
      [] OTHER -> "Unknown stop"

StateReason(state) ==
    CASE state = "STOPPED" -> "Line stopped"
      [] state = "FAULT" -> "Equipment fault"
      [] state = "STARVED" -> "Product starvation"
      [] OTHER -> "Unknown stop"

FaultReason(fault) ==
    CASE fault = "jam" -> "Conveyor jam"
      [] fault = "low_tank" -> "Product starvation"
      [] fault = "sensor_stuck" -> "Sensor fault"
      [] fault = "comms_drop" -> "Network loss"

(* Mutant of Reason: a fault explains only a line in FAULT.                *)
ReasonOfState(values) ==
    IF values.line_state = "FAULT" /\ values.fault_code # None
    THEN FaultReason(values.fault_code) ELSE StateReason(values.line_state)

(* A fault code outweighs the line state.                                  *)
Reason(values) ==
    IF values.fault_code # None
    THEN FaultReason(values.fault_code) ELSE StateReason(values.line_state)

IsRunning(values) == values.line_state = "RUNNING"

Counters(values) == [total |-> values.product_count, rejects |-> values.reject_count]

(* What the dashboard and the summary show of the shift so far.            *)
Report == ComputeOee(PlannedTime(events, plc.t), DowntimeOf(events, plc.t),
                     counts.total, counts.rejects)

-----------------------------------------------------------------------------
(* Actions                                                                 *)

LineActs ==
    /\ ~over
    /\ Command
    /\ UNCHANGED kept

LineSteps ==
    /\ ~over
    /\ Step
    /\ UNCHANGED kept

(* The simulated network is down: every reading is BAD and none is merged. *)
PollFails ==
    /\ ~over
    /\ Read(plc) = None
    /\ UNCHANGED vars

(* The line is as the last scan had it.                                    *)
PollSame ==
    /\ ~over
    /\ Read(plc) # None
    /\ IsRunning(Read(plc)) = lastRunning
    /\ counts' = Counters(Read(plc))
    /\ UNCHANGED <<plc, commands, events, lastRunning, over>>

PollTransition ==
    /\ ~over
    /\ Read(plc) # None
    /\ IsRunning(Read(plc)) # lastRunning
    /\ counts' = Counters(Read(plc))
    /\ lastRunning' = IsRunning(Read(plc))
    /\ events' = RecordState(events, plc.t, IsRunning(Read(plc)), Reason(Read(plc)))
    /\ UNCHANGED <<plc, commands, over>>

(* The report at the end of a shift closes what is open.                   *)
EndOfShift ==
    /\ ~over
    /\ over' = TRUE
    /\ events' = CloseAll(events, plc.t)
    /\ UNCHANGED <<plc, commands, counts, lastRunning>>

Next == LineActs \/ LineSteps \/ PollFails \/ PollSame \/ PollTransition \/ EndOfShift

Spec == Init /\ [][Next]_vars

FairSpec == Spec /\ WF_vars(LineSteps)

-----------------------------------------------------------------------------
(* Properties                                                              *)

TypeOK ==
    /\ LineTypeOK
    /\ events \in Seq(Event)
    /\ counts \in [total : 0..MaxMade, rejects : 0..MaxMade]
    /\ lastRunning \in BOOLEAN \cup {None}
    /\ over \in BOOLEAN

(* The report of a shift (dashboard, summary, cmd_oee) never refuses its   *)
(* own figures, its factors are fractions, and the stops it takes away fit *)
(* into the shift before result() caps them, so the cap hides nothing.     *)
IsFraction(f) == 0 <= f[1] /\ f[1] <= f[2]

ReportAddsUp ==
    /\ Total(events, "unplanned") <= plc.t
    /\ ~Refused(PlannedTime(events, plc.t), DowntimeOf(events, plc.t),
                counts.total, counts.rejects)
    /\ IsFraction(Report.availability)
    /\ IsFraction(Report.performance)
    /\ IsFraction(Report.quality)

(* What the line shows for its standstill: its fault, else its state.      *)
Cause ==
    CASE plc.fault = "jam" -> "Conveyor jam"
      [] plc.fault = "low_tank" -> "Product starvation"
      [] plc.fault = "sensor_stuck" -> "Sensor fault"
      [] plc.fault = None /\ plc.state = "STARVED" -> "Product starvation"
      [] OTHER -> "Line stopped"

Account == INSTANCE Uptime WITH
    Causes <- Reasons, Running <- "running", None <- None,
    now <- plc.t,
    shows <- IF ~plc.comms THEN None
             ELSE IF plc.state = "RUNNING" THEN "running" ELSE Cause,
    seen <- lastRunning,
    stop <- IF LatestOpen(events) = 0 THEN None
            ELSE [since |-> events[LatestOpen(events)].start,
                  why   |-> events[LatestOpen(events)].reason],
    lost <- [r \in Reasons |-> Lost(events, r)],
    over <- over

(* Transitions, open events and the Pareto together keep the account that  *)
(* Uptime describes: each second of a stop that was seen is charged once,  *)
(* to the cause shown when it was seen first.                              *)
CountsWhatWasSeen == Account!Spec

(* The line's own account of its standstills, see SimulatedLine.           *)
DowntimeIsRecorded == [][StandstillsAreRecorded]_vars

(* A fault that was given a duration when it was injected or scheduled is  *)
(* over some time, unless one without an end displaces it or the shift is  *)
(* reported: its end is not lost, and step() clears it as long as the line *)
(* is stepped, whatever the line state is then.                            *)
TimedFaultEnds == plc.timed ~> (~plc.timed \/ over)
=============================================================================
