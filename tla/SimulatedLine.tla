---------------------------- MODULE SimulatedLine ----------------------------
(***************************************************************************)
(* The simulated bottling line of protocols/simulator.py as its controller *)
(* sees it: the line state, injected and scheduled faults, the commands of *)
(* an operator, and the line's own record of its stops.  Of the process    *)
(* only what the state machine and the reports read is kept: whether the   *)
(* conveyor is told to move and moves, how full the tank is, and the       *)
(* bottles counted.  How fast these change depends on the configuration of *)
(* the process, so here they change as any configuration lets them.        *)
(*                                                                         *)
(* The line is stepped by the driver that reads it: between two reads its  *)
(* time stands still, and commands take effect at the time of the last.    *)
(***************************************************************************)
EXTENDS Stops

CONSTANTS
    Schedules,      \* the queues of faults a run may start with
    Durations,      \* how long an injected fault may last
    MaxTime,        \* bound: the line is stepped no further
    MaxCommands,    \* bound: commands and injected faults of a run
    MaxMade         \* bound: bottles made

(* The line states, and the faults.  "jam" stands for the four faults that *)
(* stop the line and touch nothing else kept here.                         *)
LineStates == {"STOPPED", "RUNNING", "FAULT", "STARVED"}

Faults == {"jam", "low_tank", "sensor_stuck", "comms_drop"}

(* The faults that leave the line state alone.                             *)
Silent == {"sensor_stuck", "comms_drop"}

Levels == {"empty", "low", "good"}      \* below 5 percent, up to 25, above

ASSUME LineAssumption ==
    /\ MaxTime \in Nat /\ MaxCommands \in Nat /\ MaxMade \in Nat
    /\ Durations \subseteq Nat
    /\ None \notin Faults
    /\ Schedules \subseteq Seq([at : Nat, fault : Faults, lasts : Durations \cup {None}])

VARIABLES
    plc,            \* SimulatedPLC, and timed, a history variable: the fault
                    \* in force was given an end
    commands        \* commands and faults given so far

Stop == [start : Nat, end : Nat \cup {None}]

InitLine ==
    /\ commands = 0
    /\ \E queue \in Schedules :
           plc = [t |-> 0, state |-> "RUNNING", fault |-> None, until |-> None,
                  timed |-> FALSE, schedule |-> queue, speed |-> TRUE, setpoint |-> TRUE,
                  moving |-> TRUE, level |-> "good", comms |-> TRUE,
                  made |-> 0, rejected |-> 0, down |-> 0, stops |-> <<>>]

-----------------------------------------------------------------------------
(* The line's record of its stops                                          *)

StopOpened(p) == [p EXCEPT !.stops = Append(@, [start |-> p.t, end |-> None])]

(* Only the latest open stop is closed, whatever opened it.                *)
StopClosed(p) ==
    LET last == LatestOpen(p.stops)
    IN  IF last = 0 THEN p ELSE [p EXCEPT !.stops[last].end = p.t]

Restarted(p) == [StopClosed(p) EXCEPT !.state = "RUNNING", !.speed = p.setpoint]

-----------------------------------------------------------------------------
(* Faults and commands                                                     *)

Started(p) == IF p.state = "FAULT" THEN p ELSE Restarted(p)

Stopped(p) ==
    IF p.state # "RUNNING" THEN p
    ELSE StopOpened([p EXCEPT !.state = "STOPPED", !.speed = FALSE])

(* Clearing restarts the line, also one that was stopped before the fault. *)
Cleared(p) ==
    Restarted([p EXCEPT !.fault = None, !.until = None, !.timed = FALSE, !.comms = TRUE])

(* Every fault takes the speed command, also those that leave the line     *)
(* state alone.  One fault displaces another, and with it its end.         *)
Struck(p, f, lasts) ==
    LET q == [p EXCEPT !.fault = f,
                       !.until = IF lasts = None THEN None ELSE p.t + lasts,
                       !.timed = lasts # None,
                       !.speed = FALSE,
                       !.comms = @ /\ f # "comms_drop"]
    IN  IF f \in Silent \/ p.state = "FAULT" THEN q
        ELSE StopOpened([q EXCEPT !.state = "FAULT"])

-----------------------------------------------------------------------------
(* One step of the process                                                 *)

(* The first of the queued faults strikes when its time has come ...       *)
FirstStruck(p) ==
    IF p.schedule = <<>> \/ Head(p.schedule).at > p.t THEN p
    ELSE [Struck(p, Head(p.schedule).fault, Head(p.schedule).lasts)
             EXCEPT !.schedule = Tail(@)]

(* ... and so do, one after another, all whose time has come.              *)
Scheduled(p) ==
    LET strikes[n \in 0..Len(p.schedule)] ==
            IF n = 0 THEN p ELSE FirstStruck(strikes[n - 1])
    IN  strikes[Len(p.schedule)]

(* Mutant of Expired: only a fault that stopped the line ends by itself.   *)
ExpiredInFault(p) ==
    IF p.state = "FAULT" /\ p.until # None /\ p.t >= p.until THEN Cleared(p) ELSE p

Expired(p) == IF p.until # None /\ p.t >= p.until THEN Cleared(p) ELSE p

(* Mutant of Controlled: a line that starves opens no stop.                *)
StarvesQuietly(p) ==
    CASE p.fault \in Faults \ Silent -> [p EXCEPT !.state = "FAULT", !.speed = FALSE]
      [] p.fault \notin Faults \ Silent /\ p.state = "RUNNING" /\ p.level = "empty" ->
            [p EXCEPT !.state = "STARVED", !.speed = FALSE]
      [] p.fault \notin Faults \ Silent /\ p.state = "STARVED" /\ p.level = "good" ->
            Restarted(p)
      [] OTHER -> p

Controlled(p) ==
    CASE p.fault \in Faults \ Silent -> [p EXCEPT !.state = "FAULT", !.speed = FALSE]
      [] p.fault \notin Faults \ Silent /\ p.state = "RUNNING" /\ p.level = "empty" ->
            StopOpened([p EXCEPT !.state = "STARVED", !.speed = FALSE])
      [] p.fault \notin Faults \ Silent /\ p.state = "STARVED" /\ p.level = "good" ->
            Restarted(p)
      [] OTHER -> p

(* The conveyor follows its command with a lag: told to stop, it may go on *)
(* moving, but it does not start again.                                    *)
Moves(p) == IF p.speed THEN {TRUE} ELSE {p.moving, FALSE}

(* The tank is refilled unless that is what failed ...                     *)
LevelAfter(p) ==
    {p.level} \cup (CASE p.fault = "low_tank" \/ p.level = "good" -> {}
                      [] p.level = "low" -> {"good"}
                      [] OTHER -> {"low"})

(* ... and each bottle drains it; a bottle is good or rejected.            *)
Bottles(p) == IF p.moving /\ p.made < MaxMade THEN 0..1 ELSE {0}

Drained(level, bottles) ==
    IF bottles = 0 THEN {level} ELSE {level, IF level = "good" THEN "low" ELSE "empty"}

(* The controller counts its time as stopped by its state alone.           *)
Counted(p) == [p EXCEPT !.down = IF p.state = "RUNNING" THEN @ ELSE @ + 1,
                        !.t = @ + 1]

-----------------------------------------------------------------------------
(* What a read of the line gives: the values of its signals, or nothing    *)
(* but BAD readings while its network is down.                             *)

Values(p) == [line_state |-> p.state, fault_code |-> p.fault,
              product_count |-> p.made, reject_count |-> p.rejected]

Read(p) == IF p.comms THEN Values(p) ELSE None

-----------------------------------------------------------------------------
(* Actions                                                                 *)

Commanded(p) ==
    /\ commands < MaxCommands
    /\ commands' = commands + 1
    /\ plc' = p

CommandStart == Commanded(Started(plc))

CommandStop == Commanded(Stopped(plc))

CommandReset == Commanded(Cleared(plc))

(* A new speed setpoint is the speed command too, whatever the line state. *)
CommandSpeed ==
    \E moves \in BOOLEAN :
        Commanded([plc EXCEPT !.speed = moves, !.setpoint = moves])

InjectFault ==
    \E f \in Faults, lasts \in Durations \cup {None} :
        /\ lasts # None => plc.t + lasts < MaxTime
        /\ Commanded(Struck(plc, f, lasts))

Step ==
    /\ plc.t < MaxTime
    /\ \E p \in {Controlled(Expired(Scheduled(plc)))} :
       \E moving \in Moves(p), level \in LevelAfter(p) :
       \E made \in Bottles([p EXCEPT !.moving = moving]) :
       \E rejected \in 0..made, left \in Drained(level, made) :
           plc' = Counted([p EXCEPT !.moving = moving, !.level = left,
                                    !.made = @ + made, !.rejected = @ + rejected])
    /\ UNCHANGED commands

Command == CommandStart \/ CommandStop \/ CommandReset \/ CommandSpeed \/ InjectFault

-----------------------------------------------------------------------------
(* Properties                                                              *)

LineTypeOK ==
    /\ commands \in 0..MaxCommands
    /\ plc \in [t : 0..MaxTime, state : LineStates, fault : Faults \cup {None},
                until : Nat \cup {None}, timed : BOOLEAN,
                schedule : Seq([at : Nat, fault : Faults, lasts : Durations \cup {None}]),
                speed : BOOLEAN, setpoint : BOOLEAN, moving : BOOLEAN,
                level : Levels, comms : BOOLEAN, made : 0..MaxMade,
                rejected : 0..MaxMade, down : 0..MaxTime, stops : Seq(Stop)]

(* What a step may do to the stops on record: add to them, and end an open *)
(* one now.                                                                *)
RecordGrows ==
    \A i \in DOMAIN plc.stops :
        /\ i \in DOMAIN plc.stops'
        /\ plc.stops[i]' # plc.stops[i] =>
               IsOpen(plc.stops[i]) /\ plc.stops[i]' = [plc.stops[i] EXCEPT !.end = plc.t]

StandsInRecord(p) == p.stops # <<>> /\ IsOpen(Last(p.stops)) /\ Last(p.stops).start < p.t

(* Each second the controller counts as stopped (_update_counters) begins  *)
(* with the latest stop of the record open, and each it counts as running  *)
(* without; and no stop is ended before a second it held, nor changed once *)
(* it has ended.  So no standstill is without a stop of its own, although  *)
(* an older stop may be left open for good and cover it too: a fault on a  *)
(* stopped line opens a second one, and the restart ends only that.        *)
StandstillsAreRecorded ==
    /\ plc.t' # plc.t => (StandsInRecord(plc') <=> plc.down' = plc.down + 1)
    /\ RecordGrows
=============================================================================
