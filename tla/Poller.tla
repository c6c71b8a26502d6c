------------------------------- MODULE Poller -------------------------------
(***************************************************************************)
(* The scan loop of poller.py: poll groups on their time grids, the loop   *)
(* that scans the groups that are due, and for each device its driver's    *)
(* connection, the health record kept of it and the reconnect backoff.     *)
(*                                                                         *)
(* Time passes between any two steps: while a driver call is under way,    *)
(* while the loop sleeps, and between two readings of the clock.           *)
(***************************************************************************)
EXTENDS Integers, FiniteSets

CONSTANTS
    Groups,         \* poll groups with tags, numbered in the order of their names
    Devices,        \* devices, numbered in the order of their names
    DevicesOf,      \* the devices each group has tags of
    Period,         \* the period of each group
    Stagger,        \* whether groups of one period are spread over it
    Drivers,        \* the devices a driver is configured for
    BaseBackoff, MaxBackoff,
    Durations,      \* the durations run() is called with
    MaxTime,        \* bound: the clock stops here
    MaxChanges,     \* bound: changes of the links
    None

ASSUME PollerAssumption ==
    /\ Groups \subseteq Nat /\ Devices \subseteq Nat
    /\ IsFiniteSet(Groups) /\ IsFiniteSet(Devices)
    /\ DevicesOf \in [Groups -> SUBSET Devices]
    /\ Period \in [Groups -> Nat \ {0}]
    /\ Stagger \in BOOLEAN
    /\ Drivers \subseteq Devices
    /\ BaseBackoff \in Nat \ {0} /\ MaxBackoff \in Nat \ {0}
    /\ Durations \subseteq Nat
    /\ MaxTime \in Nat /\ MaxChanges \in Nat
    /\ None \notin Groups

VARIABLES
    now,
    link,           \* what is at the other end of each device's wire
    changes,        \* how often the links have changed
    conn,           \* driver.is_connected
    health,         \* ConnectionHealth of each device
    nextDue,        \* next_due of each group
    lastStart,      \* last_start of each group
    values,         \* the latest reading of each group's tags on each device
    pc,             \* where run() is
    deadline,       \* when run() has to return
    todo,           \* what is left of the list of due groups
    scan,           \* the scan poll_group() is in the middle of, or NoScan
    since,          \* history variable: when each link last changed
    turns,          \* history variable: scans of others begun while a group is due
    losses          \* history variable: failures in a row, and when the last was

loop == <<pc, deadline, todo>>
line == <<link, changes, conn, health, since, losses>>
table == <<nextDue, lastStart, values, turns>>
vars == <<now, line, table, loop, scan>>

(* A link answers; or takes connections but answers no request; or answers *)
(* on a new connection only; or is dead.                                   *)
Links == {"up", "deaf", "restarted", "down"}

Health == [connected : BOOLEAN, failures : Nat, retryAt : Int]

Reading == [good : BOOLEAN, at : Nat]

Loss == [count : Nat, at : Nat]

NoScan == [group |-> None, started |-> 0, left |-> {}, readings |-> <<>>]

Scanning == scan.group # None

(* apply_stagger, for periods the bucket's size divides.                   *)
Bucket(g) == {h \in Groups : Period[h] = Period[g]}

Phase(g) ==
    IF Stagger
    THEN (Period[g] * Cardinality({h \in Bucket(g) : h < g})) \div Cardinality(Bucket(g))
    ELSE 0

(* The poller may be given drivers that are connected already.  A tag that *)
(* has not been read shows no value; it counts as BAD.                     *)
Init ==
    /\ now = 0
    /\ link = [d \in Devices |-> "up"]
    /\ changes = 0
    /\ conn \in {c \in [Devices -> BOOLEAN] : \A d \in Devices \ Drivers : ~c[d]}
    /\ health = [d \in Devices |-> [connected |-> FALSE, failures |-> 0, retryAt |-> 0]]
    /\ nextDue = [g \in Groups |-> Phase(g)]
    /\ lastStart = [g \in Groups |-> 0]
    /\ values = [g \in Groups |-> [d \in DevicesOf[g] |-> [good |-> FALSE, at |-> 0]]]
    /\ pc = "idle" /\ deadline = 0 /\ todo = {}
    /\ scan = NoScan
    /\ since = [d \in Devices |-> 0]
    /\ turns = [g \in Groups |-> [h \in Groups |-> 0]]
    /\ losses = [d \in Devices |-> [count |-> 0, at |-> 0]]

-----------------------------------------------------------------------------
(* ConnectionHealth                                                        *)

Backoff(failures) ==
    IF failures = 0 THEN 0
    ELSE IF BaseBackoff * 2 ^ (failures - 1) < MaxBackoff
         THEN BaseBackoff * 2 ^ (failures - 1)
         ELSE MaxBackoff

(* record_success                                                          *)
Success(t) == [connected |-> TRUE, failures |-> 0, retryAt |-> t]

(* Mutants of Failure: the delay is that of the failure before; the record *)
(* still says connected.                                                   *)
FailureTooSoon(h, t) ==
    [connected |-> FALSE, failures |-> h.failures + 1, retryAt |-> t + Backoff(h.failures)]

FailureConnected(h, t) ==
    [h EXCEPT !.failures = @ + 1, !.retryAt = t + Backoff(h.failures + 1)]

(* record_failure                                                          *)
Failure(h, t) ==
    [connected |-> FALSE, failures |-> h.failures + 1, retryAt |-> t + Backoff(h.failures + 1)]

(* Mutant of MayRetry: the device is given up after two failures.          *)
MayRetryTwice(d) == health[d].failures < 2 /\ scan.started >= health[d].retryAt

MayRetry(d) == scan.started >= health[d].retryAt

-----------------------------------------------------------------------------
(* poll_group: one step per device, in the order of the read blocks        *)

OnTurn(d) == Scanning /\ d \in scan.left /\ \A e \in scan.left : d <= e

(* Mutants of Noted: a failed read leaves the old readings in place, or    *)
(* leaves them out.                                                        *)
NotedKept(d, good) ==
    scan' = [scan EXCEPT !.left = @ \ {d},
                         !.readings[d] = IF good THEN [good |-> TRUE, at |-> now] ELSE @]

NotedOmitted(d, good) ==
    scan' = [scan EXCEPT !.left = @ \ {d},
                         !.readings = [e \in DOMAIN @ \ {f \in {d} : ~good} |->
                                         IF e = d THEN [good |-> TRUE, at |-> now] ELSE @[e]]]

(* Readings are stamped when read; the poller's own BAD ones are stamped   *)
(* with the start of the scan.                                             *)
Noted(d, good) ==
    scan' = [scan EXCEPT !.left = @ \ {d},
                         !.readings[d] = [good |-> good,
                                          at |-> IF good THEN now ELSE scan.started]]

Failed(d, n, t) == losses' = [losses EXCEPT ![d] = [count |-> n, at |-> t]]

(* No driver is configured for the device.                                 *)
NoDriver(d) ==
    /\ OnTurn(d)
    /\ d \notin Drivers
    /\ health' = [health EXCEPT ![d] = Failure(@, scan.started)]
    /\ Noted(d, FALSE)
    /\ UNCHANGED <<now, link, changes, conn, since, losses, table, loop>>

(* _ensure_connected: the backoff has not elapsed.                         *)
LeaveAlone(d) ==
    /\ OnTurn(d) /\ d \in Drivers
    /\ ~conn[d] /\ ~MayRetry(d)
    /\ Noted(d, FALSE)
    /\ UNCHANGED <<now, line, table, loop>>

(* _ensure_connected: connect() raises.                                    *)
ConnectFails(d) ==
    /\ OnTurn(d) /\ d \in Drivers
    /\ ~conn[d] /\ MayRetry(d)
    /\ link[d] = "down"
    /\ health' = [health EXCEPT ![d] = Failure(@, scan.started)]
    /\ Failed(d, losses[d].count + 1, scan.started)
    /\ Noted(d, FALSE)
    /\ UNCHANGED <<now, link, changes, conn, since, table, loop>>

(* There is a connection to read on, or connect() makes one.               *)
Connected(d) ==
    /\ OnTurn(d) /\ d \in Drivers
    /\ conn[d] \/ (MayRetry(d) /\ link[d] # "down")

(* Requests are answered: on a new connection after a restart.             *)
Answers(d) == link[d] = "up" \/ (link[d] = "restarted" /\ ~conn[d])

ReadGood(d) ==
    /\ Connected(d) /\ Answers(d)
    /\ conn' = [conn EXCEPT ![d] = TRUE]
    /\ link' = [link EXCEPT ![d] = "up"]
    /\ since' = IF link[d] = "up" THEN since ELSE [since EXCEPT ![d] = now]
    /\ health' = [health EXCEPT ![d] = Success(now)]
    /\ Failed(d, 0, 0)
    /\ Noted(d, TRUE)
    /\ UNCHANGED <<now, changes, table, loop>>

(* read() returns BAD readings, as every driver of the repository does     *)
(* while it is connected.  The health record counts it a success.          *)
ReadBad(d) ==
    /\ Connected(d) /\ ~Answers(d)
    /\ conn' = [conn EXCEPT ![d] = TRUE]
    /\ health' = [health EXCEPT ![d] = Success(now)]
    /\ Failed(d, 0, 0)
    /\ Noted(d, FALSE)
    /\ UNCHANGED <<now, link, changes, since, table, loop>>

(* read() raises a DriverError, as the Driver interface allows, and the    *)
(* driver is disconnected.  If the connection is new, connecting has just  *)
(* cleared the failures.                                                   *)
ReadFails(d) ==
    /\ Connected(d) /\ ~Answers(d)
    /\ conn' = [conn EXCEPT ![d] = FALSE]
    /\ health' = [health EXCEPT ![d] = Failure(IF conn[d] THEN @ ELSE Success(scan.started), now)]
    /\ Failed(d, 1, now)
    /\ Noted(d, FALSE)
    /\ UNCHANGED <<now, link, changes, since, table, loop>>

PollDevice(d) ==
    \/ NoDriver(d)
    \/ LeaveAlone(d)
    \/ ConnectFails(d)
    \/ ReadGood(d)
    \/ ReadBad(d)
    \/ ReadFails(d)

-----------------------------------------------------------------------------
(* The grid, and the loop                                                  *)

Due(g) == now >= nextDue[g]

(* The due list is sorted by due time, then name.                          *)
Before(g, h) == nextDue[g] < nextDue[h] \/ (nextDue[g] = nextDue[h] /\ g <= h)

CeilDiv(a, b) == (a + b - 1) \div b

(* Mutants of Slot: the next scan is one period from the end of this one;  *)
(* missed slots are made up for.                                           *)
SlotDrifting(due, period, finished) == finished + period

SlotCatchingUp(due, period, finished) == due + period

(* The next due time: on the grid, skipping the slots that are past.       *)
Slot(due, period, finished) ==
    IF due + period <= finished
    THEN due + period + CeilDiv(finished - (due + period), period) * period
    ELSE due + period

(* poll_group begins.  Every other group that is due goes on waiting.      *)
StartScan(g) ==
    /\ pc = "polling" /\ ~Scanning
    /\ g \in todo /\ \A h \in todo : Before(g, h)
    /\ todo' = todo \ {g}
    /\ scan' = [group |-> g, started |-> now, left |-> DevicesOf[g],
                readings |-> values[g]]
    /\ lastStart' = [lastStart EXCEPT ![g] = now]
    /\ turns' = [h \in Groups |->
                   IF h = g THEN [k \in Groups |-> 0]
                   ELSE IF Due(h) THEN [turns[h] EXCEPT ![g] = @ + 1]
                   ELSE turns[h]]
    /\ UNCHANGED <<now, line, nextDue, values, pc, deadline>>

(* poll_group ends: the group is rescheduled and its readings published.   *)
FinishScan ==
    /\ Scanning /\ scan.left = {}
    /\ LET g == scan.group IN
       /\ nextDue' = [nextDue EXCEPT ![g] = Slot(@, Period[g], now)]
       /\ values' = [values EXCEPT ![g] = scan.readings]
    /\ scan' = NoScan
    /\ UNCHANGED <<now, line, lastStart, turns, loop>>

(* The list of due groups, taken once for all of them.                     *)
DueGroups == {g \in Groups : Due(g)}

(* Mutant of Taken: only the first of them by name is taken.               *)
TakenFirst == {g \in DueGroups : \A h \in DueGroups : g <= h}

Taken == DueGroups

(* run(duration)                                                           *)
Run(duration) ==
    /\ pc = "idle"
    /\ now + duration <= MaxTime
    /\ deadline' = now + duration
    /\ pc' = "loop"
    /\ UNCHANGED <<now, line, table, todo, scan>>

(* poll_once() scans what is due and returns: its deadline is past.        *)
PollOnce ==
    /\ pc = "idle"
    /\ deadline' = now
    /\ todo' = Taken
    /\ pc' = "polling"
    /\ UNCHANGED <<now, line, table, scan>>

TakeDue ==
    /\ pc = "loop" /\ now < deadline
    /\ DueGroups # {}
    /\ todo' = Taken
    /\ pc' = "polling"
    /\ UNCHANGED <<now, line, table, deadline, scan>>

NothingDue ==
    /\ pc = "loop" /\ now < deadline
    /\ DueGroups = {}
    /\ pc' = "waiting"
    /\ UNCHANGED <<now, line, table, deadline, todo, scan>>

AllPolled ==
    /\ pc = "polling" /\ ~Scanning /\ todo = {}
    /\ pc' = "loop"
    /\ UNCHANGED <<now, line, table, deadline, todo, scan>>

(* Mutant of TimeIsUp: the loop sleeps until its deadline.                 *)
TimeIsUpAtDeadline == now >= deadline

(* min(next_due_time(), deadline) has come.                                *)
TimeIsUp == now >= deadline \/ DueGroups # {}

(* The wait is computed from a later reading of the clock than the due     *)
(* list was; when it comes out negative or zero, run() returns.            *)
GiveUp ==
    /\ pc = "waiting" /\ TimeIsUp
    /\ pc' = "idle"
    /\ UNCHANGED <<now, line, table, deadline, todo, scan>>

Sleep ==
    /\ pc = "waiting" /\ ~TimeIsUp
    /\ pc' = "asleep"
    /\ UNCHANGED <<now, line, table, deadline, todo, scan>>

Wake ==
    /\ pc = "asleep" /\ TimeIsUp
    /\ pc' = "loop"
    /\ UNCHANGED <<now, line, table, deadline, todo, scan>>

Return ==
    /\ pc = "loop" /\ now >= deadline
    /\ pc' = "idle"
    /\ UNCHANGED <<now, line, table, deadline, todo, scan>>

-----------------------------------------------------------------------------
(* The environment                                                         *)

(* A dead device comes back restarted or not; a live one may restart, stop *)
(* answering or go away.                                                   *)
LinkChanges(d, l) ==
    /\ l # link[d]
    /\ changes < MaxChanges
    /\ changes' = changes + 1
    /\ link' = [link EXCEPT ![d] = l]
    /\ since' = [since EXCEPT ![d] = now]
    /\ UNCHANGED <<now, conn, health, losses, table, loop, scan>>

Tick ==
    /\ now < MaxTime
    /\ now' = now + 1
    /\ UNCHANGED <<line, table, loop, scan>>

Loop ==
    \/ \E d \in Devices : PollDevice(d)
    \/ \E g \in Groups : StartScan(g)
    \/ FinishScan
    \/ TakeDue
    \/ NothingDue
    \/ AllPolled
    \/ GiveUp
    \/ Sleep
    \/ Wake
    \/ Return

Next ==
    \/ Loop
    \/ \E t \in Durations : Run(t)
    \/ PollOnce
    \/ \E d \in Drivers, l \in Links : LinkChanges(d, l)
    \/ Tick

Spec == Init /\ [][Next]_vars

(* The thread that runs the loop keeps running, and driver calls return,   *)
(* as their timeouts make them.                                            *)
FairSpec == Spec /\ WF_vars(Loop)

-----------------------------------------------------------------------------
(* Properties                                                              *)

ScanOf(g) ==
    [group : {g}, started : Nat, left : SUBSET DevicesOf[g],
     readings : [DevicesOf[g] -> Reading]]

TypeOK ==
    /\ now \in Nat
    /\ link \in [Devices -> Links] /\ changes \in Nat
    /\ conn \in [Devices -> BOOLEAN]
    /\ health \in [Devices -> Health]
    /\ nextDue \in [Groups -> Nat]
    /\ lastStart \in [Groups -> Nat]
    /\ DOMAIN values = Groups
    /\ \A g \in Groups : values[g] \in [DevicesOf[g] -> Reading]
    /\ pc \in {"idle", "loop", "polling", "waiting", "asleep"}
    /\ deadline \in Nat
    /\ todo \in SUBSET Groups
    /\ scan = NoScan \/ \E g \in Groups : scan \in ScanOf(g)
    /\ since \in [Devices -> Nat]
    /\ turns \in [Groups -> [Groups -> Nat]]
    /\ losses \in [Devices -> Loss]

InScan(g) == scan.group = g

(* "Schedule the next scan on the original grid so a slow scan does not    *)
(* drift the whole schedule": every due time is a slot of the group's own  *)
(* grid, however late the group was scanned and however long the scan took *)
(* (poll_group).                                                           *)
OnTheGrid ==
    \A g \in Groups : \E k \in 0 .. nextDue[g] : nextDue[g] = Phase(g) + k * Period[g]

(* "Skip forward whole periods rather than trying to catch up": when a     *)
(* scan ends, the next is due at the first slot after its own that is not  *)
(* past, so no backlog builds up and no slot is skipped for nothing        *)
(* (poll_group).                                                           *)
SkipsPastSlots ==
    [][\A g \in Groups : InScan(g) /\ ~InScan(g)' =>
          /\ nextDue'[g] > nextDue[g] /\ nextDue'[g] >= now
          /\ nextDue'[g] - Period[g] = nextDue[g] \/ nextDue'[g] - Period[g] < now]_vars

(* A slow group does not keep another from its turn: while a group is due, *)
(* no other is scanned more than twice before it, once from a list taken   *)
(* earlier and once from the list that has both (due_groups, run).         *)
TakesTurns == \A g, h \in Groups : turns[g][h] <= 2

(* No reading is stale: those of a group that has been scanned date from   *)
(* its latest scan, so a GOOD one was read then, and a device that could   *)
(* not be read shows BAD (poll_group, values.update).                      *)
NothingStale ==
    \A g \in Groups : ~InScan(g) =>
        \A d \in DevicesOf[g] : values[g][d].at >= lastStart[g]

(* A device is not given up: a scan that begins once its link has been     *)
(* good for the longest backoff reads it (may_retry, backoff).             *)
Recovers ==
    \A g \in Groups : ~InScan(g) =>
        \A d \in DevicesOf[g] \cap Drivers :
            link[d] = "up" /\ lastStart[g] >= since[d] + MaxBackoff
                => values[g][d].good

(* The health record never claims a connection the driver does not have,   *)
(* nor counts failures against one it has (_ensure_connected, poll_group). *)
HealthTellsConnection ==
    \A d \in Devices :
        /\ health[d].connected => conn[d]
        /\ health[d].failures > 0 => ~conn[d]

(* "A dead device is retried on an exponential schedule": after n failures *)
(* in a row, to connect or to read, the device is not tried again before   *)
(* Backoff(n) has passed since the last (record_failure, may_retry).       *)
RetriesBackOff ==
    [][\A d \in Drivers : losses'[d] # losses[d] /\ losses[d].count > 0 =>
          scan.started >= losses[d].at + Backoff(losses[d].count)]_vars

(* Inside a run, a group that is due is scanned, unless the run ends.      *)
DueIsServed ==
    \A g \in Groups : pc # "idle" /\ Due(g) ~> pc = "idle" \/ ~Due(g)

(* "Run the scan loop for duration seconds of clock time."  A due time     *)
(* that passes between two readings of the clock ends it early.            *)
RunLastsItsDuration == [][pc # "idle" /\ pc' = "idle" => now >= deadline]_vars

(* "Mark a successful read": a device whose latest scan brought BAD        *)
(* readings is not connected in the health record, so that it is retried   *)
(* with backoff.  A driver that returns BAD readings without raising       *)
(* passes for healthy, so this fails.                                      *)
SilenceIsNoted ==
    ~Scanning =>
        \A g \in Groups : \A d \in DevicesOf[g] \cap Drivers :
            /\ \A h \in Groups \ {g} : d \in DevicesOf[h] => lastStart[h] < lastStart[g]
            /\ health[d].connected
            => values[g][d].good
=============================================================================
