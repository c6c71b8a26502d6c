# factorylink in TLA+

`factorylink` (`src/src/factorylink`) is the acquisition and supervision stack
of a production line: it polls PLCs over Modbus or OPC UA on time grids,
archives what it reads into a compressed SQLite history, evaluates ISA-18.2
alarms on it, counts OEE and downtime, and lets an operator write a few tags
back through a policy. This directory holds TLA+ modules that model its parts,
TLC configurations that check them on small instances, and theorems about them
that TLAPS checks for every value of their constants.

Every definition was translated from the source named in `PROJECT.json`
("map": module, definition, file and lines). Wherever a doc and the code differ
the code was modelled; "Findings" below lists the differences.

## 1. The system

One thread scans: `Runtime.run` asks the poller which groups are due, polls
them one after another, and folds each batch of results through the historian,
the alarm engine and the OEE calculator, in that order (`runtime.py:146-168`).
Under `cli.py serve` that thread is a pump beside the dashboard's HTTP server,
whose worker threads, one per connection, read all of it and acknowledge
alarms. Writes come from the command line through the write guard. Without a
plant, a simulated line answers in place of the devices; it is stepped by the
driver that reads it.

    devices -- drivers -- Poller.poll_group --> Runtime.process
                                                 |-> Historian.record   (samples, GOOD only)
                                                 |-> AlarmEngine.update (GOOD values of this batch)
                                                 |-> Historian.record_event (one row per alarm event)
                                                 '-> OEECalculator      (counters, run/stop transitions)
    operator -- WriteGuard.apply -- driver.write --> devices
    browser -- dashboard worker threads -- AlarmEngine.acknowledge, Historian queries

### Inventory

| Component | State it keeps | Operations | What makes it correct | Model |
|---|---|---|---|---|
| Alarm engine, `alarms.py` | per alarm: state, condition, two timers, shelf end, raise and ack times; samples of rate tags; raise times; flood flag; event deque | `update` (one scan), `acknowledge`, `shelve`, `unshelve` | delays really waited for, no missed or inherited activation, shelves that end, a complete trail | `Alarms`, `AlarmLifecycle` |
| Write guard, `safety.py` | policy, live tokens, write times per tag, audit deque | `issue_token`, `check`, `apply` | rate limit, single-use confirmation, range, complete audit | `WriteGuard` |
| Poller, `poller.py` | due time and start per group, health per device, latest readings | `due_groups`, `poll_group`, `run`, `_ensure_connected`, `coalesce_blocks` | grid without drift, turns, freshness, backoff and recovery; few and legal requests | `Poller`; `TagMap` for the blocks |
| Historian, `historian.py` | one door, last stored point and settings per tag; the samples and events tables; an open transaction | `record`, `flush`, `configure_tag`, `apply_retention`, `vacuum`, `close`, queries | reconstruction error, heartbeat, durability after a flush, order of points | `Historian` |
| Runtime, `runtime.py` | counters, last run/stop state | `process`, `poll_once`, `run`, `close` | the order archive, alarms, OEE; one value for all three; a stop for each standstill seen | `Runtime` and `Uptime`, the OEE part of a scan |
| OEE, `oee.py` | downtime events, shift start, counters | `record_state`, `update_counts`, `result`, `load_events` | at most one open stop, downtime within the shift, factors that are fractions | `Oee`, `Stops` |
| Tag database, `tags.py` | definitions by name | load, `validate`, `to_raw`, `clamp`, `in_range` | no silently overlapping registers | `TagMap` for validation; range and clamp in `WriteGuard` |
| Modbus codec, `protocols/modbus_codec.py`, `datatypes.py` | none | encode, decode, clamp, bit packing | round trips, saturation instead of wrapping | `Codec` |
| Modbus TCP and RTU, OPC UA, `protocols/*.py` | connection, statistics | `connect`, `read`, `write` | errors become BAD readings or `DriverError`; a bit write keeps the other bits | `Modbus`; what OPC UA answers is in `Poller`'s links |
| Sparkplug publisher, `protocols/mqtt_sparkplug.py` | seq, bdSeq, aliases, last published values | `connect`, `publish_birth`, `publish_data`, `disconnect` | consecutive seq, a birth before data, no change lost | none: nothing in the package uses it |
| Simulated line, `protocols/simulator.py` | line state, faults, stop events, registers | `step`, commands, `inject_fault`, `clear_fault` | stop events match states, faults that end | `SimulatedLine`; its registers in `Modbus` |
| Dashboard, `dashboard.py` | a lock for snapshots | pages, the event stream, `acknowledge` on worker threads | no alarm lost to a race, a lock that comes free | `Serve` |
| Command line, `cli.py` | the pump thread | `serve`, `demo`, `write`, ... | a scan that goes on beside the server | `Serve`; the report of `oee` in `Runtime` |
| Clock, `clock.py` | time | `now`, `sleep` | | `Tick`; in `Runtime` the line's own time |

What is hard here is listed with its line in `PROJECT.json` ("hazards"). In
short: timers that run across scans in which a tag was not read; operator calls
between scans; windows trimmed with one comparison and counted with another;
tokens spent before later gates refuse; a device that connects but does not
answer; due times that pass between two readings of the clock; a door whose
state outlives the rows it was computed from; a crash between two commits;
threads that test an alarm's state and write it later; a bit that is read,
changed and written back while the device works; blocks of one read answered at
different moments; timed faults that displace one another.

## 2. Modules

| Module | What it is |
|---|---|
| `AlarmLifecycle` | abstract specification: what the alarm list promises its operator |
| `Alarms` | the alarm engine; `MCAlarms` instantiates it; `AlarmsProofs` holds its theorems |
| `Deques` | `collections.deque(maxlen=...)` and trimming from the left, used by `Alarms` and `WriteGuard`; `DataLemmas` proves what these operators return, and induction over the natural numbers for the proofs about recursive functions |
| `WriteGuard` | the write path; `MCWriteGuard`, `WriteGuardProofs` |
| `Poller` | the scan loop; `MCPoller`, `PollerProofs` |
| `Historian` | compression and storage; `MCHistorian`, `HistorianProofs` |
| `Uptime` | abstract specification: what the downtime account of a shift promises |
| `Runtime` | the scan cycle over the simulated line, as far as OEE goes; `MCRuntime`, `RuntimeProofs`. It extends `SimulatedLine`, the line, and `Oee`, the downtime tracker and the figures; both extend `Stops` |
| `Modbus` | driver and device; `MCModbus`, `ModbusProofs`. It extends `TagMap`, validation and coalescing, which extends `Codec`, values and registers |
| `Serve` | the threads of the `serve` command; `MCServe`, `ServeProofs` |

Each module has the same layout: constants and their named assumptions,
variables, `Init`, the helpers in the order of the code, one action per
operation, `Next`, `Spec`, and the properties at the end. An operator whose
comment begins "Mutant of" is never used by the specification: it is the
definition next to it with a plausible bug, and `PROJECT.json` ("mutants") says
which property has to fail when it takes that definition's place.

**Common abstractions.** Time is a natural number and advances by `Tick`
between any two steps, so that any number of calls may share a timestamp, as
they do under `ManualClock` and, for the resolution of a float, under
`SystemClock`. Floating-point values are integers; every comparison of the code
keeps its strictness. `None` is a model value. Every constant named in a
comment as "bound" only keeps TLC's instance finite: the theorems hold for
every value of it. History variables, so marked in the declarations, record the
past for a property and are read by no guard.

### Alarms

`Scan` is one call of `AlarmEngine.update` with any set of readings; a tag that
was missing or BAD has the value `None`. `UpdateOne` is `_update_one`: a shelf
that expired, the early returns for a disabled alarm and a missing sample,
`Evaluate` (`_evaluate` with its deadbands), then `Trip` and `Recover`, the
on- and off-delay halves. `Acknowledge`, `Shelve` and `Unshelve` are the
operator's calls. The flood window and the rate-of-change samples are deques
trimmed as in the code. The event deque is reduced to the latest event about
each alarm and about the flood; severities, messages, `activations`,
`cleared_at` and `acked_by`, which the engine never reads, are left out.
`hi_hi` and `lo_lo` evaluate as `hi` and `lo` and are the same kind here.

`AlarmLifecycle` has three actions for three actors: `Scan` (the process),
`Acknowledge` and `Shelve` (an operator). A move is told with the kind of event
that belongs to it, so a clear cannot pass for the end of a shelf. `Alarms`
implements it under the mapping of an alarm's state to `annunciation`, of the
kind of its latest event to `told`, and of the latching configurations to
`latched` (`KeepsLifecycle`).

### WriteGuard

`check` tries its gates in order and refuses at the first that is shut. Each
refusal is an action guarded by the gates before it: `RefuseUnlisted`,
`FailUnknown`, `RefuseReadOnlyTag`, `RefuseUnconfirmed`, `RefuseByRate`,
`RefuseByRange`; `Accept` is what passes them all. A token is the index of its
record in `issued`; its digest is not modelled, because it only makes a token
hard to guess. A request is a number with its
Python type, since `True` and `1.0` take different paths. `apply` adds the
driver's write, which may raise after the audit and the rate have been updated.

### Poller

The loop is a program counter: `Run`, `TakeDue`, `NothingDue`, `Sleep`, `Wake`,
`GiveUp`, `Return`; a scan is `StartScan`, one `PollDevice` for each device of
the group, `FinishScan`. Two readings of the clock in the code are two states
here, with time passing in between. A link is `"up"`, `"deaf"` (connects,
answers nothing), `"restarted"` (answers on a new connection only) or `"down"`;
what a driver returns or raises follows from it. `conn` is the driver's own
flag and `health` the poller's record of it, which the properties compare.

### Historian

`Record` has an action for each way a sample can take: dropped by the deadband,
inserted directly, or through the door. A slope is kept as rise over run, so
that its comparison is exact; infinity is a run of zero. `Swing` is
`SwingingDoor.update`, with `_archive_current` and the re-run of the sample in
`Rerun`. `rows` is what the connection sees, `disk` what has been committed:
`flush`, retention and `vacuum` commit, a crash falls back to `disk`. `close`
is a `Flush` followed by a crash that finds nothing to lose.

### SimulatedLine, Oee and Runtime

`plc` is `SimulatedPLC`: state, fault and its end, the queue of scheduled
faults, the speed command, tank level, counters and stop events. `Step` is one
`step()` of a second: `Scheduled` and `Expired` faults, then `Controlled`, the
state machine, then the process. The process is data: the conveyor may lag
behind its command, the tank may fill or drain by a level and a bottle may be
made, under the conditions of the code but at any rate. "jam" stands for the
four faults that stop the line and touch nothing else kept here.
The commands are those of `_apply_command`; `InjectFault` is `inject_fault`.
`timed` is a history variable: the fault in force was given an end.

`DowntimeIsRecorded` compares the line's two records of a standstill, its
counter of stopped seconds and its stop events. Their totals do not agree in
the code: a stop left open (see the observations) goes on for ever. What holds,
and is stated, is second by second: one is counted as stopped just when it
begins with the latest stop open, and no stop is ended but an open one, now. So
no standstill does without a stop of its own, whatever else is open.

`Runtime` adds a poll of the group that holds the line state. `PollFails`,
`PollSame` and `PollTransition` are the paths through `process` and
`_update_oee`: nothing readable, no change, a change of run or stop. `events`
is the downtime tracker; `Oee` has its operations and `compute_oee` as
operators on `events`, with factors as fractions that are never divided.
`EndOfShift` is the report of `cmd_oee`, which closes what is open.

`Uptime` knows a line that runs, stands for a cause, or cannot be seen, and an
account of the time lost to each cause. `Runtime` implements it
(`CountsWhatWasSeen`): the open event maps to the stop under way and the rows
of the Pareto to the account, so that missed polls, the transitions,
`start_stop`, `end_stop` and `close_all` are all held to one sentence: each
second of a stop that was seen is charged once, to what the line showed then.

### Codec, TagMap and Modbus

`Codec` has the conversions of `modbus_codec.py` by what they do: word and byte
order, two's complement, rounding to even, clamping, one bit of a word, scale
and offset. A byte has `ByteBits` bits. Scales are integers; floating-point
types go through the same reordering and are left out. `TagMap` has the checks
of `TagDatabase.validate` that concern addresses, and `coalesce_blocks`, which
takes the tags of an area one at a time in the order of their addresses. It
models one device; of the four areas two behave alike and one of them is left
out. Whatever recurs here is a recursive function on numbers, so that it can be
reasoned about.

`Modbus` chooses a valid map. A read is `StartRead` and then one
`BlockAnswered`, perhaps short, or `BlockFails` per block; a write is
`WriteCoil`, `WriteRegisters`, or for a bit `ReadWord` and `WriteWord`, which
may fail in between. `SyncImage` is the device: the simulated controller
renders new signals into its registers at any time, also between two blocks of
a read and between the two requests of a bit write. It puts the bits of a word
into it from the lowest up, the code in the order of the tag database; this
makes a difference only in a word with a bit of byte order `"little"`, and
those are left out of every property (see the observations). A coil takes
`Truth` of a value, `bool(value)`, since a coil's tag may be given the type of
a number. Every register a tag names exists on the device; a device without it
refuses the request, which is `BlockFails`.

### Serve

The pump's place in `AlarmEngine.update` is in `scan`, each worker's place in
`acknowledge`, `acknowledge_all` or `snapshot` in `worker`. Steps are cut
wherever a thread tests an alarm's state or writes it, since Python may switch
threads there; `_lock` guards snapshots against each other and nothing else.
Delays are zero and nothing is shelved: no thread of the command shelves, and
timers are the matter of `Alarms`. Of a snapshot there is what can go wrong in
it: the deque of raise times that a scan appends to while it is iterated, and
the worst alarm that is looked up twice. Either exception ends the connection
and releases the lock. `owed` is a history variable: the latched alarms that
came up while nobody was acknowledging them and that nobody has begun to
acknowledge since.

## 3. Runs

| Run | Module, configuration | Properties | Distinct states |
|---|---|---|---|
| `alarms` | `MCAlarms` | `TypeOK AckIsForThisActivation TrailTellsState TimersAreSound EveryShelfEnds OnDelayHeld OffDelayHeld NoAlarmMissed KeepsLifecycle` | 498,631 |
| `write_guard` | `MCWriteGuard` | `TypeOK RateHeld RefusedOnlyWhenFull ConfirmedOnce NumbersAreClamped AuditTellsAttempt` | 175,650 |
| `poller` | `MCPoller` | `TypeOK OnTheGrid TakesTurns NothingStale Recovers HealthTellsConnection SkipsPastSlots RetriesBackOff DueIsServed` | 246,986 |
| `historian` | `MCHistorian` | `TypeOK ErrorIsBounded HeartbeatKept FlushedIsSaved TrendRunsForward` | 525,867 |
| `runtime` | `MCRuntime` | `TypeOK DowntimeIsRecorded ReportAddsUp CountsWhatWasSeen TimedFaultEnds` | 404,728 |
| `modbus` | `MCModbus` | `TypeOK FewestRequests ReadsWhatIsThere WritesLand` | 159,195 |
| `serve` | `MCServe` | `OwedIsShown HealsItself` | 205,874 |
| `alarms_limit` | `AlarmsLimit.cfg` | `RaisedBeyondTheLimit`, violated | |
| `write_guard_audit` | `WriteGuardAudit.cfg` | `EveryAttemptAudited`, violated | |
| `poller_returns` | `PollerReturns.cfg` | `RunLastsItsDuration`, violated | |
| `poller_silence` | `PollerSilence.cfg` | `SilenceIsNoted`, violated | |
| `historian_rebuilt` | `HistorianRebuilt.cfg` | `DroppedIsRebuilt`, violated | |

Every property is stated in words above its definition.

**Bounds, and why they are enough.**

- *alarms*: one alarm, whose configuration is chosen among seven that cover
  every kind of evaluation, both latching and not, delays of 0, 1 and 2, and a
  disabled one. Alarms meet only in the flood count, which one alarm without
  delays reaches with a `FloodCount` of 1. Time up to 3 fits an on-delay, a
  relapse inside the off-delay and a second activation; shelves last 1. The
  deques are 2 and 3 long, so that they overflow.
- *write_guard*: two writable tags, one a bit, one read-only tag and a name the
  database lacks; 2 writes per window of 1 in two ticks, so a window fills,
  refuses and reopens; one token and both requests, so that a token is
  presented for the wrong tag, the wrong value, too late and twice. The allow
  list set later also allows unconfirmed writes, which fill the window.
- *poller*: a group of period 1 and one of period 2 that share a device, the
  second also having a device no driver is configured for; the shared link
  changes twice in three ticks, which is a loss and a return, or a restart and
  a death. Backoff grows once, from 1 to its maximum 2.
- *historian*: one tag, as tags share nothing but the commit; a door with a
  heartbeat, a deadband alone, and both; values 0, 1 and 4 with tolerance 1
  make doors narrow, close and stay open; any number of samples per tick; one
  crash, retention or reconfiguration at any point. `historian_rebuilt` has one
  more tick, for a rest and a move.
- *runtime*: five seconds, two commands or faults, two bottles. The queue has
  two faults at one time, the second displacing the first and lasting until it
  is cleared, and later a short loss of the network; a command can come before,
  between and after them, and an injected fault lasts one second or until
  cleared. That is room for two stops with a run in between, for a starvation
  (two bottles empty the tank), and for a stop that no poll sees begin.
- *modbus*: bytes of one bit, so that a register counts to 3 and both its bytes
  and its bits can be swapped; six values on both sides of each range, halfway
  values among them; scales that are 1, even, odd and negative. The maps are
  all pairs of a pool of ten tags, all triples of its holding registers, a map
  with a tag at nearly every address, and one whose word has bits of different
  byte orders beside a coil typed as a number. Requests hold 4 registers or 2 coils
  and read through a gap of 1, so that blocks end by the limit, by a gap and in
  the middle of a wide value. Two events are a write and a change of the
  device, in either order and anywhere in a read.
- *serve*: a latched alarm and one that is not, so that `acknowledge_all` has
  an alarm before and after the one it is at; two workers, which is what it
  takes for one to hold the lock while the other waits or acknowledges, and
  for two to acknowledge one alarm. Nothing is bounded: the threads go on for ever.

**Fairness.** Three properties need it; all others are of the specifications
without fairness.

- `DueIsServed`: weak fairness of `Loop`, the steps of `run()` and of the
  driver calls it makes. A Python thread that is not blocked goes on, and each
  driver call returns, since the drivers set timeouts on theirs. Nothing is
  assumed of the links, nor that time passes: a loop whose sleep is not over
  has no due group to serve.
- `TimedFaultEnds`: weak fairness of `LineSteps`. The driver steps the line at
  every read, also at those that find the network down, and the runtime goes on
  reading. The property is that a fault given an end does not stay in force: it
  ends, or one without an end takes its place. That another with an end may
  follow it is no way out, nor is an end that is lost.
- `HealsItself`: weak fairness of the pump, whose loop always has a next scan,
  and of the steps each worker takes once it has a request. Nobody has to send
  one, and nothing is assumed about who gets the lock first.

**Deadlock.** Every run but `runtime` checks it: operators, callers and threads
may always go on. In `runtime` the shift ends with its report.

## 4. Findings

Each is a violation run; TLC's trace is the evidence.

1. `RaisedBeyondTheLimit`: a pending high alarm is evaluated with the deadband
   of a raised one (`alarms.py:409`), so with an on-delay a value that touched
   the limit once and then stayed below it, inside the deadband, raises the
   alarm; the docs say to raise at the limit and clear a deadband below.
2. `EveryAttemptAudited`: a name on the allow list that the database lacks
   raises from `check` past the handler that audits (`safety.py:361`).
3. `RunLastsItsDuration`: `run()` reads the clock again between finding nothing
   due and computing how long to wait; a due time that passes in between ends
   the run (`poller.py:449`, and the same code at `runtime.py:216`).
4. `SilenceIsNoted`: a `read` that returns BAD readings without raising counts
   as a success (`poller.py:388`), so a device that connects and never answers
   is healthy and is never backed off.
5. `DroppedIsRebuilt`: a sample the deadband drops never reaches the door
   (`historian.py:369`); a signal that rests and then moves is rebuilt as a
   ramp across the rest, with an error the tolerance does not bound. What the
   README promises of the door holds of the samples the door takes
   (`ErrorIsBounded`).

**Observed, without a run.** What the modules say here is what the code does.

- The bytes of a word in order `"little"` are swapped after a bit was put into
  it (`modbus_codec.py:197`): the bit lands elsewhere and its neighbours move,
  although the docstring (line 188) has the surrounding bits preserved. Two
  signals in such a word are rendered wrongly by the simulated controller, too.
  The validation also accepts a word whose bits have different byte orders,
  where a write of one bit changes what another reads as. `WritesLand` leaves
  bits of order `"little"` out, and bits rendered into a word that has one.
- A bit is written with its word as it was read one request earlier, so what
  the device changed in that word in between is set back
  (`modbus_tcp.py:158-159`). `WritesLand` says that this is all the damage.
- Two coil tags at one address with different `bit` pass the overlap check
  (`tags.py`), although a coil has one bit.
- `inject_fault` takes the speed command away before it returns early for a
  stuck sensor or a lost network (`simulator.py:253-275`), though the comment
  there says that these do not stop the line.
- A fault on a line that an operator stopped opens a second stop event, which
  stays open, and clearing the fault restarts the line; `stop` is ignored while
  the line starves; `reset` and a new speed setpoint move a stopped line.
- The runtime charges an operator's stop as unplanned, and to the sensor if a
  sensor fault stands at the time. A stop still open counts nothing in
  `summary` and on the dashboard's panel until it ends.
- The deadband and the door may withhold the value an alarm fired on, while
  `docs/ARCHITECTURE.md:71-75` has every such value in the history.
- `docs/ARCHITECTURE.md:81-85` has the HTTP threads only read. They acknowledge,
  without a lock: a scan may overwrite an acknowledgement, an acknowledgement
  may take an alarm off the list that has just come up again (until the next
  scan that sees its condition), and one meant for an earlier activation may
  acknowledge a later one. `OwedIsShown` says that only an alarm that comes up
  while it is being acknowledged can vanish, and `HealsItself` that it comes
  back.
- `unshelve` on an alarm in service takes it off the list, also an
  unacknowledged one that latches. `NoAlarmMissed` says that no other step
  leaves a due alarm unannunciated, and that it stays so no longer than until a
  scan samples it.
- A snapshot that meets a scan may fail, in `summary()` or in `rate()`; its
  connection ends without an answer, and the lock is released.

## 5. Theorems

`tlapm` checks every proof to its leaves. The theorems hold for every value of
the constants that satisfies the named assumptions; TLC evaluates these in each
run. The assumptions say the types of the constants and these things:

- `AlarmsFinite`: finitely many alarms are configured;
- `IsFiniteSet(Groups)` and `IsFiniteSet(Devices)` in `PollerAssumption`, and
  periods greater than zero;
- `HistoryHoldsTheLimit`: `MaxWrites <= HistoryDepth`. The code does not check
  it (a tag's deque holds 256 times), and without it `RateHeld` is false;
- `RuntimeAssumption`: `None` is neither a truth value nor a stop, so that
  nothing seen yet, and no stop under way, can be told from something;
- `ModbusAssumption`: tag maps are finite and the device has the registers they
  name. Whether a map is valid is not assumed: `Init` takes those that pass
  `IsValid`.

| Theorem | Module | States |
|---|---|---|
| `TypeCorrect` | each `*Proofs` | `TypeOK` |
| `AckBelongs`, `TrailIsComplete`, `TimersRest`, `ShelvesEnd` | `AlarmsProofs` | `AckIsForThisActivation`, `TrailTellsState`, `TimersAreSound`, `EveryShelfEnds` |
| `NoEarlyRaise`, `NoEarlyClear`, `NothingMissed` | `AlarmsProofs` | `OnDelayHeld`, `OffDelayHeld`, `NoAlarmMissed` |
| `ImplementsLifecycle` | `AlarmsProofs` | `KeepsLifecycle`, the refinement |
| `RateIsHeld`, `RefusalHasCause`, `ConfirmationIsSingleUse`, `RangeIsHeld`, `AuditIsComplete` | `WriteGuardProofs` | `RateHeld`, `RefusedOnlyWhenFull`, `ConfirmedOnce`, `NumbersAreClamped`, `AuditTellsAttempt` |
| `GridIsKept`, `PastSlotsAreSkipped`, `TurnsAreTaken`, `ReadingsAreFresh`, `HealthIsHonest`, `DevicesRecover`, `RetriesAreSpaced` | `PollerProofs` | `OnTheGrid`, `SkipsPastSlots`, `TakesTurns`, `NothingStale`, `HealthTellsConnection`, `Recovers`, `RetriesBackOff` |
| `HeartbeatIsKept`, `FlushedStays`, `TrendIsRebuilt`, `TrendsRunForward` | `HistorianProofs` | `HeartbeatKept`, `FlushedIsSaved`, `ErrorIsBounded`, `TrendRunsForward` |
| `LineRecordsItsDowntime`, `ReportIsSound` | `RuntimeProofs` | `DowntimeIsRecorded`, `ReportAddsUp` |
| `TrackerKeepsAccount` | `RuntimeProofs` | `CountsWhatWasSeen`, the refinement of `Uptime` |
| `ReadsAreFewest`, `ReadsAreTrue`, `WritesAreHeld` | `ModbusProofs` | `FewestRequests`, `ReadsWhatIsThere`, `WritesLand` |
| `OwedStaysShown` | `ServeProofs` | `OwedIsShown`, for any number of alarms and workers |

**The arguments.**

- *Alarms.* One alarm's record is `Sound` when its timers lie after the last
  evidence against them, an acknowledged activation has its own raise and
  acknowledgement, and it is shelved exactly if it has a shelf's end. The
  lemmas follow one record through `Trip`, `Recover` and the expiry of a shelf;
  `UpdateOneEffect` sums them up, and the invariant says that every record is
  sound. The history variables are needed because a timer alone does not say
  what was seen while it ran. `NothingMissed` rests on `ScanLeavesNoneDue`: a
  scan that looks at an alarm's value leaves it annunciated or not due.
- *WriteGuard.* `RateHeld` is about all writes ever accepted while the code
  keeps a window of their times. The invariant (`RateInv`) says that the window
  is the newest part of the accepted writes, that they are in order of time,
  and that each one forgotten is more than a window old.
- *Poller.* `TurnInv` counts separately for groups inside and outside the list
  being worked off: `TakesTurns` is not inductive without it. `RecoverInv`
  bounds how long after a link became good a retry can be put off. `LossInv`
  identifies the health record with the failures counted from outside, from
  which the spacing of retries follows.
- *Historian.* What happens to a tag depends on that tag's values alone, so
  `Sound` is stated of these, and `SwingCases` splits an update of the door
  into the six things it can do. The core of it is `StoredSound`: the pivot is
  the last stored point, and this is the newest row, unless retention has swept
  it together with all the others. Without the exception the invariant is
  false, as retention does not tell the door. For the error, `DoorsFit` says
  what the door knows of the samples since the pivot: the upper slope is at most
  the slope to each of them raised by the tolerance, the lower one at least that
  slope lowered by it, and the two have not crossed. So the slopes to any sample
  and to the held point differ by at most a tolerance at the one and a tolerance
  at the other, which is where the factor two comes from. Slopes are fractions,
  and the proof compares them by cross products.
- *Runtime.* `StopsAreRecorded` says that the line's latest stop is open exactly
  while the line is not running, and `Continues` what every fault, command and
  change of state does to the record: it ends stops that were open and adds
  others. `Continues` is transitive (`Unbroken`), so it holds of a whole step,
  in which any number of faults strike, one expires and the state machine moves.
  `SoundLine` adds the fault behind each state, and the lemmas follow one line
  through the faults that strike and expire, the commands and the process.
  `SoundEvents` puts the tracker's stops in order: only the last may be open,
  and what those before it cost lies before its start, so that their sum fits
  into the shift. `Inv` adds that a stop is under way just when the last scan
  that got through found the line standing. Given that, each step of the
  tracker is a step of `Uptime` or none (`StopOf`, `LostOf`): a stop that ends
  adds its length to one row of the Pareto and to no other.
- *Codec.* The bytes of a value are its digits, of which there are enough for
  its type, and the reorderings undo themselves (`NumbersThereAndBack`).
  Rounding is off by at most half a step, so nothing else that can be written is
  nearer (`RoundedIsClose`), and what lies beyond the range is nearest to the
  end it is clamped to (`ClampedIsNearest`). `BitIsPut` is the arithmetic of one
  bit.
- *Modbus.* A write changes the registers of its tag (`StoredIs`), and a valid
  map keeps tags apart unless they are bits of one word (`TagsApart`). What the
  controller renders is built bit by bit: `WordHasItsBits` follows a word
  through that. `Inv` says that blocks still to be read begin no later than
  their tags, that a read under way has answered or still asks for every tag,
  and that a bit write under way is of a word with bits.
- *Coalescing.* `SoundBlocks` describes the blocks after any number of tags:
  each is a legal read, and once a block is closed every later tag is out of
  its reach, too far from its start or behind a gap too large. So of any two
  blocks the tags they start with cannot share a legal read (`NeverTogether`),
  and a plan with fewer reads than blocks would have to put two of them into
  one (`FewestBlocks`).
- *Serve.* That an owed alarm is on the list is not inductive: a thread may
  already have tested the alarm and be about to write. `NobodyIsAt` says that
  no worker is acknowledging an owed alarm, and `ScanIsRight` that a scan about
  to clear one found it unacknowledged and will leave it on the list.

**Induction over data.** The library's induction theorems take a predicate as a
parameter, which none of the provers can instantiate. `InductiveSet` in
`DataLemmas` is stated of a set instead, and each proof that needs it names the
set of numbers for which its claim holds. That a recursive function exists is
shown in the same way, once for each, from the tables of its first values
(`PowersExist`, `StagesExist`, `WordExists`).

**Model-checked only.** `DueIsServed`, `TimedFaultEnds` and `HealsItself`, the
liveness properties, which this prover cannot show; and of course what fails.

## 6. Not modelled, and plan

Left out for good: parsing, formatting, HTML and charts; the drivers' calls
into pymodbus, asyncua and paho, beyond what a caller sees of them; the process
physics of the simulator, which is random data; a clock that steps back, on
which the code states nothing; configuration, examples and docs.

Left out so far:

- the Sparkplug publisher, which no command and no part of the runtime uses;
- the OPC UA driver beyond its answers, which are those of `Poller`'s links;
- the ladder of alarm limits and the parsing in the tag database;
- the historian's table of events, written in the same transaction as samples;
- one module in which a scan goes through historian, alarms and OEE together.
  What would be checked there is the promise of the docs that the observations
  above contradict, and each part is checked alone for any input;
- the end of `serve`, which closes the historian without waiting for the pump.

What is left to do next: that the parts keep what is proved of them when they
are composed, which needs the module with all of a scan; and the Sparkplug
publisher, whose sequence numbers and births would be its properties.
