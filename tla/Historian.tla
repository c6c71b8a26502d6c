----------------------------- MODULE Historian -----------------------------
(***************************************************************************)
(* The history of historian.py: exception reporting by deadband, then      *)
(* swinging-door compression, into an SQLite table that is committed only  *)
(* by flush(), retention and vacuum(), so that a crash loses what came     *)
(* after.                                                                  *)
(*                                                                         *)
(* A sample that is not GOOD, or has no value, leaves record() before it   *)
(* touches anything, and has no action here.  compression=False is the     *)
(* setting with neither deadband nor tolerance.  The events table, which   *)
(* shares the transaction, is a plain log and is left out.                 *)
(***************************************************************************)
EXTENDS Integers, Sequences, FiniteSets

CONSTANTS
    Tags,
    Values,         \* the values of GOOD samples
    Settings,       \* what a tag can be configured with: a set of Setting
    Ages,           \* the max_age retention is called with
    MaxTime,        \* bound: the clock stops here
    MaxUpsets,      \* bound: crashes, retentions and reconfigurations
    None

(* _TagPolicy: max_interval may be None, for no heartbeat.                 *)
Setting == [deadband : Nat, tolerance : Nat, maxInterval : (Nat \ {0}) \cup {None}]

ASSUME HistorianAssumption ==
    /\ Values \subseteq Int
    /\ Settings \subseteq Setting
    /\ Ages \subseteq Nat
    /\ MaxTime \in Nat /\ MaxUpsets \in Nat
    /\ None \notin Int

VARIABLES
    now,
    setting,        \* deadband, tolerance and max_interval of each tag
    door,           \* the SwingingDoor of each tag with a tolerance
    stored,         \* last_stored and last_stored_ts of each tag, or NoPoint
    rows,           \* the samples table, as the connection sees it
    disk,           \* the samples table as last committed
    upsets,         \* bound: how many have happened
    taken,          \* history variable: what each tag's door has taken
    heard,          \* history variable: the latest sample of each tag
    passed,         \* history variable: the latest that passed the deadband
    dropped,        \* history variable: the latest the deadband dropped
    flushed,        \* history variable: the latest that passed before a flush
    swept           \* history variable: the latest cutoff of retention

memory == <<setting, door, stored>>
tables == <<rows, disk>>
ghosts == <<taken, heard, passed, dropped, flushed, swept>>
vars == <<now, memory, tables, upsets, ghosts>>

Point == [at : Nat, value : Int]

(* No point yet: pivot, held and last_stored are None at first.            *)
NoPoint == [at |-> None, value |-> None]

Exists(p) == p.at # None

(* A slope, as rise over run; a run of zero makes it infinite.             *)
Slope == Int \X Nat

Below(a, b) == a[1] * b[2] < b[1] * a[2]

LesserOf(a, b) == IF Below(b, a) THEN b ELSE a
GreaterOf(a, b) == IF Below(a, b) THEN b ELSE a

(* _reset_doors                                                            *)
OpenDoor(pivot) ==
    [pivot |-> pivot, held |-> NoPoint, upper |-> <<1, 0>>, lower |-> <<-1, 0>>]

Init ==
    /\ now = 0
    /\ setting \in [Tags -> Settings]
    /\ door = [t \in Tags |-> OpenDoor(NoPoint)]
    /\ stored = [t \in Tags |-> NoPoint]
    /\ rows = [t \in Tags |-> {}]
    /\ disk = rows
    /\ upsets = 0
    /\ taken = [t \in Tags |-> {}]
    /\ heard = [t \in Tags |-> None]
    /\ passed = [t \in Tags |-> None]
    /\ dropped = [t \in Tags |-> NoPoint]
    /\ flushed = [t \in Tags |-> None]
    /\ swept = 0

-----------------------------------------------------------------------------
(* SwingingDoor.  min_interval is zero in every door a Historian makes.    *)

(* The outcome of one update: the door after it, and the points to archive *)
(* in their order.                                                         *)
Swung(d, points) == [door |-> d, points |-> points]

SlopeTo(d, s, margin) == <<s.value + margin - d.pivot.value, s.at - d.pivot.at>>

NewUpper(d, s, tolerance) == LesserOf(d.upper, SlopeTo(d, s, tolerance))
NewLower(d, s, tolerance) == GreaterOf(d.lower, SlopeTo(d, s, -tolerance))

(* Mutant of Narrowed: the doors never narrow.                             *)
NarrowedNot(d, s, tolerance) ==
    [d EXCEPT !.upper = SlopeTo(d, s, tolerance),
              !.lower = SlopeTo(d, s, -tolerance), !.held = s]

Narrowed(d, s, tolerance) ==
    [d EXCEPT !.upper = NewUpper(d, s, tolerance),
              !.lower = NewLower(d, s, tolerance), !.held = s]

TooOld(d, s, maxInterval) == maxInterval # None /\ s.at - d.pivot.at >= maxInterval

(* No line from the pivot passes within the tolerance of every sample.     *)
Closed(d, s, tolerance) == Below(NewUpper(d, s, tolerance), NewLower(d, s, tolerance))

(* _archive_current, when no point is held: the sample itself.             *)
Archived(s) == Swung(OpenDoor(s), <<s>>)

(* Mutants of Rerun: the sample that closed the doors is not run again; it *)
(* becomes the pivot without having been archived; the held point stays.   *)
RerunNot(d, s, c) == Swung(OpenDoor(d.held), <<d.held>>)

RerunAsPivot(d, s, c) == Swung(OpenDoor(s), <<d.held>>)

RerunHolding(d, s, c) ==
    IF TooOld(d, s, c.maxInterval) THEN Swung(OpenDoor(s), <<s>>)
    ELSE Swung([OpenDoor(s) EXCEPT !.held = d.held], <<s>>)

(* update() again, on the door just opened at the held point: its doors    *)
(* cannot close, but the sample may be late even so.                       *)
Rerun(d, s, c) ==
    IF s.at <= d.held.at THEN Swung(OpenDoor(d.held), <<d.held>>)
    ELSE IF TooOld(OpenDoor(d.held), s, c.maxInterval)
         THEN Swung(OpenDoor(s), <<d.held, s>>)
         ELSE Swung(Narrowed(OpenDoor(d.held), s, c.tolerance), <<d.held>>)

Swing(d, s, c) ==
    IF ~Exists(d.pivot) THEN Archived(s)
    ELSE IF s.at <= d.pivot.at THEN Swung(d, <<>>)
    ELSE IF TooOld(d, s, c.maxInterval) \/ Closed(d, s, c.tolerance)
         THEN IF Exists(d.held) THEN Rerun(d, s, c) ELSE Archived(s)
         ELSE Swung(Narrowed(d, s, c.tolerance), <<>>)

-----------------------------------------------------------------------------
(* record, one action for each way a sample can take                       *)

Distance(x, y) == IF x >= y THEN x - y ELSE y - x

(* Mutant of AgedOut: a row exactly max_interval old is not aged out.      *)
AgedOutLate(t) ==
    /\ setting[t].maxInterval # None
    /\ now - stored[t].at > setting[t].maxInterval

AgedOut(t) ==
    /\ setting[t].maxInterval # None
    /\ now - stored[t].at >= setting[t].maxInterval

(* The deadband drops the sample.                                          *)
Excepted(t, v) ==
    /\ setting[t].deadband > 0
    /\ Exists(stored[t])
    /\ Distance(v, stored[t].value) <= setting[t].deadband
    /\ ~AgedOut(t)

Sample(v) == [at |-> now, value |-> v]

(* INSERT OR REPLACE, the key being the tag and the time.                  *)
Inserted(table, p) == {r \in table : r.at # p.at} \cup {p}

(* The rows of a table after _insert of each of the points.                *)
WithPoints(table, points) ==
    CASE Len(points) = 0 -> table
      [] Len(points) = 1 -> Inserted(table, points[1])
      [] OTHER           -> Inserted(Inserted(table, points[1]), points[2])

Heard(t) == heard' = [heard EXCEPT ![t] = now]
Passed(t) == passed' = [passed EXCEPT ![t] = now]

RecordExcepted(t, v) ==
    /\ Excepted(t, v)
    /\ Heard(t)
    /\ dropped' = [dropped EXCEPT ![t] = Sample(v)]
    /\ UNCHANGED <<now, memory, tables, upsets, taken, passed, flushed, swept>>

(* The tag has no door.                                                    *)
RecordDirectly(t, v) ==
    /\ ~Excepted(t, v)
    /\ setting[t].tolerance = 0
    /\ rows' = [rows EXCEPT ![t] = Inserted(@, Sample(v))]
    /\ stored' = [stored EXCEPT ![t] = Sample(v)]
    /\ Heard(t) /\ Passed(t)
    /\ UNCHANGED <<now, setting, door, disk, upsets, taken, dropped, flushed, swept>>

RecordThroughDoor(t, v) ==
    /\ ~Excepted(t, v)
    /\ setting[t].tolerance > 0
    /\ LET swung == Swing(door[t], Sample(v), setting[t])
           d == swung.door
       IN  /\ door' = [door EXCEPT ![t] = d]
           /\ rows' = [rows EXCEPT ![t] = WithPoints(@, swung.points)]
           /\ stored' = [stored EXCEPT ![t] =
                           IF swung.points = <<>> THEN @ ELSE swung.points[Len(swung.points)]]
           /\ taken' = [taken EXCEPT ![t] =
                          IF d.pivot.at < now \/ d.pivot = Sample(v)
                          THEN @ \cup {Sample(v)} ELSE @]
    /\ Heard(t) /\ Passed(t)
    /\ UNCHANGED <<now, setting, disk, upsets, dropped, flushed, swept>>

Record(t, v) == RecordExcepted(t, v) \/ RecordDirectly(t, v) \/ RecordThroughDoor(t, v)

-----------------------------------------------------------------------------
(* Transactions                                                            *)

Commit == disk' = rows'

(* Mutant of Pending: flush() does not ask whether a point is held.        *)
PendingAlways(t) == setting[t].tolerance > 0

(* The point each door still holds back.                                   *)
Pending(t) == setting[t].tolerance > 0 /\ Exists(door[t].held)

(* Mutant of Flush: what is held back is archived after the commit.        *)
FlushCommitFirst ==
    /\ rows' = [t \in Tags |-> IF Pending(t) THEN Inserted(rows[t], door[t].held) ELSE rows[t]]
    /\ stored' = [t \in Tags |-> IF Pending(t) THEN door[t].held ELSE stored[t]]
    /\ door' = [t \in Tags |-> IF Pending(t) THEN OpenDoor(door[t].held) ELSE door[t]]
    /\ disk' = rows
    /\ flushed' = [t \in Tags |-> IF passed[t] = None THEN flushed[t] ELSE passed[t]]
    /\ UNCHANGED <<now, setting, upsets, taken, heard, passed, dropped, swept>>

Flush ==
    /\ rows' = [t \in Tags |-> IF Pending(t) THEN Inserted(rows[t], door[t].held) ELSE rows[t]]
    /\ stored' = [t \in Tags |-> IF Pending(t) THEN door[t].held ELSE stored[t]]
    /\ door' = [t \in Tags |-> IF Pending(t) THEN OpenDoor(door[t].held) ELSE door[t]]
    /\ Commit
    /\ flushed' = [t \in Tags |-> IF passed[t] = None THEN flushed[t] ELSE passed[t]]
    /\ UNCHANGED <<now, setting, upsets, taken, heard, passed, dropped, swept>>

(* vacuum() commits what there is, and compacts the file.                  *)
Vacuum ==
    /\ UNCHANGED rows
    /\ Commit
    /\ UNCHANGED <<now, memory, upsets, ghosts>>

(* apply_retention(age): the door and last_stored are not told.            *)
ApplyRetention(age) ==
    /\ upsets < MaxUpsets /\ upsets' = upsets + 1
    /\ rows' = [t \in Tags |-> {r \in rows[t] : r.at >= now - age}]
    /\ Commit
    /\ swept' = IF now - age > swept THEN now - age ELSE swept
    /\ UNCHANGED <<now, memory, taken, heard, passed, dropped, flushed>>

(* configure_tag: the tag gets a new door, with nothing in it.             *)
ConfigureTag(t, c) ==
    /\ upsets < MaxUpsets /\ upsets' = upsets + 1
    /\ setting' = [setting EXCEPT ![t] = c]
    /\ door' = [door EXCEPT ![t] = OpenDoor(NoPoint)]
    /\ taken' = [taken EXCEPT ![t] = {}]
    /\ heard' = [heard EXCEPT ![t] = None]
    /\ passed' = [passed EXCEPT ![t] = None]
    /\ dropped' = [dropped EXCEPT ![t] = NoPoint]
    /\ UNCHANGED <<now, stored, tables, flushed, swept>>

(* The process dies without close(), and another opens the file.  close()  *)
(* is a Flush followed by this.                                            *)
Crash ==
    /\ upsets < MaxUpsets /\ upsets' = upsets + 1
    /\ rows' = disk
    /\ door' = [t \in Tags |-> OpenDoor(NoPoint)]
    /\ stored' = [t \in Tags |-> NoPoint]
    /\ taken' = [t \in Tags |-> {}]
    /\ heard' = [t \in Tags |-> None]
    /\ passed' = [t \in Tags |-> None]
    /\ dropped' = [t \in Tags |-> NoPoint]
    /\ UNCHANGED <<now, setting, disk, flushed, swept>>

Tick ==
    /\ now < MaxTime
    /\ now' = now + 1
    /\ UNCHANGED <<memory, tables, upsets, ghosts>>

Next ==
    \/ \E t \in Tags, v \in Values : Record(t, v)
    \/ Flush
    \/ Vacuum
    \/ \E age \in Ages : ApplyRetention(age)
    \/ \E t \in Tags, c \in Settings : ConfigureTag(t, c)
    \/ Crash
    \/ Tick

Spec == Init /\ [][Next]_vars

-----------------------------------------------------------------------------
(* Properties                                                              *)

Points == Point \cup {NoPoint}

Door == [pivot : Points, held : Points, upper : Slope, lower : Slope]

TypeOK ==
    /\ now \in Nat
    /\ setting \in [Tags -> Setting]
    /\ door \in [Tags -> Door]
    /\ stored \in [Tags -> Points]
    /\ rows \in [Tags -> SUBSET Point]
    /\ disk \in [Tags -> SUBSET Point]
    /\ upsets \in Nat
    /\ taken \in [Tags -> SUBSET Point]
    /\ heard \in [Tags -> Nat \cup {None}]
    /\ passed \in [Tags -> Nat \cup {None}]
    /\ dropped \in [Tags -> Points]
    /\ flushed \in [Tags -> Nat \cup {None}]
    /\ swept \in Nat

(* p and q are the rows interpolate() finds for a time.                    *)
Around(t, at, p, q) ==
    /\ p.at <= at /\ at <= q.at
    /\ \A r \in rows[t] : r.at <= p.at \/ q.at <= r.at

(* The trend rebuilt between p and q is at s.at within margin of s.        *)
Rebuilt(s, p, q, margin) ==
    IF p.at = q.at THEN Distance(s.value, p.value) <= margin
    ELSE Distance((s.value - p.value) * (q.at - p.at), (q.value - p.value) * (s.at - p.at))
            <= margin * (q.at - p.at)

(* "Rebuilding by joining archived points costs up to 2x tolerance":       *)
(* between any two neighbouring rows the trend is within that of every     *)
(* sample the door has taken, whatever was flushed, swept or late in       *)
(* between (SwingingDoor.update, interpolate).                             *)
ErrorIsBounded ==
    \A t \in Tags : \A s \in taken[t] : \A p, q \in rows[t] :
        Around(t, s.at, p, q) => Rebuilt(s, p, q, 2 * setting[t].tolerance)

(* "A flat signal still proves it was being read": when a sample has come, *)
(* the history has a row less than max_interval older, dropped or held as  *)
(* the sample may be, until retention sweeps it.                           *)
HeartbeatKept ==
    \A t \in Tags : heard[t] # None /\ setting[t].maxInterval # None =>
        \/ heard[t] - setting[t].maxInterval < swept
        \/ \E r \in rows[t] : heard[t] - r.at < setting[t].maxInterval

(* What was flushed stays: the newest sample the deadband let pass before  *)
(* a flush is a row on disk, held back as it may have been, and no crash,  *)
(* new door or later sample removes it, only retention (flush).            *)
FlushedIsSaved ==
    \A t \in Tags : flushed[t] # None =>
        \/ flushed[t] < swept
        \/ \E r \in disk[t] : r.at = flushed[t]

(* A trend never goes backwards: no row comes to be before one that is     *)
(* already there, but for the committed row a crash brings back in place   *)
(* of its replacement (update, _archive_current, flush).                   *)
TrendRunsForward ==
    [][\A t \in Tags : \A r \in rows'[t] \ (rows[t] \cup disk[t]), q \in rows[t] :
            q.at <= r.at]_vars

(* "Rebuilding by joining archived points costs up to 2x tolerance", the   *)
(* deadband added for a sample it dropped.  Such a sample never reaches    *)
(* the door: a signal that rested and then moved is rebuilt as if it had   *)
(* been moving all along, and this fails.                                  *)
DroppedIsRebuilt ==
    \A t \in Tags : setting[t].tolerance > 0 /\ Exists(dropped[t]) =>
        \A p, q \in rows[t] :
            p.at < dropped[t].at /\ dropped[t].at < q.at /\ Around(t, dropped[t].at, p, q) =>
            Rebuilt(dropped[t], p, q, 2 * setting[t].tolerance + setting[t].deadband)
=============================================================================
