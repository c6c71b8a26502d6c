-------------------------------- MODULE Serve --------------------------------
(***************************************************************************)
(* The threads of the serve command: the pump of cli.py, which scans, and  *)
(* the workers of the HTTP server of dashboard.py, which take snapshots    *)
(* under a lock of their own and acknowledge alarms under none.  They      *)
(* share the alarm engine of alarms.py, and change places between any read *)
(* of an alarm's state and the write that follows from it.                 *)
(*                                                                         *)
(* An alarm stands for its place in the engine.  Its delays are zero and   *)
(* its condition is what the scan sampled; both are the matter of module   *)
(* Alarms.  No thread of the command shelves an alarm.                     *)
(***************************************************************************)
EXTENDS Naturals

CONSTANTS
    Count,          \* how many alarms are configured
    Latched,        \* which of them are latched
    Workers,        \* the worker threads, one per connection
    None            \* a tag with no value in a scan, and the lock that is free

ASSUME ServeAssumption ==
    /\ Count \in Nat \ {0}
    /\ Latched \subseteq 1..Count
    /\ None \notin Workers /\ None \notin BOOLEAN

Alarms == 1..Count

VARIABLES
    state,          \* per alarm, AlarmInstance.state
    met,            \* per alarm, whether the scan under way sees its condition
    scan,           \* where the pump is, and at which alarm
    worker,         \* where each worker is, at which alarm, and whether all are meant
    lock,           \* DashboardApp._lock: None or the worker that has it
    owed            \* history: latched alarms raised while no worker was
                    \* acknowledging them, and not begun to be since

vars == <<state, met, scan, worker, lock, owed>>

States == {"NORMAL", "ACTIVE_UNACK", "ACTIVE_ACK", "RTN_UNACK"}

Active == {"ACTIVE_UNACK", "ACTIVE_ACK"}

Unacknowledged == {"ACTIVE_UNACK", "RTN_UNACK"}

(* needs_attention: what annunciated() lists.                              *)
Annunciated == {a \in Alarms : state[a] # "NORMAL"}

Acknowledging == {"testing unack", "accepting", "testing return", "retiring"}

Snapping == {"rating", "looking", "naming"}

Init ==
    /\ state = [a \in Alarms |-> "NORMAL"]
    /\ met = [a \in Alarms |-> None]
    /\ scan = [at |-> "waiting", alarm |-> 1]
    /\ worker = [w \in Workers |-> [at |-> "idle", alarm |-> 1, all |-> FALSE]]
    /\ lock = None
    /\ owed = {}

-----------------------------------------------------------------------------
(* The pump: AlarmEngine.update                                            *)

ScanAt(here, there) ==
    /\ scan.at = here
    /\ scan' = [scan EXCEPT !.at = there]

(* One alarm is done with.                                                 *)
NextAlarm ==
    scan' = IF scan.alarm < Count THEN [at |-> "evaluating", alarm |-> scan.alarm + 1]
            ELSE [at |-> "waiting", alarm |-> 1]

ScanStarts ==
    /\ scan.at = "waiting"
    /\ met' \in [Alarms -> {TRUE, FALSE, None}]
    /\ scan' = [scan EXCEPT !.at = "evaluating"]
    /\ UNCHANGED <<state, worker, lock, owed>>

(* A tag with no value holds its alarm.                                    *)
ScanHolds ==
    /\ scan.at = "evaluating" /\ met[scan.alarm] = None
    /\ NextAlarm
    /\ UNCHANGED <<state, met, worker, lock, owed>>

ScanTestsForRaise ==
    /\ scan.at = "evaluating" /\ met[scan.alarm] = TRUE
    /\ IF state[scan.alarm] \in {"NORMAL", "RTN_UNACK"} THEN scan' = [scan EXCEPT !.at = "raising"]
       ELSE NextAlarm
    /\ UNCHANGED <<state, met, worker, lock, owed>>

BeingAcknowledged(a) ==
    \E w \in Workers : worker[w].at \in Acknowledging /\ worker[w].alarm = a

(* The raise goes into _raise_times; who is counting them then fails.      *)
ScanRaises ==
    /\ scan.at = "raising"
    /\ state' = [state EXCEPT ![scan.alarm] = "ACTIVE_UNACK"]
    /\ owed' = IF scan.alarm \notin Latched \/ BeingAcknowledged(scan.alarm) THEN owed
               ELSE owed \cup {scan.alarm}
    /\ worker' = [w \in Workers |->
                     IF worker[w].at = "rating" THEN [worker[w] EXCEPT !.at = "failing"]
                     ELSE worker[w]]
    /\ NextAlarm
    /\ UNCHANGED <<met, lock>>

ScanTestsForActive ==
    /\ scan.at = "evaluating" /\ met[scan.alarm] = FALSE
    /\ IF state[scan.alarm] \in Active THEN scan' = [scan EXCEPT !.at = "clearing"]
       ELSE NextAlarm
    /\ UNCHANGED <<state, met, worker, lock, owed>>

(* Mutant of Returns: it is the acknowledged alarm that stays.             *)
ReturnsIfAcknowledged(a) == a \in Latched /\ state[a] = "ACTIVE_ACK"

(* A latched alarm that clears unacknowledged stays on the list.           *)
Returns(a) == a \in Latched /\ state[a] = "ACTIVE_UNACK"

ScanTestsForLatch ==
    /\ ScanAt("clearing", IF Returns(scan.alarm) THEN "returning" ELSE "normalising")
    /\ UNCHANGED <<state, met, worker, lock, owed>>

ScanClears ==
    /\ scan.at \in {"returning", "normalising"}
    /\ state' = [state EXCEPT ![scan.alarm] =
                    IF scan.at = "returning" THEN "RTN_UNACK" ELSE "NORMAL"]
    /\ NextAlarm
    /\ UNCHANGED <<met, worker, lock, owed>>

ScanSteps ==
    \/ ScanStarts \/ ScanHolds
    \/ ScanTestsForRaise \/ ScanRaises
    \/ ScanTestsForActive \/ ScanTestsForLatch \/ ScanClears

-----------------------------------------------------------------------------
(* A worker acknowledges: do_POST, DashboardApp.acknowledge, acknowledge   *)
(* and acknowledge_all of the engine.  A name that is not configured is    *)
(* answered with an error and changes nothing.                             *)

WorkerAt(w, here, there) ==
    /\ worker[w].at = here
    /\ worker' = [worker EXCEPT ![w].at = there]

(* One alarm is done with; the comprehension goes on to the next.          *)
Answered(w) ==
    worker' = [worker EXCEPT ![w] =
        IF @.all /\ @.alarm < Count
        THEN [at |-> "choosing", alarm |-> @.alarm + 1, all |-> TRUE]
        ELSE [at |-> "idle", alarm |-> 1, all |-> FALSE]]

AcknowledgeOne(w, a) ==
    /\ worker[w].at = "idle"
    /\ worker' = [worker EXCEPT ![w] = [at |-> "testing unack", alarm |-> a, all |-> FALSE]]
    /\ owed' = owed \ {a}
    /\ UNCHANGED <<state, met, scan, lock>>

AcknowledgeAll(w) ==
    /\ worker[w].at = "idle"
    /\ worker' = [worker EXCEPT ![w] = [at |-> "choosing", alarm |-> 1, all |-> TRUE]]
    /\ UNCHANGED <<state, met, scan, lock, owed>>

Choose(w) ==
    /\ worker[w].at = "choosing"
    /\ IF state[worker[w].alarm] \in Unacknowledged
       THEN /\ worker' = [worker EXCEPT ![w].at = "testing unack"]
            /\ owed' = owed \ {worker[w].alarm}
       ELSE /\ Answered(w)
            /\ UNCHANGED owed
    /\ UNCHANGED <<state, met, scan, lock>>

TestUnack(w) ==
    /\ WorkerAt(w, "testing unack",
                IF state[worker[w].alarm] = "ACTIVE_UNACK" THEN "accepting"
                ELSE "testing return")
    /\ UNCHANGED <<state, met, scan, lock, owed>>

TestReturn(w) ==
    /\ worker[w].at = "testing return"
    /\ IF state[worker[w].alarm] = "RTN_UNACK"
       THEN worker' = [worker EXCEPT ![w].at = "retiring"]
       ELSE Answered(w)
    /\ UNCHANGED <<state, met, scan, lock, owed>>

Acknowledge(w) ==
    /\ worker[w].at \in {"accepting", "retiring"}
    /\ state' = [state EXCEPT ![worker[w].alarm] =
                    IF worker[w].at = "accepting" THEN "ACTIVE_ACK" ELSE "NORMAL"]
    /\ Answered(w)
    /\ UNCHANGED <<met, scan, lock, owed>>

-----------------------------------------------------------------------------
(* A worker takes a snapshot: do_GET, _stream and DashboardApp.snapshot.   *)
(* Of what it reads only what can go wrong is kept: the count of raises    *)
(* and the two looks at the worst alarm in AlarmEngine.summary.            *)

AskForSnapshot(w) ==
    /\ WorkerAt(w, "idle", "waiting")
    /\ UNCHANGED <<state, met, scan, lock, owed>>

TakeLock(w) ==
    /\ lock = None
    /\ WorkerAt(w, "waiting", "rating")
    /\ lock' = w
    /\ UNCHANGED <<state, met, scan, owed>>

CountRaises(w) ==
    /\ WorkerAt(w, "rating", "looking")
    /\ UNCHANGED <<state, met, scan, lock, owed>>

(* Mutant of Released: a snapshot that fails keeps the lock.               *)
ReleasedIfServed(w) == lock' = IF worker[w].at = "failing" THEN lock ELSE None

(* The lock is released however the snapshot ends.                         *)
Released(w) == lock' = None

(* Nothing to name: the snapshot is complete.                              *)
LookForWorst(w) ==
    /\ worker[w].at = "looking"
    /\ IF Annunciated # {}
       THEN worker' = [worker EXCEPT ![w].at = "naming"] /\ UNCHANGED lock
       ELSE worker' = [worker EXCEPT ![w].at = "idle"] /\ Released(w)
    /\ UNCHANGED <<state, met, scan, owed>>

(* The worst alarm is looked up anew to be named; there may be none now.   *)
NameWorst(w) ==
    /\ worker[w].at = "naming"
    /\ IF Annunciated = {}
       THEN worker' = [worker EXCEPT ![w].at = "failing"] /\ UNCHANGED lock
       ELSE worker' = [worker EXCEPT ![w].at = "idle"] /\ Released(w)
    /\ UNCHANGED <<state, met, scan, owed>>

(* The exception leaves the with statement and ends the connection.        *)
SnapshotFails(w) ==
    /\ WorkerAt(w, "failing", "idle")
    /\ Released(w)
    /\ UNCHANGED <<state, met, scan, owed>>

WorkerSteps(w) ==
    \/ Choose(w) \/ TestUnack(w) \/ TestReturn(w) \/ Acknowledge(w)
    \/ TakeLock(w) \/ CountRaises(w) \/ LookForWorst(w) \/ NameWorst(w) \/ SnapshotFails(w)

Requests(w) ==
    \/ \E a \in Alarms : AcknowledgeOne(w, a)
    \/ AcknowledgeAll(w)
    \/ AskForSnapshot(w)

-----------------------------------------------------------------------------
Next ==
    \/ ScanSteps
    \/ \E w \in Workers : WorkerSteps(w) \/ Requests(w)

Spec == Init /\ [][Next]_vars

(* A thread that can run is run: the interpreter passes its lock around.   *)
(* Nobody has to send a request.                                           *)
FairSpec == Spec /\ WF_vars(ScanSteps) /\ \A w \in Workers : WF_vars(WorkerSteps(w))

-----------------------------------------------------------------------------
(* Properties                                                              *)

TypeOK ==
    /\ state \in [Alarms -> States]
    /\ met \in [Alarms -> {TRUE, FALSE, None}]
    /\ scan \in [at : {"waiting", "evaluating", "raising", "clearing", "returning", "normalising"},
                 alarm : Alarms]
    /\ worker \in [Workers -> [at : {"idle", "choosing", "waiting", "failing"}
                                        \cup Acknowledging \cup Snapping,
                               alarm : Alarms, all : BOOLEAN]]
    /\ lock \in Workers \cup {None}
    /\ owed \subseteq Latched

(* A latched alarm that came up while nobody was acknowledging it stays on *)
(* the list, unacknowledged, until somebody begins to: a scan and the      *)
(* acknowledgements of several operators cannot lose it between them.      *)
OwedIsShown == \A a \in owed : state[a] \in Unacknowledged

(* The threads overwrite each other's results, so that a standing alarm    *)
(* may vanish from the list as an acknowledgement lands; but whatever they *)
(* did, an alarm whose condition is seen again and again and never seen    *)
(* gone is on the list for good in the end, and the lock of the snapshots  *)
(* always comes free, also when a snapshot fails.                          *)
HealsItself ==
    /\ []<>(lock = None)
    /\ \A a \in Alarms :
           []<>(met[a] = TRUE) /\ <>[](met[a] # FALSE) => <>[](state[a] \in Active)
=============================================================================
