----------------------------- MODULE ServeProofs -----------------------------
(***************************************************************************)
(* Proofs about Serve, for any number of alarms and of workers: its types, *)
(* and that the races of its threads never lose a latched alarm that came  *)
(* up while nobody was acknowledging it.                                   *)
(***************************************************************************)
EXTENDS Serve, TLAPS

USE DEF Alarms

(* Nobody is in the middle of acknowledging an owed alarm: a raise in that *)
(* time is not owed, and beginning to acknowledge ends what is owed.       *)
NobodyIsAt == \A w \in Workers : worker[w].at \in Acknowledging => worker[w].alarm \notin owed

(* A scan that found an owed alarm active finds it unacknowledged, and one *)
(* about to make an alarm normal is not at an owed one.                    *)
ScanIsRight ==
    /\ scan.at = "clearing" /\ scan.alarm \in owed => state[scan.alarm] = "ACTIVE_UNACK"
    /\ scan.at = "normalising" => scan.alarm \notin owed

IInv == TypeOK /\ OwedIsShown /\ NobodyIsAt /\ ScanIsRight

-----------------------------------------------------------------------------
(* The initial states satisfy the invariant.                               *)
LEMMA InitInv == Init => IInv
BY ServeAssumption
DEF Init, IInv, TypeOK, OwedIsShown, NobodyIsAt, ScanIsRight, States, Acknowledging

(* What the pump and a worker do when they are done with an alarm.         *)
LEMMA NextAlarmType ==
    ASSUME TypeOK, NextAlarm
    PROVE  /\ scan' \in [at : {"evaluating", "waiting"}, alarm : Alarms]
           /\ scan'.at \in {"evaluating", "waiting"}
<1>1. scan.alarm \in 1..Count /\ Count \in Nat \ {0}
  BY ServeAssumption DEF TypeOK
<1>2. CASE scan.alarm < Count
  <2>1. scan.alarm + 1 \in 1..Count
    BY <1>1, <1>2
  <2> QED
    BY <1>2, <2>1 DEF NextAlarm
<1>3. CASE ~(scan.alarm < Count)
  BY <1>1, <1>3 DEF NextAlarm
<1> QED
  BY <1>2, <1>3

LEMMA AnsweredType ==
    ASSUME TypeOK, NEW w \in Workers, Answered(w)
    PROVE  /\ worker' \in [Workers -> [at : {"idle", "choosing", "waiting", "failing"}
                                              \cup Acknowledging \cup Snapping,
                                      alarm : Alarms, all : BOOLEAN]]
           /\ worker'[w].at \in {"idle", "choosing"}
           /\ \A v \in Workers \ {w} : worker'[v] = worker[v]
<1>1. worker[w].alarm \in 1..Count /\ Count \in Nat \ {0}
  BY ServeAssumption DEF TypeOK
<1>2. worker[w].alarm < Count => worker[w].alarm + 1 \in 1..Count
  BY <1>1
<1>3. 1 \in 1..Count
  BY <1>1
<1> QED
  BY <1>2, <1>3 DEF Answered, TypeOK

(* A worker that goes on to somewhere else.                                *)
Places == {"idle", "choosing", "waiting", "failing"} \cup Acknowledging \cup Snapping

LEMMA MovedType ==
    ASSUME TypeOK, NEW w \in Workers, NEW there \in Places,
           worker' = [worker EXCEPT ![w].at = there]
    PROVE  /\ worker' \in [Workers -> [at : Places, alarm : Alarms, all : BOOLEAN]]
           /\ worker'[w].at = there /\ worker'[w].alarm = worker[w].alarm
           /\ \A v \in Workers \ {w} : worker'[v] = worker[v]
<1>1. worker \in [Workers -> [at : Places, alarm : Alarms, all : BOOLEAN]]
  BY DEF TypeOK, Places
<1> QED
  BY <1>1

-----------------------------------------------------------------------------
(* Every step of the pump keeps the invariant.                             *)
LEMMA ScanInv == IInv /\ ScanSteps => IInv'
<1> SUFFICES ASSUME IInv, ScanSteps PROVE IInv'
  OBVIOUS
<1> USE DEF IInv
<1>a. scan.alarm \in Alarms /\ TypeOK
  BY DEF TypeOK
<1>1. CASE ScanStarts
  BY <1>1 DEF ScanStarts, TypeOK, OwedIsShown, NobodyIsAt, ScanIsRight
<1>2. CASE ScanHolds
  <2>1. NextAlarm
    BY <1>2 DEF ScanHolds
  <2> QED
    BY <1>2, <2>1, NextAlarmType DEF ScanHolds, TypeOK, OwedIsShown, NobodyIsAt, ScanIsRight
<1>3. CASE ScanTestsForRaise
  <2>1. NextAlarm \/ scan' = [scan EXCEPT !.at = "raising"]
    BY <1>3 DEF ScanTestsForRaise
  <2>2. TypeOK' /\ scan'.at \in {"evaluating", "waiting", "raising"}
    BY <1>3, <2>1, NextAlarmType DEF ScanTestsForRaise, TypeOK
  <2> QED
    BY <1>3, <2>2 DEF ScanTestsForRaise, OwedIsShown, NobodyIsAt, ScanIsRight
<1>4. CASE ScanRaises
  <2>1. scan' \in [at : {"evaluating", "waiting"}, alarm : Alarms]
        /\ scan'.at \in {"evaluating", "waiting"}
    BY <1>4, NextAlarmType DEF ScanRaises
  <2>2. TypeOK'
    BY <1>4, <2>1, <1>a DEF ScanRaises, TypeOK, States, Snapping
  <2>3. OwedIsShown'
    BY <1>4, <1>a DEF ScanRaises, TypeOK, OwedIsShown, Unacknowledged
  <2>4. NobodyIsAt'
    <3> SUFFICES ASSUME NEW w \in Workers, worker'[w].at \in Acknowledging
                 PROVE  worker'[w].alarm \notin owed'
      BY DEF NobodyIsAt
    <3>1. worker'[w] = worker[w]
      BY <1>4 DEF ScanRaises, TypeOK, Acknowledging
    <3>2. worker[w].at \in Acknowledging /\ worker[w].alarm \notin owed
      BY <3>1 DEF NobodyIsAt
    <3>3. CASE worker[w].alarm = scan.alarm
      <4>1. BeingAcknowledged(scan.alarm)
        BY <3>2, <3>3 DEF BeingAcknowledged
      <4> QED
        BY <1>4, <4>1, <3>1, <3>2 DEF ScanRaises
    <3>4. CASE worker[w].alarm # scan.alarm
      BY <1>4, <3>1, <3>2, <3>4 DEF ScanRaises
    <3> QED
      BY <3>3, <3>4
  <2>5. ScanIsRight'
    BY <2>1 DEF ScanIsRight
  <2> QED
    BY <2>2, <2>3, <2>4, <2>5
<1>5. CASE ScanTestsForActive
  <2>1. CASE state[scan.alarm] \in Active
    BY <1>5, <2>1, <1>a
    DEF ScanTestsForActive, TypeOK, OwedIsShown, NobodyIsAt, ScanIsRight, Active, Unacknowledged
  <2>2. CASE NextAlarm
    BY <1>5, <2>2, NextAlarmType
    DEF ScanTestsForActive, TypeOK, OwedIsShown, NobodyIsAt, ScanIsRight
  <2> QED
    BY <1>5, <2>1, <2>2 DEF ScanTestsForActive
<1>6. CASE ScanTestsForLatch
  BY <1>6, <1>a
  DEF ScanTestsForLatch, ScanAt, Returns, TypeOK, OwedIsShown, NobodyIsAt, ScanIsRight
<1>7. CASE ScanClears
  <2>1. scan' \in [at : {"evaluating", "waiting"}, alarm : Alarms]
        /\ scan'.at \in {"evaluating", "waiting"}
    BY <1>7, NextAlarmType DEF ScanClears
  <2>2. TypeOK'
    BY <1>7, <2>1, <1>a DEF ScanClears, TypeOK, States
  <2>3. OwedIsShown'
    BY <1>7, <1>a DEF ScanClears, TypeOK, OwedIsShown, ScanIsRight, Unacknowledged
  <2> QED
    BY <1>7, <2>1, <2>2, <2>3 DEF ScanClears, NobodyIsAt, ScanIsRight
<1> QED
  BY <1>1, <1>2, <1>3, <1>4, <1>5, <1>6, <1>7 DEF ScanSteps

-----------------------------------------------------------------------------
(* A worker that changes nothing but where it is, and is not thereby in    *)
(* the middle of acknowledging an owed alarm, keeps the invariant.         *)
LEMMA WorkerMoves ==
    ASSUME IInv, NEW w \in Workers,
           UNCHANGED <<state, met, scan, owed>>,
           lock' \in Workers \cup {None},
           worker' \in [Workers -> [at : Places, alarm : Alarms, all : BOOLEAN]],
           \A v \in Workers \ {w} : worker'[v] = worker[v],
           worker'[w].at \in Acknowledging => worker'[w].alarm \notin owed
    PROVE  IInv'
<1>1. TypeOK'
  BY DEF IInv, TypeOK, Places
<1>2. NobodyIsAt'
  BY DEF IInv, NobodyIsAt
<1> QED
  BY <1>1, <1>2 DEF IInv, OwedIsShown, ScanIsRight

(* Beginning to acknowledge an alarm ends what is owed of it.              *)
LEMMA BeginsToAcknowledge ==
    ASSUME IInv, NEW w \in Workers, NEW a \in Alarms, NEW each \in BOOLEAN,
           worker' = [worker EXCEPT ![w] = [at |-> "testing unack", alarm |-> a, all |-> each]],
           owed' = owed \ {a},
           UNCHANGED <<state, met, scan, lock>>
    PROVE  IInv'
<1>1. [at |-> "testing unack", alarm |-> a, all |-> each]
          \in [at : Places, alarm : Alarms, all : BOOLEAN]
  BY DEF Places, Acknowledging
<1>2. worker \in [Workers -> [at : Places, alarm : Alarms, all : BOOLEAN]]
  BY DEF IInv, TypeOK, Places
<1>3. worker' \in [Workers -> [at : Places, alarm : Alarms, all : BOOLEAN]]
  BY <1>1, <1>2
<1>4. TypeOK'
  BY <1>3 DEF IInv, TypeOK, Places
<1>5. worker'[w].alarm = a /\ \A v \in Workers \ {w} : worker'[v] = worker[v]
  BY <1>2
<1>6. NobodyIsAt'
  <2>a. a \notin owed' /\ owed' \subseteq owed
    OBVIOUS
  <2> SUFFICES ASSUME NEW v \in Workers, worker'[v].at \in Acknowledging
               PROVE  worker'[v].alarm \notin owed'
    BY DEF NobodyIsAt
  <2>1. CASE v = w
    BY <1>5, <2>1, <2>a
  <2>2. CASE v # w
    <3>1. worker[v].alarm \notin owed /\ worker'[v] = worker[v]
      BY <1>5, <2>2 DEF IInv, NobodyIsAt
    <3> QED
      BY <3>1, <2>a
  <2> QED
    BY <2>1, <2>2
<1> QED
  BY <1>4, <1>6 DEF IInv, OwedIsShown, ScanIsRight

(* Every step of a worker that is acknowledging keeps the invariant.       *)
LEMMA AcknowledgingInv ==
    ASSUME IInv, NEW w \in Workers,
           \/ \E a \in Alarms : AcknowledgeOne(w, a)
           \/ AcknowledgeAll(w) \/ Choose(w)
           \/ TestUnack(w) \/ TestReturn(w) \/ Acknowledge(w)
    PROVE  IInv'
<1>a. TypeOK /\ lock \in Workers \cup {None} /\ 1 \in Alarms
  <2>1. 1 \in 1..Count
    BY ServeAssumption
  <2> QED
    BY <2>1 DEF IInv, TypeOK
<1>b. worker \in [Workers -> [at : Places, alarm : Alarms, all : BOOLEAN]]
  BY DEF IInv, TypeOK, Places
<1>c. ASSUME Answered(w), UNCHANGED <<state, met, scan, lock, owed>>
      PROVE  IInv'
  <2>1. worker'[w].at \notin Acknowledging
    BY <1>a, <1>c, AnsweredType DEF Acknowledging
  <2>2. /\ worker' \in [Workers -> [at : Places, alarm : Alarms, all : BOOLEAN]]
        /\ \A v \in Workers \ {w} : worker'[v] = worker[v]
    BY <1>a, <1>c, AnsweredType DEF Places
  <2> QED
    BY <1>a, <1>c, <2>1, <2>2, WorkerMoves
<1>d. ASSUME NEW there \in Acknowledging, worker[w].at \in Acknowledging,
             worker' = [worker EXCEPT ![w].at = there],
             UNCHANGED <<state, met, scan, lock, owed>>
      PROVE  IInv'
  <2>1. there \in Places /\ worker[w].alarm \notin owed
    BY <1>d DEF Places, IInv, NobodyIsAt
  <2> QED
    BY <1>a, <1>d, <2>1, MovedType, WorkerMoves
<1>1. ASSUME NEW a \in Alarms, AcknowledgeOne(w, a)
      PROVE  IInv'
  BY <1>1, BeginsToAcknowledge DEF AcknowledgeOne
<1>2. CASE AcknowledgeAll(w)
  <2>1. /\ worker' = [worker EXCEPT ![w] = [at |-> "choosing", alarm |-> 1, all |-> TRUE]]
        /\ UNCHANGED <<state, met, scan, lock, owed>>
    BY <1>2 DEF AcknowledgeAll
  <2>2. [at |-> "choosing", alarm |-> 1, all |-> TRUE]
            \in [at : Places, alarm : Alarms, all : BOOLEAN]
    BY <1>a DEF Places
  <2>3. worker'[w].at \notin Acknowledging
    BY <1>b, <2>1 DEF Acknowledging
  <2> QED
    BY <1>a, <1>b, <2>1, <2>2, <2>3, WorkerMoves
<1>3. CASE Choose(w)
  <2>1. CASE state[worker[w].alarm] \in Unacknowledged
    <3>1. worker' = [worker EXCEPT ![w] = [at |-> "testing unack", alarm |-> worker[w].alarm,
                                           all |-> worker[w].all]]
      BY <1>b, <1>3, <2>1 DEF Choose
    <3>2. worker[w].alarm \in Alarms /\ worker[w].all \in BOOLEAN
      BY <1>b
    <3> QED
      BY <1>3, <2>1, <3>1, <3>2, BeginsToAcknowledge DEF Choose
  <2>2. CASE state[worker[w].alarm] \notin Unacknowledged
    BY <1>c, <1>3, <2>2 DEF Choose
  <2> QED
    BY <2>1, <2>2
<1>4. CASE TestUnack(w)
  BY <1>d, <1>4 DEF TestUnack, WorkerAt, Acknowledging
<1>5. CASE TestReturn(w)
  BY <1>c, <1>d, <1>5 DEF TestReturn, Acknowledging
<1>6. CASE Acknowledge(w)
  <2>1. Answered(w) /\ UNCHANGED <<met, scan, lock, owed>>
    BY <1>6 DEF Acknowledge
  <2>2. worker[w].alarm \in Alarms \ owed
    BY <1>b, <1>6 DEF Acknowledge, IInv, NobodyIsAt, Acknowledging
  <2>3. \A a \in Alarms \ {worker[w].alarm} : state'[a] = state[a]
    BY <1>a, <1>6 DEF Acknowledge, TypeOK
  <2>4. state' \in [Alarms -> States]
    BY <1>a, <1>6, <2>2 DEF Acknowledge, TypeOK, States
  <2>5. TypeOK'
    BY <1>a, <2>1, <2>4, AnsweredType DEF TypeOK
  <2>6. owed \subseteq Alarms
    BY <1>a, ServeAssumption DEF TypeOK
  <2>7. OwedIsShown' /\ ScanIsRight'
    BY <2>1, <2>2, <2>3, <2>6 DEF IInv, OwedIsShown, ScanIsRight
  <2>8. NobodyIsAt'
    BY <1>a, <2>1, AnsweredType DEF IInv, NobodyIsAt, Acknowledging
  <2> QED
    BY <2>5, <2>7, <2>8 DEF IInv
<1> QED
  BY <1>1, <1>2, <1>3, <1>4, <1>5, <1>6

(* Every step of a worker that takes a snapshot keeps the invariant.       *)
LEMMA SnapshotInv ==
    ASSUME IInv, NEW w \in Workers,
           \/ AskForSnapshot(w) \/ TakeLock(w) \/ CountRaises(w)
           \/ LookForWorst(w) \/ NameWorst(w) \/ SnapshotFails(w)
    PROVE  IInv'
<1>1. UNCHANGED <<state, met, scan, owed>> /\ lock' \in Workers \cup {None}
  BY DEF AskForSnapshot, TakeLock, CountRaises, LookForWorst, NameWorst, SnapshotFails,
         WorkerAt, Released, IInv, TypeOK
<1>2. PICK there \in {"idle", "waiting", "failing"} \cup Snapping :
          worker' = [worker EXCEPT ![w].at = there]
  BY DEF AskForSnapshot, TakeLock, CountRaises, LookForWorst, NameWorst, SnapshotFails,
         WorkerAt, Snapping
<1>3. there \in Places \ Acknowledging
  BY DEF Places, Snapping, Acknowledging
<1>4. TypeOK
  BY DEF IInv
<1> QED
  BY <1>1, <1>2, <1>3, <1>4, MovedType, WorkerMoves

LEMMA StutterInv == IInv /\ UNCHANGED vars => IInv'
BY DEF IInv, vars, TypeOK, OwedIsShown, NobodyIsAt, ScanIsRight

LEMMA NextInv == IInv /\ [Next]_vars => IInv'
<1> SUFFICES ASSUME IInv, [Next]_vars PROVE IInv'
  OBVIOUS
<1>1. CASE ScanSteps
  BY <1>1, ScanInv
<1>2. ASSUME NEW w \in Workers, WorkerSteps(w) \/ Requests(w)
      PROVE  IInv'
  BY <1>2, AcknowledgingInv, SnapshotInv DEF WorkerSteps, Requests
<1>3. CASE UNCHANGED vars
  BY <1>3, StutterInv
<1> QED
  BY <1>1, <1>2, <1>3 DEF Next

-----------------------------------------------------------------------------
(* The threads of the serve command keep the types of what they share.     *)
THEOREM TypeCorrect == Spec => []TypeOK
<1>1. IInv => TypeOK
  BY DEF IInv
<1> QED
  BY <1>1, InitInv, NextInv, PTL DEF Spec

(* Whatever the order in which scans and acknowledgements read and write   *)
(* the state of an alarm (alarms.py 308-367, 434-454), a latched alarm     *)
(* raised while nobody was acknowledging it stays on the list and          *)
(* unacknowledged until somebody begins to acknowledge it.                 *)
THEOREM OwedStaysShown == Spec => []OwedIsShown
<1>1. IInv => OwedIsShown
  BY DEF IInv
<1> QED
  BY <1>1, InitInv, NextInv, PTL DEF Spec
=============================================================================
