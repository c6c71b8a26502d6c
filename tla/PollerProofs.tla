---------------------------- MODULE PollerProofs ----------------------------
(***************************************************************************)
(* Theorems about the scan loop, for every set of groups and devices,      *)
(* every period, backoff and bound.                                        *)
(***************************************************************************)
EXTENDS Poller, FiniteSetTheorems, TLAPS

Places == {"idle", "loop", "polling", "waiting", "asleep"}

(* The loop takes a list.                                                  *)
Takes ==
    /\ pc # "polling" /\ pc' = "polling"
    /\ todo' = DueGroups
    /\ deadline' \in Nat
    /\ UNCHANGED <<now, line, table, scan>>

(* The loop moves without taking a list, or nothing happens.               *)
Moves ==
    /\ pc' \in Places
    /\ pc' = pc \/ (pc' # "polling" /\ (pc = "polling" => todo = {} /\ ~Scanning))
    /\ deadline' \in Nat
    /\ UNCHANGED <<now, line, table, todo, scan>>

(* The loop holds a list and a scan only while it is polling.              *)
LoopInv == pc # "polling" => todo = {} /\ ~Scanning

(* Nothing lies in the future.                                             *)
ClockInv ==
    /\ \A g \in Groups : lastStart[g] <= now
    /\ \A d \in Devices : since[d] <= now
    /\ Scanning => scan.started = lastStart[scan.group]

(* A group that is not due has seen no scan go before it.  One that came   *)
(* due after the list was taken has seen at most the list, once; one that  *)
(* is in the list may have seen the list before it as well.                *)
TurnInv ==
    \A g, h \in Groups :
        /\ ~Due(g) \/ InScan(g) => turns[g][h] = 0
        /\ turns[g][h] <= 2
        /\ g \in todo /\ h \in todo => turns[g][h] <= 1
        /\ g \notin todo => turns[g][h] <= 1
        /\ g \notin todo /\ h \in todo => turns[g][h] = 0

(* What the scan has read so far was read in it.                           *)
ScanIsFresh ==
    Scanning => \A d \in DevicesOf[scan.group] \ scan.left :
                    scan.readings[d].at >= scan.started

(* The retry of a device that is back is no further off than the longest   *)
(* backoff.                                                                *)
RetryInv ==
    /\ \A d \in Devices : health[d].retryAt <= now + MaxBackoff
    /\ \A d \in Drivers :
          link[d] = "up" => conn[d] \/ health[d].retryAt <= since[d] + MaxBackoff

(* What the scan has read so far of devices that are back is GOOD.         *)
ScanRecovers ==
    Scanning => \A d \in (DevicesOf[scan.group] \cap Drivers) \ scan.left :
                    link[d] = "up" /\ scan.started >= since[d] + MaxBackoff
                        => scan.readings[d].good

(* The health record counts the failures in a row, and waits from the last.*)
LossInv ==
    \A d \in Drivers :
        /\ health[d].failures = losses[d].count
        /\ losses[d].count > 0 =>
              ~conn[d] /\ health[d].retryAt = losses[d].at + Backoff(losses[d].count)

Driverless == \A d \in Devices \ Drivers : ~conn[d]

-----------------------------------------------------------------------------
(* Backoff, phases and slots                                               *)

(* A backoff is a time no longer than the longest.                         *)
LEMMA BackoffBounded ==
    ASSUME NEW n \in Nat
    PROVE  Backoff(n) \in Int /\ Backoff(n) <= MaxBackoff
<1>1. BaseBackoff \in Nat /\ MaxBackoff \in Nat
  BY PollerAssumption
<1>2. CASE n = 0
  BY <1>1, <1>2 DEF Backoff
<1>3. CASE n # 0
  <2> DEFINE p == 2 ^ (n - 1)
  <2>1. n - 1 \in Nat
    BY <1>3
  <2>2. p \in Int
    BY <2>1
  <2> HIDE DEF p
  <2>3. BaseBackoff * p \in Int
    BY <1>1, <2>2
  <2>4. Backoff(n) = IF BaseBackoff * p < MaxBackoff THEN BaseBackoff * p ELSE MaxBackoff
    BY <1>3 DEF Backoff, p
  <2>5. QED
    BY <1>1, <2>3, <2>4
<1>4. QED
  BY <1>2, <1>3

(* A phase is a time.                                                      *)
LEMMA PhaseIsTime ==
    ASSUME NEW g \in Groups
    PROVE  Phase(g) \in Nat
<1> DEFINE B == Bucket(g)
           L == {h \in Bucket(g) : h < g}
<1>1. Period[g] \in Nat \ {0} /\ IsFiniteSet(Groups)
  BY PollerAssumption
<1>2. B \subseteq Groups /\ L \subseteq Groups /\ g \in B
  BY DEF Bucket
<1>3. IsFiniteSet(B) /\ IsFiniteSet(L)
  BY <1>1, <1>2, FS_Subset
<1>4. Cardinality(B) \in Nat /\ Cardinality(L) \in Nat
  BY <1>3, FS_CardinalityType
<1>5. Cardinality(B) # 0
  BY <1>2, <1>3, FS_EmptySet
<1> DEFINE b == Cardinality(B)
           l == Cardinality(L)
<1>6. Phase(g) = IF Stagger THEN (Period[g] * l) \div b ELSE 0
  BY DEF Phase
<1>7. b \in Nat \ {0} /\ l \in Nat
  BY <1>4, <1>5
<1> HIDE DEF b, l
<1>8. Period[g] * l \in Nat
  BY <1>1, <1>7
<1>9. (Period[g] * l) \div b \in Nat
  BY <1>7, <1>8
<1>10. QED
  BY <1>6, <1>9

(* s is the first slot after due that is not before finished.              *)
IsNextSlot(s, due, period, finished) ==
    /\ s \in Nat
    /\ s > due /\ s >= finished
    /\ s - period = due \/ s - period < finished
    /\ \E m \in Nat : s = due + m * period

(* What poll_group schedules is the next slot.                             *)
LEMMA SlotIsNext ==
    ASSUME NEW due \in Nat, NEW period \in Nat \ {0}, NEW finished \in Nat
    PROVE  IsNextSlot(Slot(due, period, finished), due, period, finished)
<1> DEFINE s == Slot(due, period, finished)
<1>1. CASE due + period <= finished
  <2> DEFINE c == CeilDiv(finished - (due + period), period)
             r == c * period
  <2>1. finished - (due + period) \in Nat
    BY <1>1
  <2>2. c \in Nat
    BY <2>1 DEF CeilDiv
  <2>3. r >= finished - (due + period) /\ r < finished - (due + period) + period
    BY <2>1, Z3 DEF CeilDiv
  <2>4. s = due + period + r
    BY <1>1 DEF Slot
  <2> HIDE DEF c
  <2>5. r \in Nat
    BY <2>2
  <2>6. (c + 1) * period = r + period
    BY <2>2
  <2> HIDE DEF r, s
  <2>7. s = due + (c + 1) * period /\ c + 1 \in Nat
    BY <2>2, <2>4, <2>5, <2>6
  <2>8. s \in Nat /\ s > due /\ s >= finished /\ s - period < finished
    BY <2>3, <2>4, <2>5
  <2>9. QED
    BY <2>7, <2>8 DEF IsNextSlot, s
<1>2. CASE ~(due + period <= finished)
  <2>1. s = due + period
    BY <1>2 DEF Slot
  <2>2. s = due + 1 * period
    BY <2>1
  <2>3. s \in Nat /\ s > due /\ s >= finished /\ s - period = due
    BY <1>2, <2>1
  <2>4. QED
    BY <2>2, <2>3 DEF IsNextSlot
<1>3. QED
  BY <1>1, <1>2

-----------------------------------------------------------------------------
(* The steps, sorted by what they touch                                    *)

(* A step polls a device, begins or ends a scan, takes a list, moves the   *)
(* loop, changes a link, or lets time pass.                                *)
LEMMA StepKinds ==
    ASSUME TypeOK, [Next]_vars
    PROVE  \/ \E d \in Devices : PollDevice(d)
           \/ \E g \in Groups : StartScan(g)
           \/ FinishScan
           \/ Takes
           \/ Moves
           \/ \E d \in Drivers, l \in Links : LinkChanges(d, l)
           \/ Tick
<1>0. pc \in Places /\ now \in Nat /\ deadline \in Nat /\ Durations \subseteq Nat
  BY PollerAssumption DEF TypeOK, Places
<1>1. CASE PollOnce \/ TakeDue
  BY <1>0, <1>1 DEF PollOnce, TakeDue, Takes, Taken
<1>2. CASE NothingDue \/ AllPolled \/ GiveUp \/ Sleep \/ Wake \/ Return
  BY <1>0, <1>2 DEF NothingDue, AllPolled, GiveUp, Sleep, Wake, Return, Moves, Places
<1>3. CASE \E t \in Durations : Run(t)
  BY <1>0, <1>3 DEF Run, Moves, Places
<1>4. CASE UNCHANGED vars
  BY <1>0, <1>4 DEF vars, loop, Moves, Places
<1>5. QED
  BY <1>1, <1>2, <1>3, <1>4 DEF Next, Loop

(* Polling a device leaves the groups, the loop and the clock alone.       *)
LEMMA PollingFrame ==
    ASSUME NEW d \in Devices, PollDevice(d)
    PROVE  /\ UNCHANGED <<now, table, loop>>
           /\ OnTurn(d)
           /\ \E good \in BOOLEAN : Noted(d, good)
BY DEF PollDevice, NoDriver, LeaveAlone, ConnectFails, Connected, ReadGood, ReadBad, ReadFails

(* The fields of a scan.                                                   *)
LEMMA ScanFields ==
    ASSUME TypeOK, Scanning
    PROVE  /\ scan.group \in Groups /\ scan.started \in Nat
           /\ scan.left \subseteq DevicesOf[scan.group]
           /\ scan.readings \in [DevicesOf[scan.group] -> Reading]
           /\ scan = [group |-> scan.group, started |-> scan.started,
                      left |-> scan.left, readings |-> scan.readings]
BY DEF TypeOK, Scanning, NoScan, ScanOf

(* What polling a device does to the scan.                                 *)
LEMMA NotedFields ==
    ASSUME TypeOK, Scanning, NEW d \in scan.left, NEW good \in BOOLEAN, Noted(d, good)
    PROVE  /\ scan'.group = scan.group /\ scan'.started = scan.started
           /\ scan'.left = scan.left \ {d}
           /\ scan'.readings \in [DevicesOf[scan.group] -> Reading]
           /\ \A e \in DevicesOf[scan.group] \ {d} : scan'.readings[e] = scan.readings[e]
           /\ scan'.readings[d].good = good
           /\ scan'.readings[d].at = IF good THEN now ELSE scan.started
           /\ scan' \in ScanOf(scan.group)
           /\ Scanning'
<1>1. /\ scan.group \in Groups /\ scan.started \in Nat /\ now \in Nat
      /\ scan.left \subseteq DevicesOf[scan.group]
      /\ scan.readings \in [DevicesOf[scan.group] -> Reading]
      /\ scan = [group |-> scan.group, started |-> scan.started,
                 left |-> scan.left, readings |-> scan.readings]
  BY ScanFields DEF TypeOK
<1> DEFINE r == [good |-> good, at |-> IF good THEN now ELSE scan.started]
<1>2. r \in Reading
  BY <1>1 DEF Reading
<1>3. scan' = [group |-> scan.group, started |-> scan.started, left |-> scan.left \ {d},
               readings |-> [scan.readings EXCEPT ![d] = r]]
  BY <1>1 DEF Noted
<1>4. d \in DevicesOf[scan.group]
  BY <1>1
<1>5. [scan.readings EXCEPT ![d] = r] \in [DevicesOf[scan.group] -> Reading]
  BY <1>1, <1>2
<1>6. scan'.readings[d] = r
  BY <1>1, <1>3, <1>4
<1>7. \A e \in DevicesOf[scan.group] \ {d} : scan'.readings[e] = scan.readings[e]
  BY <1>1, <1>3
<1>8. /\ scan'.group = scan.group /\ scan'.started = scan.started
      /\ scan'.left = scan.left \ {d}
      /\ scan'.readings = [scan.readings EXCEPT ![d] = r]
  BY <1>3
<1>9. Scanning'
  BY <1>1, <1>8, PollerAssumption DEF Scanning
<1>10. scan' \in ScanOf(scan.group)
  BY <1>1, <1>3, <1>5 DEF ScanOf
<1>11. QED
  BY <1>5, <1>6, <1>7, <1>8, <1>9, <1>10

-----------------------------------------------------------------------------
(* Types                                                                   *)

LEMMA TypeInit == Init => TypeOK
<1> SUFFICES ASSUME Init PROVE TypeOK
  OBVIOUS
<1>1. nextDue \in [Groups -> Nat]
  BY PhaseIsTime DEF Init
<1>2. \A g \in Groups : values[g] \in [DevicesOf[g] -> Reading]
  BY DEF Init, Reading
<1>3. health \in [Devices -> Health] /\ losses \in [Devices -> Loss]
  BY DEF Init, Health, Loss
<1>4. QED
  BY <1>1, <1>2, <1>3 DEF Init, TypeOK, Links

(* Polling a device keeps the types of the device's state.                 *)
LEMMA PollingTypes ==
    ASSUME TypeOK, NEW d \in Devices, PollDevice(d)
    PROVE  /\ link' \in [Devices -> Links] /\ changes' \in Nat
           /\ conn' \in [Devices -> BOOLEAN]
           /\ health' \in [Devices -> Health]
           /\ since' \in [Devices -> Nat]
           /\ losses' \in [Devices -> Loss]
<1>1. /\ now \in Nat /\ link \in [Devices -> Links] /\ changes \in Nat
      /\ conn \in [Devices -> BOOLEAN] /\ health \in [Devices -> Health]
      /\ since \in [Devices -> Nat] /\ losses \in [Devices -> Loss]
  BY DEF TypeOK
<1>2. scan.started \in Nat
  BY PollingFrame, ScanFields DEF OnTurn
<1>3. \A h \in Health, t \in Nat : Failure(h, t) \in Health /\ Success(t) \in Health
  <2> SUFFICES ASSUME NEW h \in Health, NEW t \in Nat
               PROVE  Failure(h, t) \in Health /\ Success(t) \in Health
    OBVIOUS
  <2>1. h.failures + 1 \in Nat
    BY DEF Health
  <2>2. t + Backoff(h.failures + 1) \in Int
    BY <2>1, BackoffBounded
  <2>3. QED
    BY <2>1, <2>2 DEF Health, Failure, Success
<1>4. \A n, t \in Nat : Failed(d, n, t) => losses' \in [Devices -> Loss]
  BY <1>1 DEF Failed, Loss
<1>5. losses[d].count + 1 \in Nat
  BY <1>1 DEF Loss
<1>6. health[d] \in Health /\ "up" \in Links
  BY <1>1 DEF Links
<1>7. CASE NoDriver(d)
  BY <1>1, <1>2, <1>3, <1>6, <1>7 DEF NoDriver
<1>8. CASE LeaveAlone(d)
  BY <1>1, <1>8 DEF LeaveAlone, line
<1>9. CASE ConnectFails(d)
  BY <1>1, <1>2, <1>3, <1>4, <1>5, <1>6, <1>9 DEF ConnectFails
<1>10. CASE ReadGood(d)
  BY <1>1, <1>2, <1>3, <1>4, <1>6, <1>10 DEF ReadGood
<1>11. CASE ReadBad(d)
  BY <1>1, <1>2, <1>3, <1>4, <1>6, <1>11 DEF ReadBad
<1>12. CASE ReadFails(d)
  <2>1. (IF conn[d] THEN health[d] ELSE Success(scan.started)) \in Health
    BY <1>2, <1>3, <1>6
  <2>2. health' \in [Devices -> Health]
    BY <1>1, <1>3, <1>12, <2>1 DEF ReadFails
  <2>3. QED
    BY <1>1, <1>4, <1>12, <2>2 DEF ReadFails
<1>13. QED
  BY <1>7, <1>8, <1>9, <1>10, <1>11, <1>12 DEF PollDevice

LEMMA TypeStep == TypeOK /\ [Next]_vars => TypeOK'
<1> SUFFICES ASSUME TypeOK, [Next]_vars PROVE TypeOK'
  OBVIOUS
<1> USE DEF TypeOK
<1>1. CASE \E d \in Devices : PollDevice(d)
  <2>1. PICK d \in Devices : PollDevice(d)
    BY <1>1
  <2>2. UNCHANGED <<now, table, loop>> /\ OnTurn(d)
    BY <2>1, PollingFrame
  <2>3. PICK good \in BOOLEAN : Noted(d, good)
    BY <2>1, PollingFrame
  <2>4. scan' \in ScanOf(scan.group) /\ scan.group \in Groups
    BY <2>2, <2>3, NotedFields, ScanFields DEF OnTurn
  <2>5. QED
    BY <2>1, <2>2, <2>4, PollingTypes DEF table, loop
<1>2. CASE \E g \in Groups : StartScan(g)
  <2>1. PICK g \in Groups : StartScan(g)
    BY <1>2
  <2>2. scan' \in ScanOf(g)
    BY <2>1 DEF StartScan, ScanOf
  <2>3. turns' \in [Groups -> [Groups -> Nat]]
    <3>1. turns \in [Groups -> [Groups -> Nat]]
      OBVIOUS
    <3>2. \A h \in Groups :
             (IF h = g THEN [k \in Groups |-> 0]
              ELSE IF Due(h) THEN [turns[h] EXCEPT ![g] = @ + 1]
              ELSE turns[h]) \in [Groups -> Nat]
      BY <3>1
    <3>3. QED
      BY <2>1, <3>2 DEF StartScan
  <2>4. lastStart' \in [Groups -> Nat]
    BY <2>1 DEF StartScan
  <2>5. QED
    BY <2>1, <2>2, <2>3, <2>4 DEF StartScan, line
<1>3. CASE FinishScan
  <2>1. scan.group \in Groups /\ scan.readings \in [DevicesOf[scan.group] -> Reading]
    BY <1>3, ScanFields DEF FinishScan
  <2>2. Slot(nextDue[scan.group], Period[scan.group], now) \in Nat
    BY <2>1, SlotIsNext, PollerAssumption DEF IsNextSlot
  <2>3. nextDue' \in [Groups -> Nat]
    BY <1>3, <2>1, <2>2 DEF FinishScan
  <2>4. \A g \in Groups : values'[g] \in [DevicesOf[g] -> Reading]
    BY <1>3, <2>1 DEF FinishScan
  <2>5. QED
    BY <1>3, <2>3, <2>4 DEF FinishScan, line, loop
<1>4. CASE Takes
  BY <1>4 DEF Takes, line, table, DueGroups
<1>5. CASE Moves
  BY <1>5 DEF Moves, line, table, Places
<1>6. CASE \E d \in Drivers, l \in Links : LinkChanges(d, l)
  BY <1>6, PollerAssumption DEF LinkChanges, table, loop
<1>7. CASE Tick
  BY <1>7 DEF Tick, line, table, loop
<1>8. QED
  BY <1>1, <1>2, <1>3, <1>4, <1>5, <1>6, <1>7, StepKinds

(* The scan loop's state keeps its shape.                                  *)
THEOREM TypeCorrect == Spec => []TypeOK
BY TypeInit, TypeStep, PTL DEF Spec

-----------------------------------------------------------------------------
(* The clock and the loop                                                  *)

Base == TypeOK /\ LoopInv /\ ClockInv

LEMMA BaseStep == Base /\ [Next]_vars => Base'
<1> SUFFICES ASSUME Base, [Next]_vars PROVE LoopInv' /\ ClockInv'
  BY TypeStep DEF Base
<1>0. /\ TypeOK /\ now \in Nat /\ lastStart \in [Groups -> Nat] /\ since \in [Devices -> Nat]
      /\ Drivers \subseteq Devices
  BY PollerAssumption DEF Base, TypeOK
<1>1. CASE \E d \in Devices : PollDevice(d)
  <2>1. PICK d \in Devices : PollDevice(d)
    BY <1>1
  <2>2. UNCHANGED <<now, table, loop>> /\ Scanning /\ d \in scan.left
    BY <2>1, PollingFrame DEF OnTurn
  <2>3. PICK good \in BOOLEAN : Noted(d, good)
    BY <2>1, PollingFrame
  <2>4. scan'.group = scan.group /\ scan'.started = scan.started /\ Scanning'
    BY <1>0, <2>2, <2>3, NotedFields
  <2>5. since' = since \/ since' = [since EXCEPT ![d] = now]
    BY <2>1 DEF PollDevice, NoDriver, LeaveAlone, ConnectFails, ReadGood, ReadBad,
                ReadFails, line
  <2>6. \A e \in Devices : since'[e] <= now
    BY <1>0, <2>5 DEF Base, ClockInv
  <2>7. QED
    BY <2>2, <2>4, <2>6 DEF Base, LoopInv, ClockInv, table, loop
<1>2. CASE \E g \in Groups : StartScan(g)
  <2>1. PICK g \in Groups : StartScan(g)
    BY <1>2
  <2>2. \A h \in Groups : lastStart'[h] <= now
    BY <1>0, <2>1 DEF StartScan, Base, ClockInv
  <2>3. scan'.started = lastStart'[scan'.group]
    BY <1>0, <2>1 DEF StartScan
  <2>4. QED
    BY <2>1, <2>2, <2>3 DEF StartScan, line, Base, LoopInv, ClockInv
<1>3. CASE FinishScan
  <2>1. ~Scanning' /\ UNCHANGED <<now, line, lastStart, turns, loop>>
    BY <1>3 DEF FinishScan, Scanning, NoScan
  <2>2. QED
    BY <2>1 DEF Base, LoopInv, ClockInv, line, loop
<1>4. CASE Takes
  BY <1>4 DEF Takes, Base, LoopInv, ClockInv, Scanning, line, table
<1>5. CASE Moves
  BY <1>5 DEF Moves, Base, LoopInv, ClockInv, Scanning, line, table
<1>6. CASE \E d \in Drivers, l \in Links : LinkChanges(d, l)
  BY <1>0, <1>6 DEF LinkChanges, Base, LoopInv, ClockInv, Scanning, table, loop
<1>7. CASE Tick
  BY <1>0, <1>7 DEF Tick, Base, LoopInv, ClockInv, Scanning, line, table, loop
<1>8. QED
  BY <1>0, <1>1, <1>2, <1>3, <1>4, <1>5, <1>6, <1>7, StepKinds

LEMMA BaseInit == Init => Base
BY TypeInit DEF Init, Base, LoopInv, ClockInv, Scanning, NoScan

LEMMA BaseHolds == Spec => []Base
BY BaseInit, BaseStep, PTL DEF Spec

-----------------------------------------------------------------------------
(* The grid                                                                *)

(* A scan ends in one way, and its group is due at the next slot.          *)
LEMMA ScanEnds ==
    ASSUME TypeOK, [Next]_vars, NEW g \in Groups
    PROVE  /\ nextDue'[g] # nextDue[g] \/ (InScan(g) /\ ~InScan(g)') =>
                 FinishScan /\ InScan(g)
           /\ FinishScan /\ InScan(g) =>
                 IsNextSlot(nextDue'[g], nextDue[g], Period[g], now)
<1>0. None \notin Groups /\ Period \in [Groups -> Nat \ {0}]
      /\ nextDue \in [Groups -> Nat] /\ now \in Nat
  BY PollerAssumption DEF TypeOK
<1>1. CASE \E d \in Devices : PollDevice(d)
  <2>1. PICK d \in Devices : PollDevice(d)
    BY <1>1
  <2>2. UNCHANGED <<now, table, loop>> /\ Scanning /\ d \in scan.left
    BY <2>1, PollingFrame DEF OnTurn
  <2>3. PICK good \in BOOLEAN : Noted(d, good)
    BY <2>1, PollingFrame
  <2>4. scan'.group = scan.group
    BY <2>2, <2>3, NotedFields
  <2>5. ~FinishScan
    BY <2>2 DEF FinishScan
  <2>6. QED
    BY <2>2, <2>4, <2>5 DEF InScan, table
<1>2. CASE \E h \in Groups : StartScan(h)
  BY <1>0, <1>2 DEF StartScan, FinishScan, InScan, Scanning
<1>3. CASE FinishScan
  <2>1. nextDue' = [nextDue EXCEPT ![scan.group] =
                      Slot(@, Period[scan.group], now)]
    BY <1>3 DEF FinishScan
  <2>2. InScan(g) => nextDue'[g] = Slot(nextDue[g], Period[g], now)
    BY <1>0, <2>1 DEF InScan
  <2>3. nextDue'[g] # nextDue[g] => InScan(g)
    BY <1>0, <2>1 DEF InScan
  <2>4. QED
    BY <1>0, <1>3, <2>2, <2>3, SlotIsNext
<1>4. CASE Takes
  BY <1>4, <1>0 DEF Takes, InScan, table, FinishScan, LoopInv, Scanning, NoScan
<1>5. CASE Moves
  BY <1>5, <1>0 DEF Moves, InScan, table, FinishScan, Scanning, NoScan
<1>6. CASE \E d \in Drivers, l \in Links : LinkChanges(d, l)
  BY <1>6, <1>0 DEF LinkChanges, InScan, table, FinishScan, Scanning, NoScan
<1>7. CASE Tick
  BY <1>7, <1>0 DEF Tick, InScan, table, FinishScan, Scanning, NoScan
<1>8. QED
  BY <1>1, <1>2, <1>3, <1>4, <1>5, <1>6, <1>7, StepKinds

(* A time on the grid is no more slots from its start than its value.      *)
LEMMA SlotCount ==
    ASSUME NEW k \in Nat, NEW period \in Nat \ {0}, NEW phase \in Nat
    PROVE  k \in 0 .. (phase + k * period)
<1>1. k * period >= k
  <2>1. PICK q \in Nat : period = q + 1
    BY period - 1 \in Nat
  <2>2. k * period = k * q + k /\ k * q \in Nat
    BY <2>1
  <2>3. QED
    BY <2>2
<1>2. k * period \in Nat
  OBVIOUS
<1>3. QED
  BY <1>1, <1>2

LEMMA GridStep == TypeOK /\ OnTheGrid /\ [Next]_vars => OnTheGrid'
<1> SUFFICES ASSUME TypeOK, OnTheGrid, [Next]_vars, NEW g \in Groups
             PROVE  \E k \in 0 .. nextDue'[g] : nextDue'[g] = Phase(g) + k * Period[g]
  BY DEF OnTheGrid, Phase, Bucket
<1>0. Period[g] \in Nat \ {0} /\ Phase(g) \in Nat /\ nextDue[g] \in Nat
  BY PollerAssumption, PhaseIsTime DEF TypeOK
<1>1. PICK k \in 0 .. nextDue[g] : nextDue[g] = Phase(g) + k * Period[g]
  BY DEF OnTheGrid
<1>2. CASE nextDue'[g] = nextDue[g]
  BY <1>1, <1>2
<1>3. CASE nextDue'[g] # nextDue[g]
  <2>1. IsNextSlot(nextDue'[g], nextDue[g], Period[g], now)
    BY <1>3, ScanEnds
  <2>2. PICK m \in Nat : nextDue'[g] = nextDue[g] + m * Period[g]
    BY <2>1 DEF IsNextSlot
  <2> DEFINE p == Period[g]
             f == Phase(g)
  <2>3. k \in Nat /\ p \in Nat \ {0} /\ f \in Nat
    BY <1>0, <1>1
  <2>4. nextDue'[g] = f + k * p + m * p
    BY <1>1, <2>2
  <2> HIDE DEF p, f
  <2>5. f + k * p + m * p = f + (k + m) * p
    BY <2>3
  <2>6. nextDue'[g] = f + (k + m) * p /\ k + m \in Nat
    BY <2>3, <2>4, <2>5
  <2>7. k + m \in 0 .. nextDue'[g]
    BY <2>3, <2>6, SlotCount
  <2>8. QED
    BY <2>6, <2>7 DEF p, f
<1>4. QED
  BY <1>2, <1>3

LEMMA GridInit == Init => OnTheGrid
<1> SUFFICES ASSUME Init, NEW g \in Groups
             PROVE  \E k \in 0 .. nextDue[g] : nextDue[g] = Phase(g) + k * Period[g]
  BY DEF OnTheGrid
<1>1. nextDue[g] = Phase(g) /\ Phase(g) \in Nat /\ Period[g] \in Nat
  BY PhaseIsTime, PollerAssumption DEF Init
<1>2. 0 \in 0 .. nextDue[g] /\ nextDue[g] = Phase(g) + 0 * Period[g]
  BY <1>1
<1>3. QED
  BY <1>2

(* A group's due times are on its grid for good: late scans and long ones  *)
(* do not drift it.                                                        *)
THEOREM GridIsKept == Spec => []OnTheGrid
BY GridInit, GridStep, TypeCorrect, PTL DEF Spec

(* However late a scan ends, its group is due next at the first slot that  *)
(* is not past: no backlog, and no slot skipped for nothing.               *)
THEOREM PastSlotsAreSkipped == Spec => SkipsPastSlots
<1>1. TypeOK /\ [Next]_vars =>
        [\A g \in Groups : InScan(g) /\ ~InScan(g)' =>
           /\ nextDue'[g] > nextDue[g] /\ nextDue'[g] >= now
           /\ nextDue'[g] - Period[g] = nextDue[g] \/ nextDue'[g] - Period[g] < now]_vars
  BY ScanEnds DEF IsNextSlot
<1>2. QED
  BY <1>1, TypeCorrect, PTL DEF Spec, SkipsPastSlots

-----------------------------------------------------------------------------
(* Turns                                                                   *)

LEMMA TurnInit == Init => TurnInv
BY DEF Init, TurnInv

LEMMA TurnStep == Base /\ TurnInv /\ [Next]_vars => TurnInv'
<1> SUFFICES ASSUME Base, TurnInv, [Next]_vars,
                    NEW g \in Groups, NEW h \in Groups
             PROVE  /\ ~Due(g)' \/ InScan(g)' => turns'[g][h] = 0
                    /\ turns'[g][h] <= 2
                    /\ g \in todo' /\ h \in todo' => turns'[g][h] <= 1
                    /\ g \notin todo' => turns'[g][h] <= 1
                    /\ g \notin todo' /\ h \in todo' => turns'[g][h] = 0
  BY DEF TurnInv
<1>0. /\ TypeOK /\ turns \in [Groups -> [Groups -> Nat]] /\ todo \subseteq Groups
      /\ now \in Nat /\ nextDue \in [Groups -> Nat] /\ None \notin Groups
  BY PollerAssumption DEF Base, TypeOK
<1>1. /\ ~Due(g) \/ InScan(g) => turns[g][h] = 0
      /\ turns[g][h] <= 2
      /\ g \in todo /\ h \in todo => turns[g][h] <= 1
      /\ g \notin todo => turns[g][h] <= 1
      /\ g \notin todo /\ h \in todo => turns[g][h] = 0
  BY DEF TurnInv
<1>2. CASE \E d \in Devices : PollDevice(d)
  <2>1. PICK d \in Devices : PollDevice(d)
    BY <1>2
  <2>2. UNCHANGED <<now, table, loop>> /\ Scanning /\ d \in scan.left
    BY <2>1, PollingFrame DEF OnTurn
  <2>3. PICK good \in BOOLEAN : Noted(d, good)
    BY <2>1, PollingFrame
  <2>4. scan'.group = scan.group
    BY <1>0, <2>2, <2>3, NotedFields
  <2>5. QED
    BY <1>1, <2>2, <2>4 DEF table, loop, Due, InScan
<1>3. CASE \E k \in Groups : StartScan(k)
  <2>1. PICK k \in Groups : StartScan(k)
    BY <1>3
  <2>2. /\ k \in todo /\ todo' = todo \ {k} /\ nextDue' = nextDue /\ now' = now
        /\ scan'.group = k
    BY <2>1 DEF StartScan
  <2>3. turns'[g] = IF g = k THEN [j \in Groups |-> 0]
                    ELSE IF Due(g) THEN [turns[g] EXCEPT ![k] = @ + 1]
                    ELSE turns[g]
    BY <2>1 DEF StartScan
  <2>4. CASE g = k
    BY <2>2, <2>3, <2>4
  <2>5. CASE g # k /\ ~Due(g)
    BY <1>0, <1>1, <2>2, <2>3, <2>5 DEF Due, InScan
  <2>6. CASE g # k /\ Due(g) /\ h # k
    <3>1. turns'[g][h] = turns[g][h]
      BY <1>0, <2>3, <2>6
    <3>2. QED
      BY <1>1, <2>2, <2>6, <3>1 DEF Due, InScan
  <2>7. CASE g # k /\ Due(g) /\ h = k
    <3>1. turns'[g][h] = turns[g][h] + 1 /\ turns[g][h] \in Nat
      BY <1>0, <2>3, <2>7
    <3>2. Due(g)' /\ ~InScan(g)'
      BY <2>2, <2>7 DEF Due, InScan
    <3>3. QED
      BY <1>1, <2>2, <2>7, <3>1, <3>2
  <2>8. QED
    BY <2>4, <2>5, <2>6, <2>7
<1>4. CASE FinishScan
  <2>1. /\ UNCHANGED <<now, turns, todo>> /\ ~InScan(g)'
    BY <1>0, <1>4 DEF FinishScan, loop, InScan, NoScan
  <2>2. CASE InScan(g)
    BY <1>0, <1>1, <2>1, <2>2
  <2>3. CASE ~InScan(g)
    <3>1. nextDue'[g] = nextDue[g]
      BY <1>0, <2>3, ScanEnds
    <3>2. QED
      BY <1>1, <2>1, <3>1 DEF Due
  <2>4. QED
    BY <2>2, <2>3
<1>5. CASE Takes
  <2>1. /\ UNCHANGED <<now, nextDue, turns, scan>> /\ todo = {} /\ ~InScan(g)
        /\ (g \in todo' <=> Due(g))
    BY <1>0, <1>5 DEF Takes, table, Base, LoopInv, DueGroups, InScan, Scanning
  <2>2. QED
    BY <1>1, <2>1 DEF Due, InScan
<1>6. CASE Moves
  BY <1>1, <1>6 DEF Moves, table, Due, InScan
<1>7. CASE \E d \in Drivers, l \in Links : LinkChanges(d, l)
  BY <1>1, <1>7 DEF LinkChanges, table, loop, Due, InScan
<1>8. CASE Tick
  <2>1. UNCHANGED <<nextDue, turns, scan, todo>> /\ now' = now + 1
    BY <1>8 DEF Tick, table, loop
  <2>2. ~Due(g)' => ~Due(g)
    BY <1>0, <2>1 DEF Due
  <2>3. QED
    BY <1>1, <2>1, <2>2 DEF InScan
<1>9. QED
  BY <1>0, <1>2, <1>3, <1>4, <1>5, <1>6, <1>7, <1>8, StepKinds

(* No group, however fast or slow, is scanned three times while another is *)
(* due and waits.                                                          *)
THEOREM TurnsAreTaken == Spec => []TakesTurns
<1>1. TurnInv => TakesTurns
  BY DEF TurnInv, TakesTurns
<1>2. QED
  BY <1>1, TurnInit, TurnStep, BaseHolds, PTL DEF Spec

-----------------------------------------------------------------------------
(* Readings                                                                *)

Fresh == NothingStale /\ ScanIsFresh

LEMMA FreshInit == Init => Fresh
BY PollerAssumption DEF Init, Fresh, NothingStale, ScanIsFresh, Scanning, NoScan

LEMMA FreshStep == Base /\ Fresh /\ [Next]_vars => Fresh'
<1> SUFFICES ASSUME Base, Fresh, [Next]_vars PROVE NothingStale' /\ ScanIsFresh'
  BY DEF Fresh
<1>0. /\ TypeOK /\ now \in Nat /\ None \notin Groups
      /\ lastStart \in [Groups -> Nat] /\ DOMAIN values = Groups
      /\ (Scanning => scan.started = lastStart[scan.group] /\ lastStart[scan.group] <= now
                      /\ scan.group \in Groups)
  BY PollerAssumption, ScanFields DEF Base, TypeOK, ClockInv
<1> USE DEF NothingStale, ScanIsFresh, Fresh
<1>1. CASE \E d \in Devices : PollDevice(d)
  <2>1. PICK d \in Devices : PollDevice(d)
    BY <1>1
  <2>2. UNCHANGED <<now, table, loop>> /\ Scanning /\ d \in scan.left
    BY <2>1, PollingFrame DEF OnTurn
  <2>3. PICK good \in BOOLEAN : Noted(d, good)
    BY <2>1, PollingFrame
  <2>4. /\ scan'.group = scan.group /\ scan'.started = scan.started
        /\ scan'.left = scan.left \ {d}
        /\ \A e \in DevicesOf[scan.group] \ {d} : scan'.readings[e] = scan.readings[e]
        /\ scan'.readings[d].at = IF good THEN now ELSE scan.started
    BY <1>0, <2>2, <2>3, NotedFields
  <2>5. scan'.readings[d].at >= scan.started
    BY <1>0, <2>2, <2>4
  <2>6. ScanIsFresh'
    BY <2>2, <2>4, <2>5
  <2>7. NothingStale'
    BY <2>2, <2>4 DEF InScan, table
  <2>8. QED
    BY <2>6, <2>7
<1>2. CASE \E g \in Groups : StartScan(g)
  <2>1. PICK g \in Groups : StartScan(g)
    BY <1>2
  <2>2. /\ scan'.group = g /\ scan'.left = DevicesOf[g] /\ values' = values
        /\ \A h \in Groups \ {g} : lastStart'[h] = lastStart[h]
        /\ \A h \in Groups : ~InScan(h)
    BY <1>0, <2>1 DEF StartScan, InScan, Scanning
  <2>3. QED
    BY <2>2 DEF InScan
<1>3. CASE FinishScan
  <2>1. /\ Scanning /\ scan.left = {} /\ lastStart' = lastStart /\ ~Scanning'
        /\ values' = [values EXCEPT ![scan.group] = scan.readings]
    BY <1>3 DEF FinishScan, Scanning, NoScan
  <2>2. ASSUME NEW g \in Groups, NEW d \in DevicesOf[g]
        PROVE  values'[g][d].at >= lastStart'[g]
    BY <1>0, <2>1 DEF InScan
  <2>3. QED
    BY <2>1, <2>2
<1>4. CASE Takes
  BY <1>4 DEF Takes, InScan, Scanning, table
<1>5. CASE Moves
  BY <1>5 DEF Moves, InScan, Scanning, table
<1>6. CASE \E d \in Drivers, l \in Links : LinkChanges(d, l)
  BY <1>6 DEF LinkChanges, InScan, Scanning, table
<1>7. CASE Tick
  BY <1>7 DEF Tick, InScan, Scanning, table
<1>8. QED
  BY <1>0, <1>1, <1>2, <1>3, <1>4, <1>5, <1>6, <1>7, StepKinds

(* What is shown of a group was read in its latest scan, or shows BAD.     *)
THEOREM ReadingsAreFresh == Spec => []NothingStale
<1>1. Fresh => NothingStale
  BY DEF Fresh
<1>2. QED
  BY <1>1, FreshInit, FreshStep, BaseHolds, PTL DEF Spec

-----------------------------------------------------------------------------
(* Health                                                                  *)

HealthInv == HealthTellsConnection /\ Driverless

LEMMA HealthInit == Init => HealthInv
BY DEF Init, HealthInv, HealthTellsConnection, Driverless

LEMMA HealthStep == TypeOK /\ HealthInv /\ [Next]_vars => HealthInv'
<1> SUFFICES ASSUME TypeOK, HealthInv, [Next]_vars PROVE HealthInv'
  OBVIOUS
<1> USE DEF HealthInv, HealthTellsConnection, Driverless
<1>0. conn \in [Devices -> BOOLEAN] /\ health \in [Devices -> Health]
  BY DEF TypeOK
<1>1. CASE \E d \in Devices : PollDevice(d)
  <2>1. PICK d \in Devices : PollDevice(d)
    BY <1>1
  <2>2. CASE NoDriver(d)
    BY <1>0, <2>2 DEF NoDriver, Failure
  <2>3. CASE LeaveAlone(d)
    BY <2>3 DEF LeaveAlone, line
  <2>4. CASE ConnectFails(d)
    BY <1>0, <2>4 DEF ConnectFails, Failure
  <2>5. CASE ReadGood(d)
    BY <1>0, <2>5 DEF ReadGood, Connected, Success
  <2>6. CASE ReadBad(d)
    BY <1>0, <2>6 DEF ReadBad, Connected, Success
  <2>7. CASE ReadFails(d)
    BY <1>0, <2>7 DEF ReadFails, Connected, Failure
  <2>8. QED
    BY <2>1, <2>2, <2>3, <2>4, <2>5, <2>6, <2>7 DEF PollDevice
<1>2. CASE UNCHANGED <<conn, health>>
  BY <1>2
<1>3. QED
  BY <1>1, <1>2, StepKinds DEF StartScan, FinishScan, Takes, Moves, LinkChanges, Tick, line

(* The health record never claims a connection the driver does not have.   *)
THEOREM HealthIsHonest == Spec => []HealthTellsConnection
<1>1. HealthInv => HealthTellsConnection
  BY DEF HealthInv
<1>2. QED
  BY <1>1, HealthInit, HealthStep, TypeCorrect, PTL DEF Spec

-----------------------------------------------------------------------------
(* Recovery                                                                *)

RecoverInv == RetryInv /\ ScanRecovers /\ Recovers

LEMMA RecoverInit == Init => RecoverInv
<1> SUFFICES ASSUME Init PROVE RecoverInv
  OBVIOUS
<1>0. MaxBackoff \in Nat \ {0} /\ Drivers \subseteq Devices
      /\ DevicesOf \in [Groups -> SUBSET Devices]
  BY PollerAssumption
<1>1. RetryInv
  BY <1>0 DEF Init, RetryInv
<1>2. ScanRecovers
  BY PollerAssumption DEF Init, ScanRecovers, Scanning, NoScan
<1>3. Recovers
  BY <1>0 DEF Init, Recovers
<1>4. QED
  BY <1>1, <1>2, <1>3 DEF RecoverInv

(* Polling device d: its retry stays near, and if it is back, its reading  *)
(* is GOOD.                                                                *)
LEMMA PollingRecovers ==
    ASSUME Base, RetryInv, NEW d \in Devices, PollDevice(d)
    PROVE  /\ RetryInv'
           /\ d \in Drivers /\ link'[d] = "up" /\ scan.started >= since'[d] + MaxBackoff
                 => Noted(d, TRUE)
           /\ \A e \in Devices :
                 link'[e] = "up" => (link[e] = "up" /\ since'[e] = since[e]) \/ since'[e] = now
<1>0. /\ now \in Nat /\ MaxBackoff \in Nat \ {0} /\ Drivers \subseteq Devices
      /\ link \in [Devices -> Links] /\ conn \in [Devices -> BOOLEAN]
      /\ health \in [Devices -> Health] /\ since \in [Devices -> Nat]
      /\ scan.started \in Nat /\ scan.started <= now
  BY PollerAssumption, PollingFrame, ScanFields DEF Base, TypeOK, OnTurn, ClockInv
<1>1. \A h \in Health, t \in Nat :
         Failure(h, t).retryAt \in Int /\ Failure(h, t).retryAt <= t + MaxBackoff
  <2> SUFFICES ASSUME NEW h \in Health, NEW t \in Nat
               PROVE  Failure(h, t).retryAt \in Int /\ Failure(h, t).retryAt <= t + MaxBackoff
    OBVIOUS
  <2>1. h.failures + 1 \in Nat
    BY DEF Health
  <2>2. Backoff(h.failures + 1) \in Int /\ Backoff(h.failures + 1) <= MaxBackoff
    BY <2>1, BackoffBounded
  <2>3. QED
    BY <1>0, <2>2 DEF Failure
<1>2. health[d] \in Health /\ Success(scan.started) \in Health
  BY <1>0 DEF Health, Success
<1>3. /\ \A e \in Devices : health[e].retryAt \in Int /\ health[e].retryAt <= now + MaxBackoff
      /\ \A e \in Drivers :
            link[e] = "up" => conn[e] \/ health[e].retryAt <= since[e] + MaxBackoff
  BY <1>0 DEF RetryInv, Health
<1>4. CASE NoDriver(d)
  <2>1. health' = [health EXCEPT ![d] = Failure(@, scan.started)]
        /\ UNCHANGED <<now, link, conn, since>> /\ d \notin Drivers
    BY <1>4 DEF NoDriver
  <2>2. Failure(health[d], scan.started).retryAt <= now + MaxBackoff
    BY <1>0, <1>1, <1>2
  <2>3. RetryInv'
    BY <1>0, <1>3, <2>1, <2>2 DEF RetryInv
  <2>4. QED
    BY <2>1, <2>3
<1>5. CASE LeaveAlone(d)
  <2>1. ~conn[d] /\ scan.started < health[d].retryAt /\ UNCHANGED <<now, line>>
        /\ d \in Drivers
    BY <1>0, <1>3, <1>5 DEF LeaveAlone, MayRetry
  <2>2. link[d] = "up" => scan.started < since[d] + MaxBackoff
    BY <1>0, <1>3, <2>1
  <2>3. RetryInv'
    BY <2>1 DEF RetryInv, line
  <2>4. UNCHANGED <<link, since>>
    BY <2>1 DEF line
  <2>5. since[d] + MaxBackoff \in Nat
    BY <1>0
  <2>6. ~(link'[d] = "up" /\ scan.started >= since'[d] + MaxBackoff)
    BY <1>0, <2>2, <2>4, <2>5
  <2>7. QED
    BY <2>3, <2>4, <2>6
<1>6. CASE ConnectFails(d)
  <2>1. health' = [health EXCEPT ![d] = Failure(@, scan.started)]
        /\ UNCHANGED <<now, link, conn, since>> /\ link[d] = "down"
    BY <1>6 DEF ConnectFails
  <2>2. Failure(health[d], scan.started).retryAt <= now + MaxBackoff
    BY <1>0, <1>1, <1>2
  <2>3. RetryInv'
    BY <1>0, <1>3, <2>1, <2>2 DEF RetryInv
  <2>4. QED
    BY <2>1, <2>3
<1>7. CASE ReadGood(d)
  <2>1. /\ health' = [health EXCEPT ![d] = Success(now)] /\ now' = now
        /\ conn' = [conn EXCEPT ![d] = TRUE] /\ link' = [link EXCEPT ![d] = "up"]
        /\ since' = IF link[d] = "up" THEN since ELSE [since EXCEPT ![d] = now]
        /\ Noted(d, TRUE)
    BY <1>7 DEF ReadGood
  <2>2. RetryInv'
    BY <1>0, <1>3, <2>1 DEF RetryInv, Success
  <2>3. QED
    BY <1>0, <2>1, <2>2
<1>8. CASE ReadBad(d)
  <2>1. /\ health' = [health EXCEPT ![d] = Success(now)]
        /\ conn' = [conn EXCEPT ![d] = TRUE] /\ UNCHANGED <<now, link, since>>
        /\ link[d] # "up"
    BY <1>8 DEF ReadBad, Answers
  <2>2. RetryInv'
    BY <1>0, <1>3, <2>1 DEF RetryInv, Success
  <2>3. QED
    BY <2>1, <2>2
<1>9. CASE ReadFails(d)
  <2> DEFINE h == IF conn[d] THEN health[d] ELSE Success(scan.started)
  <2>1. /\ health' = [health EXCEPT ![d] = Failure(h, now)]
        /\ conn' = [conn EXCEPT ![d] = FALSE] /\ UNCHANGED <<now, link, since>>
        /\ link[d] # "up"
    BY <1>0, <1>9 DEF ReadFails, Answers
  <2>2. h \in Health
    BY <1>0, <1>2
  <2> HIDE DEF h
  <2>3. Failure(h, now).retryAt <= now + MaxBackoff
    BY <1>0, <1>1, <2>2
  <2>4. RetryInv'
    BY <1>0, <1>3, <2>1, <2>3 DEF RetryInv
  <2>5. QED
    BY <2>1, <2>4
<1>10. QED
  BY <1>4, <1>5, <1>6, <1>7, <1>8, <1>9 DEF PollDevice

LEMMA RecoverStep == Base /\ RecoverInv /\ [Next]_vars => RecoverInv'
<1> SUFFICES ASSUME Base, RecoverInv, [Next]_vars
             PROVE  RetryInv' /\ ScanRecovers' /\ Recovers'
  BY DEF RecoverInv
<1>0. /\ TypeOK /\ now \in Nat /\ None \notin Groups /\ MaxBackoff \in Nat \ {0}
      /\ Drivers \subseteq Devices /\ DevicesOf \in [Groups -> SUBSET Devices]
      /\ lastStart \in [Groups -> Nat] /\ since \in [Devices -> Nat]
      /\ link \in [Devices -> Links] /\ health \in [Devices -> Health]
      /\ DOMAIN values = Groups
      /\ \A g \in Groups : lastStart[g] <= now
      /\ (Scanning => /\ scan.started = lastStart[scan.group]
                      /\ scan.group \in Groups /\ scan.started <= now)
  BY PollerAssumption, ScanFields DEF Base, TypeOK, ClockInv
<1> USE DEF RecoverInv, ScanRecovers, Recovers
<1>1. CASE \E d \in Devices : PollDevice(d)
  <2>1. PICK d \in Devices : PollDevice(d)
    BY <1>1
  <2>2. UNCHANGED <<now, table, loop>> /\ Scanning /\ d \in scan.left
    BY <2>1, PollingFrame DEF OnTurn
  <2>3. PICK good \in BOOLEAN : Noted(d, good)
    BY <2>1, PollingFrame
  <2>4. /\ scan'.group = scan.group /\ scan'.started = scan.started
        /\ scan'.left = scan.left \ {d}
        /\ \A e \in DevicesOf[scan.group] \ {d} : scan'.readings[e] = scan.readings[e]
    BY <1>0, <2>2, <2>3, NotedFields
  <2>5. /\ RetryInv'
        /\ d \in Drivers /\ link'[d] = "up" /\ scan.started >= since'[d] + MaxBackoff
              => Noted(d, TRUE)
        /\ \A e \in Devices :
              link'[e] = "up" => (link[e] = "up" /\ since'[e] = since[e]) \/ since'[e] = now
    BY <2>1, PollingRecovers
  <2>6. Noted(d, TRUE) => scan'.readings[d].good
    BY <1>0, <2>2, NotedFields
  <2>7. ScanRecovers'
    <3> SUFFICES ASSUME NEW e \in (DevicesOf[scan.group] \cap Drivers) \ (scan.left \ {d}),
                        link'[e] = "up", scan.started >= since'[e] + MaxBackoff
                 PROVE  scan'.readings[e].good
      BY <2>4
    <3>1. CASE e = d
      BY <2>5, <2>6, <3>1
    <3>2. CASE e # d
      <4>1. e \in Devices /\ since'[e] # now
        BY <1>0, <2>2
      <4>2. link[e] = "up" /\ since'[e] = since[e]
        BY <2>5, <4>1
      <4>3. scan.readings[e].good
        BY <2>2, <3>2, <4>2
      <4>4. QED
        BY <2>4, <3>2, <4>3
    <3>3. QED
      BY <3>1, <3>2
  <2>8. Recovers'
    BY <1>0, <2>2, <2>4, <2>5 DEF InScan, table
  <2>9. QED
    BY <2>5, <2>7, <2>8
<1>2. CASE \E g \in Groups : StartScan(g)
  <2>1. PICK g \in Groups : StartScan(g)
    BY <1>2
  <2>2. /\ scan'.group = g /\ scan'.left = DevicesOf[g] /\ values' = values
        /\ \A h \in Groups \ {g} : lastStart'[h] = lastStart[h]
        /\ \A h \in Groups : ~InScan(h)
        /\ UNCHANGED <<now, link, conn, health, since>>
    BY <1>0, <2>1 DEF StartScan, InScan, Scanning, line
  <2>3. QED
    BY <2>2 DEF InScan, RetryInv
<1>3. CASE FinishScan
  <2>1. /\ Scanning /\ scan.left = {} /\ lastStart' = lastStart /\ ~Scanning'
        /\ values' = [values EXCEPT ![scan.group] = scan.readings]
        /\ UNCHANGED <<now, link, conn, health, since>>
    BY <1>3 DEF FinishScan, Scanning, NoScan, line
  <2>2. ASSUME NEW g \in Groups, NEW d \in DevicesOf[g] \cap Drivers,
               link[d] = "up", lastStart[g] >= since[d] + MaxBackoff
        PROVE  values'[g][d].good
    BY <1>0, <2>1, <2>2 DEF InScan
  <2>3. QED
    BY <2>1, <2>2 DEF RetryInv
<1>4. CASE Takes
  BY <1>4 DEF Takes, InScan, Scanning, table, line, RetryInv
<1>5. CASE Moves
  BY <1>5 DEF Moves, InScan, Scanning, table, line, RetryInv
<1>6. CASE \E d \in Drivers, l \in Links : LinkChanges(d, l)
  <2>1. PICK d \in Drivers, l \in Links : LinkChanges(d, l)
    BY <1>6
  <2>2. /\ link' = [link EXCEPT ![d] = l] /\ since' = [since EXCEPT ![d] = now]
        /\ UNCHANGED <<now, conn, health, table, scan>>
    BY <2>1 DEF LinkChanges
  <2>3. health[d].retryAt <= now + MaxBackoff
    BY <1>0 DEF RetryInv
  <2>4. RetryInv'
    BY <1>0, <2>2, <2>3 DEF RetryInv
  <2>5. ScanRecovers'
    BY <1>0, <2>2 DEF Scanning
  <2>6. Recovers'
    BY <1>0, <2>2 DEF InScan, table
  <2>7. QED
    BY <2>4, <2>5, <2>6
<1>7. CASE Tick
  <2>1. UNCHANGED <<line, table, scan>> /\ now' = now + 1
    BY <1>7 DEF Tick
  <2>2. RetryInv'
    BY <1>0, <2>1 DEF RetryInv, line, Health
  <2>3. QED
    BY <2>1, <2>2 DEF InScan, Scanning, table, line
<1>8. QED
  BY <1>0, <1>1, <1>2, <1>3, <1>4, <1>5, <1>6, <1>7, StepKinds

(* A scan that begins once a device has been back for the longest backoff  *)
(* reads it, whatever failed before.                                       *)
THEOREM DevicesRecover == Spec => []Recovers
<1>1. RecoverInv => Recovers
  BY DEF RecoverInv
<1>2. QED
  BY <1>1, RecoverInit, RecoverStep, BaseHolds, PTL DEF Spec

-----------------------------------------------------------------------------
(* Backoff                                                                 *)

LEMMA LossInit == Init => LossInv
BY PollerAssumption DEF Init, LossInv

(* Only polling a device counts a failure, and never too soon.             *)
LEMMA LossStep ==
    TypeOK /\ LossInv /\ [Next]_vars =>
        /\ LossInv'
        /\ \A d \in Drivers : losses'[d] # losses[d] /\ losses[d].count > 0 =>
               scan.started >= losses[d].at + Backoff(losses[d].count)
<1> SUFFICES ASSUME TypeOK, LossInv, [Next]_vars
             PROVE  /\ LossInv'
                    /\ \A d \in Drivers : losses'[d] # losses[d] /\ losses[d].count > 0 =>
                           scan.started >= losses[d].at + Backoff(losses[d].count)
  OBVIOUS
<1>0. /\ conn \in [Devices -> BOOLEAN] /\ health \in [Devices -> Health]
      /\ losses \in [Devices -> Loss] /\ Drivers \subseteq Devices /\ now \in Nat
  BY PollerAssumption DEF TypeOK
<1>1. CASE \E d \in Devices : PollDevice(d)
  <2>1. PICK d \in Devices : PollDevice(d)
    BY <1>1
  <2>2. scan.started \in Nat
    BY <2>1, PollingFrame, ScanFields DEF OnTurn
  <2>3. CASE NoDriver(d)
    BY <1>0, <2>3 DEF NoDriver, LossInv
  <2>4. CASE LeaveAlone(d)
    BY <2>4 DEF LeaveAlone, line, LossInv
  <2>5. CASE ConnectFails(d)
    <3>1. /\ d \in Drivers /\ scan.started >= health[d].retryAt /\ ~conn[d] /\ conn' = conn
          /\ health' = [health EXCEPT ![d] = Failure(@, scan.started)]
          /\ losses' = [losses EXCEPT ![d] = [count |-> losses[d].count + 1, at |-> scan.started]]
      BY <2>5 DEF ConnectFails, Failed, MayRetry
    <3>2. health[d].failures = losses[d].count
      BY <3>1 DEF LossInv
    <3>3. /\ health'[d].failures = losses'[d].count
          /\ health'[d].retryAt = losses'[d].at + Backoff(losses'[d].count)
      BY <1>0, <3>1, <3>2 DEF Failure
    <3>4. \A e \in Devices \ {d} : health'[e] = health[e] /\ losses'[e] = losses[e]
      BY <1>0, <3>1
    <3>5. QED
      BY <1>0, <3>1, <3>3, <3>4 DEF LossInv
  <2>6. CASE ReadGood(d) \/ ReadBad(d)
    <3>1. /\ d \in Drivers /\ (~conn[d] => scan.started >= health[d].retryAt)
          /\ conn' = [conn EXCEPT ![d] = TRUE]
          /\ health' = [health EXCEPT ![d] = Success(now)]
          /\ losses' = [losses EXCEPT ![d] = [count |-> 0, at |-> 0]]
      BY <1>0, <2>6 DEF ReadGood, ReadBad, Connected, Failed, MayRetry
    <3>2. /\ health'[d].failures = losses'[d].count /\ losses'[d].count = 0
      BY <1>0, <3>1 DEF Success
    <3>3. \A e \in Devices \ {d} : health'[e] = health[e] /\ losses'[e] = losses[e]
                                    /\ conn'[e] = conn[e]
      BY <1>0, <3>1
    <3>4. QED
      BY <1>0, <3>1, <3>2, <3>3 DEF LossInv
  <2>7. CASE ReadFails(d)
    <3> DEFINE h == IF conn[d] THEN health[d] ELSE Success(scan.started)
    <3>1. /\ d \in Drivers /\ (~conn[d] => scan.started >= health[d].retryAt)
          /\ conn' = [conn EXCEPT ![d] = FALSE]
          /\ health' = [health EXCEPT ![d] = Failure(h, now)]
          /\ losses' = [losses EXCEPT ![d] = [count |-> 1, at |-> now]]
      BY <1>0, <2>7 DEF ReadFails, Connected, Failed, MayRetry
    <3>2. h.failures = 0
      BY <1>0, <3>1 DEF LossInv, Success, Loss
    <3> HIDE DEF h
    <3>3. /\ health'[d].failures = losses'[d].count /\ ~conn'[d]
          /\ health'[d].retryAt = losses'[d].at + Backoff(losses'[d].count)
      BY <1>0, <3>1, <3>2 DEF Failure
    <3>4. \A e \in Devices \ {d} : health'[e] = health[e] /\ losses'[e] = losses[e]
                                    /\ conn'[e] = conn[e]
      BY <1>0, <3>1
    <3>5. QED
      BY <1>0, <3>1, <3>3, <3>4 DEF LossInv
  <2>8. QED
    BY <2>1, <2>3, <2>4, <2>5, <2>6, <2>7 DEF PollDevice
<1>2. CASE UNCHANGED <<conn, health, losses>>
  BY <1>2 DEF LossInv
<1>3. QED
  BY <1>1, <1>2, StepKinds DEF StartScan, FinishScan, Takes, Moves, LinkChanges, Tick, line

(* After n failures in a row a device is left alone for Backoff(n).        *)
THEOREM RetriesAreSpaced == Spec => RetriesBackOff
<1>1. TypeOK /\ LossInv /\ [Next]_vars =>
        [\A d \in Drivers : losses'[d] # losses[d] /\ losses[d].count > 0 =>
            scan.started >= losses[d].at + Backoff(losses[d].count)]_vars
  BY LossStep
<1>2. QED
  BY <1>1, LossInit, LossStep, TypeCorrect, PTL DEF Spec, RetriesBackOff
=============================================================================
