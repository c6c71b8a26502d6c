---------------------------- MODULE AlarmsProofs ----------------------------
(***************************************************************************)
(* Theorems about the alarm engine, for every set of alarms, every         *)
(* configuration and every bound.                                          *)
(*                                                                         *)
(* The argument is local to one alarm: Sound relates an alarm's record to  *)
(* the history of what was seen of it.  The lemmas show what one alarm's   *)
(* share of a scan (UpdateOne) does to a sound record; the inductive       *)
(* invariant says that every record is sound.                              *)
(***************************************************************************)
EXTENDS Alarms, TLAPS

(* What holds of an alarm's record i, seen quiet at q and loud at l.       *)
Sound(i, q, l) ==
    /\ i \in AlarmInstance
    /\ q \in Nat /\ l \in Nat /\ q <= now /\ l <= now
    /\ i.condition <=> i.pendingSince # None
    /\ i.pendingSince # None => q <= i.pendingSince /\ i.pendingSince <= now
    /\ i.clearingSince # None => l <= i.clearingSince /\ i.clearingSince <= now
    /\ i.state = "SHELVED" <=> i.shelvedUntil # None
    /\ i.state = "SHELVED" => ~i.condition
    /\ i.raisedAt # None => i.raisedAt <= now
    /\ Active(i) => i.raisedAt # None
    /\ i.state = "ACTIVE_ACK" => i.ackedAt # None /\ i.raisedAt <= i.ackedAt

Frame ==
    /\ now \in Nat /\ scannedAt \in Nat /\ scannedAt <= now
    /\ spec \in [Alarms -> AlarmSpec]
    /\ inst \in [Alarms -> AlarmInstance]
    /\ inFlood \in BOOLEAN
    /\ floodTrail \in {"none", "flood", "flood_cleared"}
    /\ inFlood <=> floodTrail = "flood"
    /\ trail \in [Alarms -> [kind : EventKinds, state : States]]
    /\ quietAt \in [Alarms -> Nat]
    /\ loudAt \in [Alarms -> Nat]

IInv ==
    /\ Frame
    /\ \A a \in Alarms : Sound(inst[a], quietAt[a], loudAt[a])
    /\ \A a \in Alarms : trail[a].state = inst[a].state
    /\ EveryShelfEnds

LEMMA Consequences == IInv => TypeOK /\ AckIsForThisActivation /\ TrailTellsState /\ TimersAreSound
  BY DEF IInv, Frame, Sound, TypeOK, AckIsForThisActivation, TrailTellsState, TimersAreSound, Active

-----------------------------------------------------------------------------
(* One alarm in one scan                                                   *)

(* The condition is decided: every kind of alarm is evaluated to a truth   *)
(* value whatever was sampled.                                             *)
LEMMA EvaluateDecides ==
    ASSUME spec \in [Alarms -> AlarmSpec], NEW a \in Alarms,
           NEW i, i.condition \in BOOLEAN, NEW vals, NEW w
    PROVE  Evaluate(a, i, vals, w) \in BOOLEAN
<1>1. spec[a].kind \in Kinds
  BY DEF AlarmSpec
<1>2. CASE spec[a].kind = "digital"
  BY <1>2 DEF Evaluate
<1>3. CASE spec[a].kind = "hi"
  BY <1>3 DEF Evaluate
<1>4. CASE spec[a].kind = "lo"
  BY <1>4 DEF Evaluate
<1>5. CASE spec[a].kind = "deviation"
  BY <1>5 DEF Evaluate
<1>6. CASE spec[a].kind = "roc_hi"
  BY <1>6 DEF Evaluate
<1>7. CASE spec[a].kind = "roc_lo"
  BY <1>7 DEF Evaluate
<1>8. QED
  BY <1>1, <1>2, <1>3, <1>4, <1>5, <1>6, <1>7 DEF Kinds

(* A sound record i, quiet at q, that trips with outcome r is sound, loud  *)
(* now, and raised only when its on-delay has run.                         *)
TripEffect(a, i, q, r) ==
    /\ Sound(r.inst, q, now)
    /\ r.inst.state # "SHELVED"
    /\ r.inst.condition
    /\ \/ r.event = [kind |-> "none", state |-> i.state] /\ r.inst.state = i.state
       \/ /\ r.event = [kind |-> "raised", state |-> "ACTIVE_UNACK"]
          /\ r.inst.state = "ACTIVE_UNACK"
          /\ i.state \in {"NORMAL", "RTN_UNACK"}
          /\ q + spec[a].onDelay <= now
    /\ r.inst.state \in {"NORMAL", "RTN_UNACK"} => now < r.inst.pendingSince + spec[a].onDelay

LEMMA TripSound ==
    ASSUME now \in Nat, None \notin Int, spec \in [Alarms -> AlarmSpec], NEW a \in Alarms,
           NEW i, NEW q, NEW l, Sound(i, q, l), i.state # "SHELVED", NEW v \in Int
    PROVE  TripEffect(a, i, q, Trip(a, [i EXCEPT !.lastValue = v, !.condition = TRUE]))
<1> DEFINE j == [i EXCEPT !.lastValue = v, !.condition = TRUE]
           since == IF j.pendingSince = None THEN now ELSE j.pendingSince
           k == [j EXCEPT !.clearingSince = None, !.pendingSince = since]
           raised == [k EXCEPT !.state = "ACTIVE_UNACK", !.raisedAt = now]
<1>1. spec[a].onDelay \in Nat
  BY DEF AlarmSpec
<1>2. i \in AlarmInstance
  BY DEF Sound
<1>3. /\ j \in AlarmInstance /\ j.condition = TRUE
      /\ j.pendingSince = i.pendingSince /\ j.state = i.state
      /\ j.shelvedUntil = i.shelvedUntil /\ j.raisedAt = i.raisedAt /\ j.ackedAt = i.ackedAt
  BY <1>2 DEF AlarmInstance
<1>4. since \in Nat /\ q <= since /\ since <= now
  BY <1>2, <1>3 DEF Sound, AlarmInstance
<1>5. /\ k \in AlarmInstance /\ k.condition = TRUE /\ k.pendingSince = since
      /\ k.clearingSince = None /\ k.state = i.state
      /\ k.shelvedUntil = i.shelvedUntil /\ k.raisedAt = i.raisedAt /\ k.ackedAt = i.ackedAt
  BY <1>3, <1>4 DEF AlarmInstance
<1>6. /\ raised \in AlarmInstance /\ raised.condition = TRUE /\ raised.pendingSince = since
      /\ raised.clearingSince = None /\ raised.state = "ACTIVE_UNACK"
      /\ raised.shelvedUntil = i.shelvedUntil /\ raised.raisedAt = now
  BY <1>5, ZenonT(30) DEF AlarmInstance, States
<1>7. Sound(k, q, now)
  BY <1>4, <1>5 DEF Sound, Active
<1>8. Sound(raised, q, now)
  BY <1>4, <1>6 DEF Sound, Active
<1>9. Trip(a, j) = IF now - since >= spec[a].onDelay /\ i.state \in {"NORMAL", "RTN_UNACK"}
                   THEN Outcome(raised, Event("raised", raised))
                   ELSE Quietly(k)
  BY <1>3 DEF Trip
<1> HIDE DEF j, k, raised, since
<1>10. CASE now - since >= spec[a].onDelay /\ i.state \in {"NORMAL", "RTN_UNACK"}
  <2>1. /\ Trip(a, j).inst = raised
        /\ Trip(a, j).event = [kind |-> "raised", state |-> "ACTIVE_UNACK"]
    BY <1>6, <1>9, <1>10 DEF Outcome, Event
  <2>2. q + spec[a].onDelay <= now
    BY <1>1, <1>4, <1>10 DEF Sound
  <2>3. QED
    BY <1>6, <1>8, <1>10, <2>1, <2>2 DEF j, TripEffect
<1>11. CASE ~(now - since >= spec[a].onDelay /\ i.state \in {"NORMAL", "RTN_UNACK"})
  <2>1. /\ Trip(a, j).inst = k
        /\ Trip(a, j).event = [kind |-> "none", state |-> k.state]
    BY <1>9, <1>11 DEF Quietly, Outcome, Event
  <2>2. k.state \in {"NORMAL", "RTN_UNACK"} => now < k.pendingSince + spec[a].onDelay
    BY <1>1, <1>4, <1>5, <1>11
  <2>3. QED
    BY <1>5, <1>7, <2>1, <2>2 DEF j, TripEffect
<1>12. QED
  BY <1>10, <1>11

(* A sound record i, loud at l, that recovers with outcome r is sound,     *)
(* quiet now, and cleared only when its off-delay has run; an              *)
(* unacknowledged latched alarm stays on the list.                         *)
RecoverEffect(a, i, l, r) ==
    /\ Sound(r.inst, now, l)
    /\ r.inst.state # "SHELVED"
    /\ ~r.inst.condition
    /\ \/ r.event = [kind |-> "none", state |-> i.state] /\ r.inst.state = i.state
       \/ /\ r.event = [kind |-> "cleared", state |-> r.inst.state]
          /\ Active(i)
          /\ r.inst.state = IF spec[a].latched /\ i.state = "ACTIVE_UNACK"
                            THEN "RTN_UNACK" ELSE "NORMAL"
          /\ l + spec[a].offDelay <= now

LEMMA RecoverSound ==
    ASSUME now \in Nat, None \notin Int, spec \in [Alarms -> AlarmSpec], NEW a \in Alarms,
           NEW i, NEW q, NEW l, Sound(i, q, l), i.state # "SHELVED", NEW v \in Int
    PROVE  RecoverEffect(a, i, l, Recover(a, [i EXCEPT !.lastValue = v, !.condition = FALSE]))
<1> DEFINE j == [i EXCEPT !.lastValue = v, !.condition = FALSE]
           since == IF j.clearingSince = None THEN now ELSE j.clearingSince
           quiet == [j EXCEPT !.pendingSince = None]
           still == [quiet EXCEPT !.clearingSince = since]
           idle == [quiet EXCEPT !.clearingSince = None]
           cleared == [quiet EXCEPT !.clearingSince = None,
                                    !.state = IF spec[a].latched /\ @ = "ACTIVE_UNACK"
                                              THEN "RTN_UNACK" ELSE "NORMAL"]
<1>1. spec[a].offDelay \in Nat
  BY DEF AlarmSpec
<1>2. i \in AlarmInstance
  BY DEF Sound
<1>3. /\ j \in AlarmInstance /\ j.condition = FALSE
      /\ j.clearingSince = i.clearingSince /\ j.state = i.state
      /\ j.shelvedUntil = i.shelvedUntil /\ j.raisedAt = i.raisedAt /\ j.ackedAt = i.ackedAt
  BY <1>2 DEF AlarmInstance
<1>4. since \in Nat /\ l <= since /\ since <= now
  BY <1>2, <1>3 DEF Sound, AlarmInstance
<1>5. /\ quiet \in AlarmInstance /\ quiet.condition = FALSE /\ quiet.pendingSince = None
      /\ quiet.clearingSince = i.clearingSince /\ quiet.state = i.state
      /\ quiet.shelvedUntil = i.shelvedUntil
      /\ quiet.raisedAt = i.raisedAt /\ quiet.ackedAt = i.ackedAt
  BY <1>3 DEF AlarmInstance
<1>6. /\ still \in AlarmInstance /\ still.condition = FALSE /\ still.pendingSince = None
      /\ still.clearingSince = since /\ still.state = i.state
      /\ still.shelvedUntil = i.shelvedUntil
      /\ still.raisedAt = i.raisedAt /\ still.ackedAt = i.ackedAt
  BY <1>4, <1>5 DEF AlarmInstance
<1>7. /\ idle \in AlarmInstance /\ idle.condition = FALSE /\ idle.pendingSince = None
      /\ idle.clearingSince = None /\ idle.state = i.state
      /\ idle.shelvedUntil = i.shelvedUntil
      /\ idle.raisedAt = i.raisedAt /\ idle.ackedAt = i.ackedAt
  BY <1>5 DEF AlarmInstance
<1>8. /\ cleared \in AlarmInstance /\ cleared.condition = FALSE /\ cleared.pendingSince = None
      /\ cleared.clearingSince = None /\ cleared.state = IF spec[a].latched /\ i.state = "ACTIVE_UNACK"
                         THEN "RTN_UNACK" ELSE "NORMAL"
      /\ cleared.shelvedUntil = i.shelvedUntil
      /\ cleared.raisedAt = i.raisedAt /\ cleared.ackedAt = i.ackedAt
  BY <1>5 DEF AlarmInstance, States
<1>9. Sound(still, now, l)
  BY <1>4, <1>6 DEF Sound, Active
<1>10. Sound(idle, now, l)
  BY <1>7 DEF Sound, Active
<1>11. ASSUME Active(i) PROVE Sound(cleared, now, l)
  BY <1>8, <1>11 DEF Sound, Active
<1>12. Recover(a, j) =
          IF ~Active(i) THEN Quietly(idle)
          ELSE IF now - since >= spec[a].offDelay
               THEN Outcome(cleared, Event("cleared", cleared))
               ELSE Quietly(still)
  BY <1>3 DEF Recover, Active
<1> HIDE DEF j, since, quiet, still, idle, cleared
<1>13. CASE ~Active(i)
  <2>1. /\ Recover(a, j).inst = idle
        /\ Recover(a, j).event = [kind |-> "none", state |-> idle.state]
    BY <1>12, <1>13 DEF Quietly, Outcome, Event
  <2>2. QED
    BY <1>7, <1>10, <2>1 DEF j, RecoverEffect
<1>14. CASE Active(i) /\ now - since >= spec[a].offDelay
  <2>1. /\ Recover(a, j).inst = cleared
        /\ Recover(a, j).event = [kind |-> "cleared", state |-> cleared.state]
    BY <1>12, <1>14 DEF Outcome, Event
  <2>2. l + spec[a].offDelay <= now
    BY <1>1, <1>4, <1>14 DEF Sound
  <2>3. QED
    BY <1>8, <1>11, <1>14, <2>1, <2>2 DEF j, RecoverEffect
<1>15. CASE Active(i) /\ ~(now - since >= spec[a].offDelay)
  <2>1. /\ Recover(a, j).inst = still
        /\ Recover(a, j).event = [kind |-> "none", state |-> still.state]
    BY <1>12, <1>15 DEF Quietly, Outcome, Event
  <2>2. QED
    BY <1>6, <1>9, <2>1 DEF j, RecoverEffect
<1>16. QED
  BY <1>13, <1>14, <1>15

(* Where one scan may take an alarm: AlarmLifecycle's rule for one alarm.  *)
MayGo(a, from, to, kind) ==
    \/ kind = "raised" /\ from \in {"NORMAL", "RTN_UNACK", "SHELVED"} /\ to = "ACTIVE_UNACK"
    \/ /\ kind = "cleared" /\ from = "ACTIVE_UNACK"
       /\ to = IF spec[a].latched THEN "RTN_UNACK" ELSE "NORMAL"
    \/ kind = "cleared" /\ from = "ACTIVE_ACK" /\ to = "NORMAL"
    \/ kind = "unshelved" /\ from = "SHELVED" /\ to = "NORMAL"

(* What one scan does to one alarm: the record stays sound, no shelf       *)
(* outlives its time, every transition has its event, and the event of a   *)
(* raise or a clearing comes with the evidence for it.  An alarm that was  *)
(* heard is not left due, and one that was not is left as it was.          *)
ScanEffect(a, r, q, l, heard) ==
    /\ Sound(r.inst, q, l)
    /\ r.event \in [kind : EventKinds, state : States]
    /\ r.event.state = r.inst.state
    /\ r.inst.state = "SHELVED" => now < r.inst.shelvedUntil
    /\ IF r.event.kind = "none" THEN r.inst.state = inst[a].state
       ELSE MayGo(a, inst[a].state, r.inst.state, r.event.kind)
    /\ ~Active(inst[a]) /\ Active(r.inst) => l = now /\ q + spec[a].onDelay <= now
    /\ Active(inst[a]) /\ ~Active(r.inst) => q = now /\ l + spec[a].offDelay <= now
    /\ \/ ~heard /\ r.inst = inst[a] /\ l = loudAt[a]
       \/ ~r.inst.condition
       \/ r.inst.state \in {"NORMAL", "RTN_UNACK"} => l < r.inst.pendingSince + spec[a].onDelay

(* A shelf that expires leaves a sound record, back in service.            *)
LEMMA BackInServiceSound ==
    ASSUME now \in Nat, NEW k, NEW q, NEW l, Sound(k, q, l)
    PROVE  LET i == BackInService(k)
           IN  /\ Sound(i, q, l) /\ i.state = "NORMAL" /\ i.shelvedUntil = None
               /\ i.condition = k.condition
<1> DEFINE i == BackInService(k)
<1>1. /\ i \in AlarmInstance /\ i.state = "NORMAL" /\ i.shelvedUntil = None
      /\ i.condition = k.condition /\ i.pendingSince = k.pendingSince
      /\ i.clearingSince = k.clearingSince /\ i.raisedAt = k.raisedAt
  BY DEF BackInService, Sound, AlarmInstance, States
<1> HIDE DEF i
<1>2. Sound(i, q, l)
  BY <1>1 DEF Sound, Active
<1>3. QED
  BY <1>1, <1>2 DEF i

LEMMA UpdateOneEffect ==
    ASSUME IInv, NEW a \in Alarms, NEW vals \in Samples, NEW w
    PROVE  LET r == UpdateOne(a, vals, w)
               q == IF Sampled(a, vals) /\ ~r.inst.condition THEN now ELSE quietAt[a]
               l == IF Sampled(a, vals) /\ r.inst.condition THEN now ELSE loudAt[a]
           IN  ScanEffect(a, r, q, l, Sampled(a, vals))
<1> DEFINE i == IF Expired(inst[a]) THEN BackInService(inst[a]) ELSE inst[a]
           c == Evaluate(a, i, vals, w)
           v == vals[spec[a].tag]
           j == [i EXCEPT !.lastValue = v, !.condition = c]
           r == UpdateOne(a, vals, w)
           s == IF Sampled(a, vals) THEN (IF c THEN Trip(a, j) ELSE Recover(a, j))
                ELSE Quietly(i)
           q == IF Sampled(a, vals) /\ ~r.inst.condition THEN now ELSE quietAt[a]
           l == IF Sampled(a, vals) /\ r.inst.condition THEN now ELSE loudAt[a]
<1>1. /\ now \in Nat /\ spec \in [Alarms -> AlarmSpec] /\ spec[a] \in AlarmSpec
      /\ None \notin Int
      /\ Sound(inst[a], quietAt[a], loudAt[a])
  BY AlarmsAssumption DEF IInv, Frame
<1>2. /\ Sound(i, quietAt[a], loudAt[a])
      /\ Expired(inst[a]) => i.state = "NORMAL" /\ inst[a].state = "SHELVED"
      /\ ~Expired(inst[a]) => i = inst[a]
  BY <1>1, BackInServiceSound DEF Expired
<1>3. r = IF Expired(inst[a]) /\ s.event.kind = "none"
          THEN Outcome(s.inst, Event("unshelved", i)) ELSE s
  BY DEF UpdateOne
<1>4. c \in BOOLEAN
  <2>1. i.condition \in BOOLEAN
    BY <1>2 DEF Sound, AlarmInstance
  <2>2. QED
    BY <1>1, <2>1, EvaluateDecides
<1> SUFFICES ScanEffect(a, r, q, l, Sampled(a, vals))
  OBVIOUS
<1> HIDE DEF i, c, r, s, q, l
<1>5. CASE ~Sampled(a, vals)
  <2>1. s = Quietly(i)
    BY <1>5 DEF s
  <2>2. s.inst = i /\ s.event = [kind |-> "none", state |-> i.state]
    BY <2>1 DEF Quietly, Outcome, Event
  <2>3. q = quietAt[a] /\ l = loudAt[a]
    BY <1>5 DEF q, l
  <2>4. CASE Expired(inst[a])
    <3>1. r.inst = i /\ r.event = [kind |-> "unshelved", state |-> i.state]
      BY <1>3, <2>2, <2>4 DEF Outcome, Event
    <3>2. ~r.inst.condition /\ inst[a].state = "SHELVED" /\ i.state = "NORMAL"
      BY <1>1, <2>4, <3>1, BackInServiceSound DEF Sound, Expired, i
    <3>3. QED
      BY <1>2, <2>3, <3>1, <3>2 DEF ScanEffect, Active, MayGo, EventKinds, States
  <2>5. CASE ~Expired(inst[a])
    <3>1. r = s /\ i = inst[a] /\ i.state \in States
      BY <1>2, <1>3, <2>5 DEF Sound, AlarmInstance
    <3>2. i.state = "SHELVED" => now < i.shelvedUntil
      BY <1>1, <2>5, <3>1 DEF Expired, Sound, AlarmInstance
    <3>3. /\ r.event \in [kind : EventKinds, state : States]
          /\ r.event.state = r.inst.state /\ r.event.kind = "none"
      BY <2>2, <3>1 DEF EventKinds
    <3>4. QED
      BY <1>2, <1>5, <2>2, <2>3, <3>1, <3>2, <3>3 DEF ScanEffect
  <2>6. QED
    BY <2>4, <2>5
<1>6. ASSUME Sampled(a, vals)
      PROVE  v \in Int /\ i.state # "SHELVED"
  <2>1. v \in Int
    BY <1>1, <1>6, AlarmsAssumption DEF Sampled, Samples, AlarmSpec
  <2>2. i.state # "SHELVED"
    BY <1>2, <1>6 DEF Sampled
  <2>3. QED
    BY <2>1, <2>2
<1>7. CASE Sampled(a, vals) /\ c
  <2>1. s = Trip(a, [i EXCEPT !.lastValue = v, !.condition = TRUE])
    BY <1>4, <1>7 DEF s
  <2>2. TripEffect(a, i, quietAt[a], s)
    BY <1>1, <1>2, <1>6, <1>7, <2>1, TripSound
  <2>3. /\ r.inst = s.inst
        /\ r.event = [kind |-> IF s.event.kind # "none" THEN s.event.kind
                               ELSE IF Expired(inst[a]) THEN "unshelved" ELSE "none",
                      state |-> s.inst.state]
    BY <1>2, <1>3, <2>2 DEF TripEffect, Outcome, Event
  <2>4. q = quietAt[a] /\ l = now
    BY <1>7, <2>2, <2>3 DEF q, l, TripEffect
  <2>5. QED
    BY <1>2, <2>2, <2>3, <2>4 DEF ScanEffect, TripEffect, Active, MayGo, EventKinds,
                                      Sound, AlarmInstance
<1>8. CASE Sampled(a, vals) /\ ~c
  <2>1. s = Recover(a, [i EXCEPT !.lastValue = v, !.condition = FALSE])
    BY <1>4, <1>8 DEF s
  <2>2. RecoverEffect(a, i, loudAt[a], s)
    BY <1>1, <1>2, <1>6, <1>8, <2>1, RecoverSound
  <2>3. /\ r.inst = s.inst
        /\ r.event = [kind |-> IF s.event.kind # "none" THEN s.event.kind
                               ELSE IF Expired(inst[a]) THEN "unshelved" ELSE "none",
                      state |-> s.inst.state]
    BY <1>2, <1>3, <2>2 DEF RecoverEffect, Outcome, Event
  <2>4. q = now /\ l = loudAt[a]
    BY <1>8, <2>2, <2>3 DEF q, l, RecoverEffect
  <2>5. QED
    BY <1>2, <2>2, <2>3, <2>4 DEF ScanEffect, RecoverEffect, Active, MayGo, EventKinds,
                                      Sound, AlarmInstance
<1>9. QED
  BY <1>4, <1>5, <1>7, <1>8

-----------------------------------------------------------------------------
(* Every step                                                              *)

LEMMA InitSound == Init => IInv
<1> SUFFICES ASSUME Init PROVE IInv
  OBVIOUS
<1> USE AlarmsAssumption
<1>1. spec \in [Alarms -> AlarmSpec]
  BY DEF Init
<1>2. NewInstance \in AlarmInstance
  BY DEF NewInstance, AlarmInstance, States
<1>3. Frame
  <2>1. inFlood \in BOOLEAN /\ (inFlood <=> floodTrail = "flood")
    BY DEF Init
  <2>2. NewInstance.state = "NORMAL"
    BY DEF NewInstance
  <2>3. trail \in [Alarms -> [kind : EventKinds, state : States]]
    BY <2>2 DEF Init, Event, EventKinds, States
  <2>4. QED
    BY <1>1, <1>2, <2>1, <2>3 DEF Init, Frame
<1>4. \A a \in Alarms : Sound(inst[a], quietAt[a], loudAt[a])
  BY <1>2 DEF Init, Sound, NewInstance, Active
<1>5. QED
  BY <1>3, <1>4 DEF Init, IInv, EveryShelfEnds, Event, NewInstance

(* A scan, alarm by alarm.                                                 *)
LEMMA UpdateEffect ==
    ASSUME IInv, NEW vals \in Samples, Update(vals)
    PROVE  /\ now' = now /\ spec' = spec /\ scannedAt' = now
           /\ inFlood' \in BOOLEAN
           /\ floodTrail' \in {"none", "flood", "flood_cleared"}
           /\ inFlood' <=> floodTrail' = "flood"
           /\ DOMAIN inst' = Alarms /\ inst' = [a \in Alarms |-> inst'[a]]
           /\ trail' = [a \in Alarms |-> trail'[a]]
           /\ quietAt' = [a \in Alarms |-> quietAt'[a]]
           /\ loudAt' = [a \in Alarms |-> loudAt'[a]]
           /\ \A a \in Alarms : \E r :
                 /\ ScanEffect(a, r, quietAt'[a], loudAt'[a], Sampled(a, vals))
                 /\ inst'[a] = r.inst
                 /\ trail'[a] = IF r.event.kind = "none" THEN trail[a] ELSE r.event
<1> DEFINE w(a) == RecordSamples(vals)[spec[a].tag]
           r(a) == UpdateOne(a, vals, w(a))
<1>1. /\ inst' = [a \in Alarms |-> r(a).inst]
      /\ trail' = [a \in Alarms |-> IF r(a).event.kind = "none" THEN trail[a] ELSE r(a).event]
      /\ quietAt' = [a \in Alarms |-> IF Sampled(a, vals) /\ ~r(a).inst.condition
                                      THEN now ELSE quietAt[a]]
      /\ loudAt' = [a \in Alarms |-> IF Sampled(a, vals) /\ r(a).inst.condition
                                     THEN now ELSE loudAt[a]]
      /\ now' = now /\ spec' = spec /\ scannedAt' = now
  BY DEF Update
<1>2. /\ inFlood' \in BOOLEAN
      /\ floodTrail' \in {"none", "flood", "flood_cleared"}
      /\ inFlood' <=> floodTrail' = "flood"
  <2>1. PICK times : CheckFlood(times)
    BY DEF Update
  <2> DEFINE flooding == Rate(times) > FloodCount
  <2>2. /\ inFlood' = flooding
        /\ flooding /\ ~inFlood => floodTrail' = "flood"
        /\ ~flooding /\ inFlood => floodTrail' = "flood_cleared"
        /\ (flooding <=> inFlood) => floodTrail' = floodTrail
    BY <2>1 DEF CheckFlood
  <2>3. flooding \in BOOLEAN
    OBVIOUS
  <2>4. /\ inFlood \in BOOLEAN /\ floodTrail \in {"none", "flood", "flood_cleared"}
        /\ inFlood <=> floodTrail = "flood"
    BY DEF IInv, Frame
  <2> HIDE DEF flooding
  <2>5. QED
    BY <2>2, <2>3, <2>4
<1>3. ASSUME NEW a \in Alarms
      PROVE  \E x : /\ ScanEffect(a, x, quietAt'[a], loudAt'[a], Sampled(a, vals))
                    /\ inst'[a] = x.inst
                    /\ trail'[a] = IF x.event.kind = "none" THEN trail[a] ELSE x.event
  <2> HIDE DEF w
  <2>1. ScanEffect(a, r(a), IF Sampled(a, vals) /\ ~r(a).inst.condition THEN now ELSE quietAt[a],
                            IF Sampled(a, vals) /\ r(a).inst.condition THEN now ELSE loudAt[a],
                            Sampled(a, vals))
    BY UpdateOneEffect
  <2> HIDE DEF r
  <2>2. QED
    BY <1>1, <2>1
<1> HIDE DEF r, w
<1>4. QED
  BY <1>1, <1>2, <1>3

(* An alarm is due after a scan only if it was before, and not heard.      *)
LEMMA ScanLeavesNoneDue ==
    ASSUME IInv, NEW vals \in Samples, Update(vals), NEW a \in Alarms, Due(a)'
    PROVE  Due(a) /\ ~Sampled(a, vals)
<1>1. PICK r : /\ ScanEffect(a, r, quietAt'[a], loudAt'[a], Sampled(a, vals))
               /\ inst'[a] = r.inst
  BY UpdateEffect
<1>2. spec' = spec /\ spec \in [Alarms -> AlarmSpec]
  BY UpdateEffect DEF IInv, Frame
<1>3. /\ spec[a].enabled /\ inst'[a].condition
      /\ inst'[a].state \in {"NORMAL", "RTN_UNACK"}
      /\ loudAt'[a] >= inst'[a].pendingSince + spec[a].onDelay
  BY <1>2 DEF Due
<1>4. /\ loudAt'[a] \in Int /\ spec[a].onDelay \in Int
      /\ inst'[a].pendingSince \in Int
  BY <1>1, <1>2, <1>3 DEF ScanEffect, Sound, AlarmInstance, AlarmSpec
<1>5. inst'[a] = inst[a] /\ loudAt'[a] = loudAt[a] /\ ~Sampled(a, vals)
  BY <1>1, <1>3, <1>4 DEF ScanEffect
<1>6. QED
  BY <1>3, <1>5 DEF Due

LEMMA HeardIsSettled ==
    ASSUME IInv, NEW a \in Alarms, Heard(a)
    PROVE  ~Due(a)'
BY ScanLeavesNoneDue DEF Heard

(* What every step owes: the invariant, the three action properties and a  *)
(* step of the lifecycle.                                                  *)
StepIsRight ==
    /\ IInv'
    /\ OnDelayRan
    /\ OffDelayRan
    /\ OnlyUnshelvingHides
    /\ [Lifecycle!Next]_(Lifecycle!vars)

LEMMA ScanStep ==
    ASSUME IInv, NEW vals \in Samples, Update(vals)
    PROVE  StepIsRight
<1>1. /\ now \in Nat /\ scannedAt \in Nat
      /\ spec \in [Alarms -> AlarmSpec]
      /\ trail \in [Alarms -> [kind : EventKinds, state : States]]
      /\ \A a \in Alarms : trail[a].state = inst[a].state
      /\ \A a \in Alarms : Sound(inst[a], quietAt[a], loudAt[a])
  BY DEF IInv, Frame
<1>2. /\ now' = now /\ spec' = spec /\ scannedAt' = now
      /\ inFlood' \in BOOLEAN
      /\ floodTrail' \in {"none", "flood", "flood_cleared"}
      /\ inFlood' <=> floodTrail' = "flood"
      /\ inst' = [a \in Alarms |-> inst'[a]]
      /\ trail' = [a \in Alarms |-> trail'[a]]
      /\ quietAt' = [a \in Alarms |-> quietAt'[a]]
      /\ loudAt' = [a \in Alarms |-> loudAt'[a]]
  BY UpdateEffect
<1>3. ASSUME NEW a \in Alarms
      PROVE  /\ Sound(inst'[a], quietAt'[a], loudAt'[a])
             /\ trail'[a] \in [kind : EventKinds, state : States]
             /\ trail'[a].state = inst'[a].state
             /\ inst'[a].state = "SHELVED" => now < inst'[a].shelvedUntil
             /\ \/ inst'[a].state = inst[a].state /\ trail'[a].kind = trail[a].kind
                \/ MayGo(a, inst[a].state, inst'[a].state, trail'[a].kind)
             /\ Annunciates(a) => loudAt'[a] = now /\ quietAt'[a] + spec[a].onDelay <= now
             /\ Clears(a) => quietAt'[a] = now /\ loudAt'[a] + spec[a].offDelay <= now
  <2>1. PICK r : /\ ScanEffect(a, r, quietAt'[a], loudAt'[a], Sampled(a, vals))
                 /\ inst'[a] = r.inst
                 /\ trail'[a] = IF r.event.kind = "none" THEN trail[a] ELSE r.event
    BY UpdateEffect
  <2>2. /\ trail'[a] \in [kind : EventKinds, state : States]
        /\ trail'[a].state = inst'[a].state
    BY <1>1, <2>1 DEF ScanEffect
  <2>3. /\ Annunciates(a) => loudAt'[a] = now /\ quietAt'[a] + spec[a].onDelay <= now
        /\ Clears(a) => quietAt'[a] = now /\ loudAt'[a] + spec[a].offDelay <= now
    BY <2>1 DEF ScanEffect, Annunciates, Clears, Active
  <2>4. QED
    BY <2>1, <2>2, <2>3 DEF ScanEffect
<1>4. IInv'
  <2>1. Frame'
    <3>1. inst' \in [Alarms -> AlarmInstance]
      BY <1>2, <1>3 DEF Sound
    <3>2. /\ trail' \in [Alarms -> [kind : EventKinds, state : States]]
          /\ quietAt' \in [Alarms -> Nat]
          /\ loudAt' \in [Alarms -> Nat]
      BY <1>2, <1>3 DEF Sound
    <3>3. QED
      BY <1>1, <1>2, <3>1, <3>2 DEF Frame
  <2>2. \A a \in Alarms : Sound(inst[a], quietAt[a], loudAt[a])'
    BY <1>2, <1>3 DEF Sound, Active
  <2>3. EveryShelfEnds'
    BY <1>2, <1>3 DEF EveryShelfEnds
  <2>4. QED
    BY <1>3, <2>1, <2>2, <2>3 DEF IInv
<1>5. OnDelayRan /\ OffDelayRan
  BY <1>3 DEF OnDelayRan, OffDelayRan
<1>6. OnlyUnshelvingHides
  BY ScanLeavesNoneDue, HeardIsSettled DEF OnlyUnshelvingHides
<1>7. Lifecycle!Scan
  <2>1. /\ [a \in Alarms |-> inst'[a].state] \in [Alarms -> States]
        /\ [a \in Alarms |-> trail'[a].kind] \in [Alarms -> EventKinds]
    BY <1>3 DEF Sound, AlarmInstance
  <2>2. {a \in Alarms : spec'[a].latched} = {a \in Alarms : spec[a].latched}
    BY <1>2
  <2>3. \A a \in Alarms : inst[a].state \in States
    BY <1>1 DEF Sound, AlarmInstance
  <2>4. QED
    BY <1>3, <2>1, <2>2, <2>3
       DEF Lifecycle!Scan, Lifecycle!ScanMoves, Lifecycle!States, Lifecycle!Kinds, MayGo, States,
           EventKinds
<1>8. QED
  BY <1>4, <1>5, <1>6, <1>7 DEF StepIsRight, Lifecycle!Next

(* A step by an operator, or none, that touches the alarms one by one and  *)
(* leaves the floods and the scans alone.                                  *)
LEMMA AcknowledgeStep ==
    ASSUME IInv, NEW A \in SUBSET Alarms, AcknowledgeSet(A)
    PROVE  StepIsRight
<1>1. /\ Frame
      /\ \A a \in Alarms : Sound(inst[a], quietAt[a], loudAt[a])
      /\ \A a \in Alarms : trail[a].state = inst[a].state
      /\ EveryShelfEnds
  BY DEF IInv
<1>2. /\ inst' = [a \in Alarms |-> IF a \in A THEN AcknowledgedInstance(inst[a]) ELSE inst[a]]
      /\ trail' = [a \in Alarms |-> IF a \in A THEN Event("acked", AcknowledgedInstance(inst[a]))
                                    ELSE trail[a]]
      /\ UNCHANGED <<now, spec, raiseTimes, samples, inFlood, floodTrail, scannedAt, quietAt, loudAt>>
  BY DEF AcknowledgeSet
<1>3. ASSUME NEW a \in Alarms
      PROVE  /\ Sound(inst[a], quietAt[a], loudAt[a])'
             /\ trail'[a] \in [kind : EventKinds, state : States]
             /\ trail'[a].state = inst'[a].state
             /\ trail'[a].kind = IF a \in A THEN "acked" ELSE trail[a].kind
             /\ inst'[a].state = IF a \in A THEN Lifecycle!Acknowledged(inst[a].state)
                                 ELSE inst[a].state
             /\ inst'[a].condition = inst[a].condition
             /\ inst'[a].pendingSince = inst[a].pendingSince
             /\ inst'[a].shelvedUntil = inst[a].shelvedUntil
  <2>1. CASE a \in A
    <3> DEFINE j == AcknowledgedInstance(inst[a])
    <3>1. inst'[a] = j /\ trail'[a] = Event("acked", j)
      BY <1>2, <2>1
    <3>2. inst[a] \in AlarmInstance /\ now \in Nat
      BY <1>1 DEF Sound, Frame
    <3>3. /\ j \in AlarmInstance
          /\ j.state = Lifecycle!Acknowledged(inst[a].state)
          /\ j.condition = inst[a].condition
          /\ j.pendingSince = inst[a].pendingSince /\ j.clearingSince = inst[a].clearingSince
          /\ j.shelvedUntil = inst[a].shelvedUntil /\ j.raisedAt = inst[a].raisedAt
          /\ j.ackedAt = now
      BY <3>2, ZenonT(30) DEF AcknowledgedInstance, AlarmInstance, States, Lifecycle!Acknowledged
    <3>4. /\ j.state = "SHELVED" <=> inst[a].state = "SHELVED"
          /\ Active(j) <=> Active(inst[a])
      BY <3>2, <3>3 DEF AlarmInstance, States, Lifecycle!Acknowledged, Active
    <3> HIDE DEF j
    <3>5. Sound(j, quietAt[a], loudAt[a])
      BY <1>1, <3>2, <3>3, <3>4, AlarmsAssumption DEF Sound, Active
    <3>6. Sound(inst'[a], quietAt'[a], loudAt'[a])
      BY <1>2, <3>1, <3>5
    <3>7. Sound(inst[a], quietAt[a], loudAt[a])'
      BY <1>2, <3>6 DEF Sound, Active
    <3>8. QED
      BY <2>1, <3>1, <3>3, <3>7 DEF Event, EventKinds, AlarmInstance
  <2>2. CASE a \notin A
    BY <1>1, <1>2, <2>2 DEF Frame, Sound, Active
  <2>3. QED
    BY <2>1, <2>2
<1>4. IInv'
  <2>1. Frame'
    BY <1>1, <1>2, <1>3 DEF Frame, Sound
  <2>2. EveryShelfEnds'
    <3>1. \A a \in Alarms : inst'[a].state = "SHELVED" => inst[a].state = "SHELVED"
      BY <1>1, <1>3 DEF Lifecycle!Acknowledged, Sound, AlarmInstance, States
    <3>2. QED
      BY <1>1, <1>2, <1>3, <3>1 DEF EveryShelfEnds
  <2>3. QED
    BY <1>3, <2>1, <2>2 DEF IInv
<1>5. \A a \in Alarms : Active(inst[a])' <=> Active(inst[a])
  BY <1>1, <1>3 DEF Active, Lifecycle!Acknowledged, Sound, AlarmInstance, States
<1>6. OnDelayRan /\ OffDelayRan
  BY <1>5 DEF OnDelayRan, OffDelayRan, Annunciates, Clears
<1>7. OnlyUnshelvingHides
  <2>1. \A a \in Alarms : inst'[a].state \in {"NORMAL", "RTN_UNACK"}
                             => inst[a].state \in {"NORMAL", "RTN_UNACK"}
    BY <1>1, <1>3 DEF Lifecycle!Acknowledged, Sound, AlarmInstance, States
  <2>2. QED
    BY <1>2, <1>3, <2>1, HeardIsSettled DEF OnlyUnshelvingHides, Due
<1>8. Lifecycle!Acknowledge
  <2>1. [a \in Alarms |-> inst'[a].state] =
            [a \in Alarms |-> IF a \in A THEN Lifecycle!Acknowledged(inst[a].state)
                              ELSE inst[a].state]
    BY <1>3
  <2>2. [a \in Alarms |-> trail'[a].kind] =
            [a \in Alarms |-> IF a \in A THEN "acked" ELSE trail[a].kind]
    BY <1>3
  <2>3. QED
    BY <1>2, <2>1, <2>2 DEF Lifecycle!Acknowledge
<1>9. QED
  BY <1>4, <1>6, <1>7, <1>8 DEF StepIsRight, Lifecycle!Next

(* Shelving and unshelving write one alarm's record j and its event k.     *)
LEMMA ShelvingStep ==
    ASSUME IInv, NEW a \in Alarms, NEW j, NEW k \in {"shelved", "unshelved"}, NEW q,
           inst' = [inst EXCEPT ![a] = j],
           trail' = [trail EXCEPT ![a] = Event(k, j)],
           quietAt' = [quietAt EXCEPT ![a] = q],
           UNCHANGED <<now, spec, raiseTimes, samples, inFlood, floodTrail, scannedAt, loudAt>>,
           Sound(j, q, loudAt[a]),
           k = "shelved" => j.state = "SHELVED" /\ scannedAt < j.shelvedUntil,
           k = "unshelved" => j.state = "NORMAL" /\ Unshelve(a)
    PROVE  StepIsRight
<1>1. /\ Frame
      /\ \A b \in Alarms : Sound(inst[b], quietAt[b], loudAt[b])
      /\ \A b \in Alarms : trail[b].state = inst[b].state
      /\ EveryShelfEnds
  BY DEF IInv
<1>2. /\ inst'[a] = j /\ trail'[a] = [kind |-> k, state |-> j.state] /\ quietAt'[a] = q
      /\ \A b \in Alarms \ {a} :
            inst'[b] = inst[b] /\ trail'[b] = trail[b] /\ quietAt'[b] = quietAt[b]
  BY <1>1 DEF Frame, Event
<1>3. j \in AlarmInstance /\ q \in Nat
  BY DEF Sound
<1>4. \A b \in Alarms : Sound(inst'[b], quietAt'[b], loudAt'[b])
  BY <1>1, <1>2
<1>5. IInv'
  <2>1. Frame'
    BY <1>1, <1>3 DEF Frame, Event, EventKinds, AlarmInstance
  <2>2. \A b \in Alarms : Sound(inst[b], quietAt[b], loudAt[b])'
    BY <1>4 DEF Sound, Active
  <2>3. \A b \in Alarms : trail'[b].state = inst'[b].state
    BY <1>1, <1>2
  <2>4. EveryShelfEnds'
    BY <1>1, <1>2 DEF EveryShelfEnds
  <2>5. QED
    BY <2>1, <2>2, <2>3, <2>4 DEF IInv
<1>6. j.state \in {"SHELVED", "NORMAL"} /\ trail'[a].kind = k
  BY <1>2
<1>7. OnDelayRan /\ OffDelayRan
  BY <1>2, <1>6 DEF OnDelayRan, OffDelayRan, Annunciates, Clears, Active
<1>8. OnlyUnshelvingHides
  <2>1. ASSUME NEW b \in Alarms, Due(b)' PROVE Unshelve(b) \/ Due(b)
    BY <1>2, <1>6, <2>1 DEF Due
  <2>2. QED
    BY <2>1, HeardIsSettled DEF OnlyUnshelvingHides
<1>9. Lifecycle!Shelve
  <2>1. [b \in Alarms |-> inst'[b].state] =
            [[b \in Alarms |-> inst[b].state] EXCEPT ![a] = j.state]
    <3>1. \A b \in Alarms : inst'[b].state = IF b = a THEN j.state ELSE inst[b].state
      BY <1>2
    <3> QED
      BY <3>1
  <2>2. [b \in Alarms |-> trail'[b].kind] =
            [[b \in Alarms |-> trail[b].kind] EXCEPT ![a] = k]
    <3>1. \A b \in Alarms : trail'[b].kind = IF b = a THEN k ELSE trail[b].kind
      BY <1>2
    <3> QED
      BY <3>1
  <2>3. {b \in Alarms : spec'[b].latched} = {b \in Alarms : spec[b].latched}
    OBVIOUS
  <2>4. (k = "shelved" /\ j.state = "SHELVED") \/ (k = "unshelved" /\ j.state = "NORMAL")
    OBVIOUS
  <2>5. QED
    BY <2>1, <2>2, <2>3, <2>4 DEF Lifecycle!Shelve
<1>10. QED
  BY <1>5, <1>7, <1>8, <1>9 DEF StepIsRight, Lifecycle!Next

LEMMA ShelveStep ==
    ASSUME IInv, NEW a \in Alarms, NEW d \in Durations, Shelve(a, d)
    PROVE  StepIsRight
<1> DEFINE j == [inst[a] EXCEPT !.state = "SHELVED", !.shelvedUntil = now + d,
                                !.condition = FALSE, !.pendingSince = None]
<1>1. /\ Sound(inst[a], quietAt[a], loudAt[a]) /\ inst \in [Alarms -> AlarmInstance]
      /\ now \in Nat /\ scannedAt \in Nat /\ scannedAt <= now /\ d \in Nat \ {0}
      /\ quietAt \in [Alarms -> Nat]
  BY AlarmsAssumption DEF IInv, Frame
<1>2. /\ j \in AlarmInstance /\ j.state = "SHELVED" /\ j.shelvedUntil = now + d
      /\ j.condition = FALSE /\ j.pendingSince = None
      /\ j.clearingSince = inst[a].clearingSince /\ j.raisedAt = inst[a].raisedAt
  <2>1. inst[a] \in AlarmInstance /\ now + d \in Nat
    BY <1>1
  <2>2. QED
    BY <2>1 DEF AlarmInstance, States
<1>3. inst' = [inst EXCEPT ![a] = j]
  BY <1>1 DEF Shelve, AlarmInstance
<1>4. inst'[a] = j
  BY <1>1, <1>3
<1> HIDE DEF j
<1>5. Sound(j, now, loudAt[a])
  BY <1>1, <1>2, AlarmsAssumption DEF Sound, Active
<1>6. trail' = [trail EXCEPT ![a] = Event("shelved", j)]
  BY <1>4 DEF Shelve
<1>7. scannedAt < j.shelvedUntil
  BY <1>1, <1>2
<1>8. /\ quietAt' = [quietAt EXCEPT ![a] = now]
      /\ UNCHANGED <<now, spec, raiseTimes, samples, inFlood, floodTrail, scannedAt, loudAt>>
  BY DEF Shelve
<1>9. QED
  BY <1>2, <1>3, <1>5, <1>6, <1>7, <1>8, ShelvingStep

LEMMA UnshelveStep ==
    ASSUME IInv, NEW a \in Alarms, Unshelve(a)
    PROVE  StepIsRight
<1> DEFINE j == BackInService(inst[a])
<1>1. /\ Sound(inst[a], quietAt[a], loudAt[a]) /\ inst \in [Alarms -> AlarmInstance]
      /\ now \in Nat /\ quietAt \in [Alarms -> Nat]
  BY DEF IInv, Frame
<1>2. Sound(j, quietAt[a], loudAt[a]) /\ j.state = "NORMAL"
  BY <1>1, BackInServiceSound
<1>3. inst' = [inst EXCEPT ![a] = j] /\ inst'[a] = j
  BY <1>1 DEF Unshelve
<1> HIDE DEF j
<1>4. trail' = [trail EXCEPT ![a] = Event("unshelved", j)]
  BY <1>3 DEF Unshelve
<1>5. /\ quietAt' = [quietAt EXCEPT ![a] = quietAt[a]]
      /\ UNCHANGED <<now, spec, raiseTimes, samples, inFlood, floodTrail, scannedAt, loudAt>>
  BY <1>1 DEF Unshelve
<1>6. QED
  BY <1>2, <1>3, <1>4, <1>5, ShelvingStep

(* Time passes, or nothing does.                                           *)
LEMMA QuietStep ==
    ASSUME IInv, Tick \/ UNCHANGED vars
    PROVE  StepIsRight
<1>1. /\ now' \in Nat /\ now' >= now /\ now \in Nat
      /\ UNCHANGED <<spec, inst, raiseTimes, samples, inFlood, trail, floodTrail,
                     scannedAt, quietAt, loudAt>>
  BY DEF Tick, vars, IInv, Frame
<1>2. Frame'
  BY <1>1 DEF IInv, Frame
<1>3. ASSUME NEW a \in Alarms
      PROVE  Sound(inst[a], quietAt[a], loudAt[a])'
  <2>1. Sound(inst[a], quietAt[a], loudAt[a])
    BY DEF IInv
  <2>2. QED
    BY <1>1, <2>1, AlarmsAssumption DEF Sound, Active, AlarmInstance
<1>4. IInv'
  BY <1>1, <1>2, <1>3 DEF IInv, EveryShelfEnds
<1>5. OnDelayRan /\ OffDelayRan /\ OnlyUnshelvingHides
  BY <1>1, HeardIsSettled DEF OnDelayRan, OffDelayRan, OnlyUnshelvingHides, Annunciates, Clears, Due, Active
<1>6. UNCHANGED Lifecycle!vars
  BY <1>1 DEF Lifecycle!vars
<1>7. QED
  BY <1>4, <1>5, <1>6 DEF StepIsRight

LEMMA EveryStep == IInv /\ [Next]_vars => StepIsRight
<1> SUFFICES ASSUME IInv, [Next]_vars PROVE StepIsRight
  OBVIOUS
<1>1. CASE Scan
  BY <1>1, ScanStep DEF Scan
<1>2. CASE \E a \in Alarms : Acknowledge(a)
  BY <1>2, AcknowledgeStep DEF Acknowledge
<1>3. CASE AcknowledgeAll
  BY <1>3, AcknowledgeStep DEF AcknowledgeAll
<1>4. CASE \E a \in Alarms, d \in Durations : Shelve(a, d)
  BY <1>4, ShelveStep
<1>5. CASE \E a \in Alarms : Unshelve(a)
  BY <1>5, UnshelveStep
<1>6. CASE Tick \/ UNCHANGED vars
  BY <1>6, QuietStep
<1>7. QED
  BY <1>1, <1>2, <1>3, <1>4, <1>5, <1>6 DEF Next

-----------------------------------------------------------------------------
(* The theorems                                                            *)

LEMMA Invariance == Spec => []IInv
<1>1. IInv /\ [Next]_vars => IInv'
  BY EveryStep DEF StepIsRight
<1>2. QED
  BY InitSound, <1>1, PTL DEF Spec

(* Every record, timer, flag and event of the engine has its type in every *)
(* reachable state.                                                        *)
THEOREM TypeCorrect == Spec => []TypeOK
  BY Invariance, Consequences, PTL

(* An alarm shown as acknowledged was acknowledged in this activation.     *)
THEOREM AckBelongs == Spec => []AckIsForThisActivation
  BY Invariance, Consequences, PTL

(* The audit trail tells the state of every alarm and the flood flag.      *)
THEOREM TrailIsComplete == Spec => []TrailTellsState
  BY Invariance, Consequences, PTL

(* The on- and off-delay timers never started before the last evidence     *)
(* against them.                                                           *)
THEOREM TimersRest == Spec => []TimersAreSound
  BY Invariance, Consequences, PTL

(* No scan leaves an alarm shelved past its time.                          *)
THEOREM ShelvesEnd == Spec => []EveryShelfEnds
<1>1. IInv => EveryShelfEnds
  BY DEF IInv
<1>2. QED
  BY Invariance, <1>1, PTL

(* No alarm is annunciated before its condition has gone uncontradicted    *)
(* for its whole on-delay.                                                 *)
THEOREM NoEarlyRaise == Spec => OnDelayHeld
<1>1. IInv /\ [Next]_vars => OnDelayRan
  BY EveryStep DEF StepIsRight
<1>2. QED
  BY Invariance, <1>1, PTL DEF Spec, OnDelayHeld

(* No alarm clears before its condition has gone unseen for its whole      *)
(* off-delay.                                                              *)
THEOREM NoEarlyClear == Spec => OffDelayHeld
<1>1. IInv /\ [Next]_vars => OffDelayRan
  BY EveryStep DEF StepIsRight
<1>2. QED
  BY Invariance, <1>1, PTL DEF Spec, OffDelayHeld

(* A due alarm is left unannunciated by no step but an operator's unshelve *)
(* of it, and by no scan that looks at its value.                          *)
THEOREM NothingMissed == Spec => NoAlarmMissed
<1>1. IInv /\ [Next]_vars => OnlyUnshelvingHides
  BY EveryStep DEF StepIsRight
<1>2. QED
  BY Invariance, <1>1, PTL DEF Spec, NoAlarmMissed

(* The engine implements the alarm lifecycle.                              *)
THEOREM ImplementsLifecycle == Spec => KeepsLifecycle
<1>1. Init => Lifecycle!Init
  BY DEF Init, NewInstance, Event, Lifecycle!Init
<1>2. IInv /\ [Next]_vars => [Lifecycle!Next]_(Lifecycle!vars)
  BY EveryStep DEF StepIsRight
<1>3. QED
  BY Invariance, <1>1, <1>2, PTL DEF Spec, KeepsLifecycle, Lifecycle!Spec
=============================================================================
