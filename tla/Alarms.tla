------------------------------- MODULE Alarms -------------------------------
(***************************************************************************)
(* The alarm engine of alarms.py: every alarm evaluated against the values *)
(* of one scan, with hysteresis, on- and off-delays, latching, shelving,   *)
(* acknowledgement and flood detection.                                    *)
(*                                                                         *)
(* One scan is one call of AlarmEngine.update.  A tag that was not sampled *)
(* in that scan, or was sampled with bad quality, is absent from the       *)
(* mapping the runtime passes; here it has the value None.                 *)
(***************************************************************************)
EXTENDS Deques, FiniteSets

CONSTANTS
    Alarms,         \* the names of the configured alarms
    Tags,           \* the tags they watch
    Readings,       \* the values each tag can be sampled with
    Configs,        \* the configurations considered: functions Alarms -> Spec
    Durations,      \* the times an alarm may be shelved for
    FloodCount,     \* flood_count and
    FloodWindow,    \* flood_window of the engine
    RaiseDepth,     \* maxlen of _raise_times, 4096 in the code
    SampleDepth,    \* maxlen of a tag's window in _samples, 512 in the code
    MaxTime,        \* bound: the clock stops here
    None            \* Python's None

Time == 0 .. MaxTime

Kinds == {"hi", "lo", "roc_hi", "roc_lo", "deviation", "digital"}

(* AlarmSpec.  hi_hi and hi, lo_lo and lo differ only in severity.         *)
AlarmSpec ==
    [tag : Tags, kind : Kinds, limit : Int, deadband : Nat,
     onDelay : Nat, offDelay : Nat, latched : BOOLEAN, enabled : BOOLEAN,
     setpointTag : Tags \cup {None}, setpoint : Int,
     rocWindow : Nat \ {0}, trigger : BOOLEAN]

ASSUME AlarmsAssumption ==
    /\ None \notin Int
    /\ None \notin Tags
    /\ Readings \in [Tags -> SUBSET Int]
    /\ Configs \subseteq [Alarms -> AlarmSpec]
    /\ Durations \subseteq Nat \ {0}
    /\ FloodCount \in Nat /\ FloodWindow \in Nat
    /\ RaiseDepth \in Nat \ {0} /\ SampleDepth \in Nat \ {0}
    /\ MaxTime \in Nat

ASSUME AlarmsFinite == IsFiniteSet(Alarms)

VARIABLES
    now,            \* the clock
    spec,           \* the configuration, fixed at start
    inst,           \* AlarmEngine.alarms: the runtime state of each alarm
    raiseTimes,     \* _raise_times
    samples,        \* _samples: what rate-of-change alarms look back on
    inFlood,        \* in_flood
    trail,          \* events, reduced to the latest one about each alarm
    floodTrail,     \* events, reduced to the latest one about "__flood__"
    scannedAt,      \* history: when the latest scan was
    quietAt,        \* history: when an alarm's condition was last known not to hold
    loudAt          \* history: when an alarm's condition was last known to hold

vars == <<now, spec, inst, raiseTimes, samples, inFlood, trail, floodTrail,
          scannedAt, quietAt, loudAt>>

States == {"NORMAL", "ACTIVE_UNACK", "ACTIVE_ACK", "RTN_UNACK", "SHELVED"}
EventKinds == {"none", "raised", "cleared", "acked", "shelved", "unshelved"}

(* AlarmInstance.  activations, cleared_at and acked_by are written and    *)
(* never read by the engine, and are left out.                             *)
AlarmInstance ==
    [state : States, condition : BOOLEAN, pendingSince : Nat \cup {None},
     clearingSince : Nat \cup {None}, shelvedUntil : Nat \cup {None},
     raisedAt : Nat \cup {None}, ackedAt : Nat \cup {None},
     lastValue : Int \cup {None}]

NewInstance ==
    [state |-> "NORMAL", condition |-> FALSE, pendingSince |-> None,
     clearingSince |-> None, shelvedUntil |-> None, raisedAt |-> None,
     ackedAt |-> None, lastValue |-> None]

Event(kind, i) == [kind |-> kind, state |-> i.state]

Active(i) == i.state \in {"ACTIVE_UNACK", "ACTIVE_ACK"}
Unacknowledged(i) == i.state \in {"ACTIVE_UNACK", "RTN_UNACK"}

Init ==
    /\ now = 0
    /\ spec \in Configs
    /\ inst = [a \in Alarms |-> NewInstance]
    /\ raiseTimes = <<>>
    /\ samples = [t \in Tags |-> <<>>]
    /\ inFlood = FALSE
    /\ trail = [a \in Alarms |-> Event("none", NewInstance)]
    /\ floodTrail = "none"
    /\ scannedAt = 0
    /\ quietAt = [a \in Alarms |-> 0]
    /\ loudAt = [a \in Alarms |-> 0]

-----------------------------------------------------------------------------
(* What rate-of-change alarms remember                                     *)

RocAlarms(t) == {a \in Alarms : spec[a].tag = t /\ spec[a].kind \in {"roc_hi", "roc_lo"}}

(* The oldest samples go once they are behind the longest window of the    *)
(* tag's alarms, but two samples always stay.                              *)
Trimmed(w, t) ==
    LET Kept(k) == k >= Len(w) - 1
                   \/ \E a \in RocAlarms(t) : w[k].at >= now - spec[a].rocWindow
        first == CHOOSE k \in 1 .. Len(w) : Kept(k) /\ \A j \in 1 .. k - 1 : ~Kept(j)
    IN  SubSeq(w, first, Len(w))

RecordSamples(vals) ==
    [t \in Tags |->
        IF RocAlarms(t) = {} \/ vals[t] = None THEN samples[t]
        ELSE Trimmed(Newest(Append(samples[t], [at |-> now, value |-> vals[t]]), SampleDepth), t)]

(* The change over an alarm's window as <<rise, run>>, or None when two    *)
(* samples at different times are missing.                                 *)
RateOfChange(w, window) ==
    LET Inside(x) == x.at >= now - window
        recent == SelectSeq(w, Inside)
        oldest == IF recent = <<>> THEN w[1] ELSE recent[1]
        newest == w[Len(w)]
    IN  IF Len(w) < 2 \/ newest.at <= oldest.at THEN None
        ELSE <<newest.value - oldest.value, newest.at - oldest.at>>

-----------------------------------------------------------------------------
(* Evaluating the condition                                                *)

Distance(x, y) == IF x >= y THEN x - y ELSE y - x

(* The margin a condition that already holds has to lose before it is off. *)
Hysteresis(a, i) == IF i.condition THEN spec[a].deadband ELSE 0

(* _evaluate: i is the alarm before this scan, window the samples of its   *)
(* tag including this one.  A rate or a setpoint that is not available     *)
(* leaves the condition as it was.                                         *)
Evaluate(a, i, vals, window) ==
    LET s == spec[a]
        v == vals[s.tag]
        high == s.limit - Hysteresis(a, i)
        rate == RateOfChange(window, s.rocWindow)
        target == IF s.setpointTag = None THEN s.setpoint ELSE vals[s.setpointTag]
    IN  CASE s.kind = "digital"   -> (v # 0) = s.trigger
          [] s.kind = "hi"        -> v > high
          [] s.kind = "lo"        -> v < s.limit + Hysteresis(a, i)
          [] s.kind = "deviation" -> \/ target = None /\ i.condition
                                     \/ target # None /\ Distance(v, target) > high
          [] s.kind = "roc_hi"    -> \/ rate = None /\ i.condition
                                     \/ rate # None /\ rate[1] > high * rate[2]
          [] s.kind = "roc_lo"    -> \/ rate = None /\ i.condition
                                     \/ rate # None /\ rate[1] < (-high) * rate[2]

(* The outcome of one alarm in one scan: its new state and the latest      *)
(* event about it, of kind "none" when there is none.                      *)
Outcome(i, event) == [inst |-> i, event |-> event]

Quietly(i) == Outcome(i, Event("none", i))

(* Mutants of Trip: an acknowledgement outlives its activation; an alarm   *)
(* that is still in the off-delay keeps its timer; an alarm awaiting       *)
(* acknowledgement is not raised again.                                    *)
TripInheritsAck(a, i) ==
    LET since == IF i.pendingSince = None THEN now ELSE i.pendingSince
        j == [i EXCEPT !.clearingSince = None, !.pendingSince = since]
        raised == [j EXCEPT !.raisedAt = now,
                            !.state = IF i.ackedAt = None THEN "ACTIVE_UNACK" ELSE "ACTIVE_ACK"]
    IN  IF now - since >= spec[a].onDelay /\ i.state \in {"NORMAL", "RTN_UNACK"}
        THEN Outcome(raised, Event("raised", raised))
        ELSE Quietly(j)

TripKeepsClearing(a, i) ==
    LET since == IF i.pendingSince = None THEN now ELSE i.pendingSince
        j == [i EXCEPT !.pendingSince = since]
        raised == [j EXCEPT !.state = "ACTIVE_UNACK", !.raisedAt = now]
    IN  IF now - since >= spec[a].onDelay /\ i.state \in {"NORMAL", "RTN_UNACK"}
        THEN Outcome(raised, Event("raised", raised))
        ELSE Quietly(j)

TripFromNormalOnly(a, i) ==
    LET since == IF i.pendingSince = None THEN now ELSE i.pendingSince
        j == [i EXCEPT !.clearingSince = None, !.pendingSince = since]
        raised == [j EXCEPT !.state = "ACTIVE_UNACK", !.raisedAt = now]
    IN  IF now - since >= spec[a].onDelay /\ i.state = "NORMAL"
        THEN Outcome(raised, Event("raised", raised))
        ELSE Quietly(j)

(* The condition holds.                                                    *)
Trip(a, i) ==
    LET since == IF i.pendingSince = None THEN now ELSE i.pendingSince
        j == [i EXCEPT !.clearingSince = None, !.pendingSince = since]
        raised == [j EXCEPT !.state = "ACTIVE_UNACK", !.raisedAt = now]
    IN  IF now - since >= spec[a].onDelay /\ i.state \in {"NORMAL", "RTN_UNACK"}
        THEN Outcome(raised, Event("raised", raised))
        ELSE Quietly(j)

(* Mutants of Recover: the on-delay is not restarted; latching is ignored. *)
RecoverKeepsPending(a, i) ==
    LET since == IF i.clearingSince = None THEN now ELSE i.clearingSince
        cleared == [i EXCEPT !.clearingSince = None,
                             !.state = IF spec[a].latched /\ @ = "ACTIVE_UNACK"
                                       THEN "RTN_UNACK" ELSE "NORMAL"]
    IN  IF ~Active(i) THEN Quietly([i EXCEPT !.clearingSince = None])
        ELSE IF now - since >= spec[a].offDelay
             THEN Outcome(cleared, Event("cleared", cleared))
             ELSE Quietly([i EXCEPT !.clearingSince = since])

RecoverUnlatched(a, i) ==
    LET since == IF i.clearingSince = None THEN now ELSE i.clearingSince
        quiet == [i EXCEPT !.pendingSince = None]
        cleared == [quiet EXCEPT !.clearingSince = None, !.state = "NORMAL"]
    IN  IF ~Active(i) THEN Quietly([quiet EXCEPT !.clearingSince = None])
        ELSE IF now - since >= spec[a].offDelay
             THEN Outcome(cleared, Event("cleared", cleared))
             ELSE Quietly([quiet EXCEPT !.clearingSince = since])

(* The condition does not hold.                                            *)
Recover(a, i) ==
    LET since == IF i.clearingSince = None THEN now ELSE i.clearingSince
        quiet == [i EXCEPT !.pendingSince = None]
        cleared == [quiet EXCEPT !.clearingSince = None,
                                 !.state = IF spec[a].latched /\ @ = "ACTIVE_UNACK"
                                           THEN "RTN_UNACK" ELSE "NORMAL"]
    IN  IF ~Active(i) THEN Quietly([quiet EXCEPT !.clearingSince = None])
        ELSE IF now - since >= spec[a].offDelay
             THEN Outcome(cleared, Event("cleared", cleared))
             ELSE Quietly([quiet EXCEPT !.clearingSince = since])

(* The shelf of an alarm expires at the first scan at or after its time.   *)
Expired(i) == i.state = "SHELVED" /\ now >= i.shelvedUntil

(* Mutant of BackInService: a number stands for "not shelved".             *)
BackInServiceSentinel(i) == [i EXCEPT !.state = "NORMAL", !.shelvedUntil = -1]

BackInService(i) == [i EXCEPT !.state = "NORMAL", !.shelvedUntil = None]

(* Whether this scan looks at the alarm's value at all.                    *)
Sampled(a, vals) ==
    /\ inst[a].state = "SHELVED" => Expired(inst[a])
    /\ spec[a].enabled
    /\ vals[spec[a].tag] # None

(* Mutant of UpdateOne: a scan without the tag returns before the shelf is *)
(* looked at.                                                              *)
UpdateOneValueFirst(a, vals, window) ==
    LET i == IF Expired(inst[a]) THEN BackInService(inst[a]) ELSE inst[a]
        c == Evaluate(a, i, vals, window)
        j == [i EXCEPT !.lastValue = vals[spec[a].tag], !.condition = c]
        r == IF c THEN Trip(a, j) ELSE Recover(a, j)
    IN  IF ~Sampled(a, vals) THEN Quietly(inst[a])
        ELSE IF Expired(inst[a]) /\ r.event.kind = "none" THEN Outcome(r.inst, Event("unshelved", i))
        ELSE r

UpdateOne(a, vals, window) ==
    LET i == IF Expired(inst[a]) THEN BackInService(inst[a]) ELSE inst[a]
        c == Evaluate(a, i, vals, window)
        j == [i EXCEPT !.lastValue = vals[spec[a].tag], !.condition = c]
        r == IF Sampled(a, vals) THEN (IF c THEN Trip(a, j) ELSE Recover(a, j))
             ELSE Quietly(i)
    IN  IF Expired(inst[a]) /\ r.event.kind = "none" THEN Outcome(r.inst, Event("unshelved", i))
        ELSE r

-----------------------------------------------------------------------------
(* Floods                                                                  *)

Rate(times) == Cardinality({k \in DOMAIN times : times[k] > now - FloodWindow})

(* The flood flag turns only on an edge, and each edge is an event.        *)
CheckFlood(times) ==
    LET flooding == Rate(times) > FloodCount
    IN  /\ inFlood' = flooding
        /\ floodTrail' = CASE flooding /\ ~inFlood -> "flood"
                           [] ~flooding /\ inFlood -> "flood_cleared"
                           [] OTHER -> floodTrail

-----------------------------------------------------------------------------
(* Actions                                                                 *)

(* AlarmEngine.update.                                                     *)
Update(vals) ==
    LET sampled == RecordSamples(vals)
        result == [a \in Alarms |-> UpdateOne(a, vals, sampled[spec[a].tag])]
        raises == {a \in Alarms : result[a].event.kind = "raised"}
        times == Newest(raiseTimes \o [k \in 1 .. Cardinality(raises) |-> now], RaiseDepth)
        heard == {a \in Alarms : Sampled(a, vals)}
    IN  /\ samples' = sampled
        /\ inst' = [a \in Alarms |-> result[a].inst]
        /\ raiseTimes' = times
        /\ trail' = [a \in Alarms |-> IF result[a].event.kind = "none" THEN trail[a]
                                      ELSE result[a].event]
        /\ CheckFlood(times)
        /\ scannedAt' = now
        /\ quietAt' = [a \in Alarms |-> IF a \in heard /\ ~result[a].inst.condition
                                        THEN now ELSE quietAt[a]]
        /\ loudAt' = [a \in Alarms |-> IF a \in heard /\ result[a].inst.condition
                                       THEN now ELSE loudAt[a]]
        /\ UNCHANGED <<now, spec>>

AcknowledgedInstance(i) ==
    [i EXCEPT !.ackedAt = now,
              !.state = IF @ = "ACTIVE_UNACK" THEN "ACTIVE_ACK"
                        ELSE IF @ = "RTN_UNACK" THEN "NORMAL" ELSE @]

(* Mutant of AcknowledgeSet: the event is written before the transition.   *)
AcknowledgeSetEventFirst(A) ==
    /\ inst' = [a \in Alarms |-> IF a \in A THEN AcknowledgedInstance(inst[a]) ELSE inst[a]]
    /\ trail' = [a \in Alarms |-> IF a \in A THEN Event("acked", inst[a]) ELSE trail[a]]
    /\ UNCHANGED <<now, spec, raiseTimes, samples, inFlood, floodTrail, scannedAt, quietAt, loudAt>>

(* One step for the alarms of A, each with its event.                      *)
AcknowledgeSet(A) ==
    /\ inst' = [a \in Alarms |-> IF a \in A THEN AcknowledgedInstance(inst[a]) ELSE inst[a]]
    /\ trail' = [a \in Alarms |-> IF a \in A THEN Event("acked", AcknowledgedInstance(inst[a]))
                                  ELSE trail[a]]
    /\ UNCHANGED <<now, spec, raiseTimes, samples, inFlood, floodTrail, scannedAt, quietAt, loudAt>>

Acknowledge(a) == AcknowledgeSet({a})

AcknowledgeAll == AcknowledgeSet({a \in Alarms : Unacknowledged(inst[a])})

(* Mutant of Shelve: the on-delay runs on while the alarm is shelved.      *)
ShelveKeepsTimer(a, duration) ==
    /\ now + duration <= MaxTime
    /\ inst' = [inst EXCEPT ![a].state = "SHELVED", ![a].shelvedUntil = now + duration,
                            ![a].condition = FALSE]
    /\ trail' = [trail EXCEPT ![a] = Event("shelved", inst'[a])]
    /\ quietAt' = [quietAt EXCEPT ![a] = now]
    /\ UNCHANGED <<now, spec, raiseTimes, samples, inFlood, floodTrail, scannedAt, loudAt>>

(* Shelving forgets the condition and restarts the on-delay.  The guard is  *)
(* the bound: shelves end within the model's time.                         *)
Shelve(a, duration) ==
    /\ now + duration <= MaxTime
    /\ inst' = [inst EXCEPT ![a].state = "SHELVED", ![a].shelvedUntil = now + duration,
                            ![a].condition = FALSE, ![a].pendingSince = None]
    /\ trail' = [trail EXCEPT ![a] = Event("shelved", inst'[a])]
    /\ quietAt' = [quietAt EXCEPT ![a] = now]
    /\ UNCHANGED <<now, spec, raiseTimes, samples, inFlood, floodTrail, scannedAt, loudAt>>

(* The code does not ask whether the alarm is shelved.                     *)
Unshelve(a) ==
    /\ inst' = [inst EXCEPT ![a] = BackInService(@)]
    /\ trail' = [trail EXCEPT ![a] = Event("unshelved", inst'[a])]
    /\ UNCHANGED <<now, spec, raiseTimes, samples, inFlood, floodTrail, scannedAt, quietAt, loudAt>>

Tick ==
    /\ now < MaxTime
    /\ now' = now + 1
    /\ UNCHANGED <<spec, inst, raiseTimes, samples, inFlood, trail, floodTrail,
                   scannedAt, quietAt, loudAt>>

(* What the poller can have found: any reading of each tag, or none.       *)
Samples == {vals \in [Tags -> UNION {Readings[t] : t \in Tags} \cup {None}] :
               \A t \in Tags : vals[t] \in Readings[t] \cup {None}}

Scan == \E vals \in Samples : Update(vals)

Next ==
    \/ Scan
    \/ \E a \in Alarms : Acknowledge(a)
    \/ AcknowledgeAll
    \/ \E a \in Alarms, d \in Durations : Shelve(a, d)
    \/ \E a \in Alarms : Unshelve(a)
    \/ Tick

Spec == Init /\ [][Next]_vars

-----------------------------------------------------------------------------
(* Properties                                                              *)

TypeOK ==
    /\ now \in Nat
    /\ spec \in [Alarms -> AlarmSpec]
    /\ inst \in [Alarms -> AlarmInstance]
    /\ inFlood \in BOOLEAN
    /\ trail \in [Alarms -> [kind : EventKinds, state : States]]
    /\ floodTrail \in {"none", "flood", "flood_cleared"}
    /\ scannedAt \in Nat
    /\ quietAt \in [Alarms -> Nat]
    /\ loudAt \in [Alarms -> Nat]

(* An alarm shown as acknowledged was acknowledged during the activation   *)
(* it shows: a raise never inherits the acknowledgement of an earlier one  *)
(* (_update_one, acknowledge).                                             *)
AckIsForThisActivation ==
    \A a \in Alarms : inst[a].state = "ACTIVE_ACK" =>
        /\ inst[a].ackedAt # None
        /\ inst[a].raisedAt # None
        /\ inst[a].raisedAt <= inst[a].ackedAt

(* No transition escapes the audit trail: the latest event about an alarm  *)
(* tells the state it is in, whichever of the five entry points moved it,  *)
(* and the latest flood event tells the flood flag.                        *)
TrailTellsState ==
    /\ \A a \in Alarms : trail[a].state = inst[a].state
    /\ inFlood <=> floodTrail = "flood"

(* What the delays rest on.  The on-delay runs exactly while the condition *)
(* is held to be met, and each timer started after the last evidence       *)
(* against it; the end of a shelf is known exactly while shelved.          *)
TimersAreSound ==
    \A a \in Alarms :
        LET i == inst[a] IN
        /\ i.condition <=> i.pendingSince # None
        /\ i.pendingSince # None => quietAt[a] <= i.pendingSince /\ i.pendingSince <= now
        /\ i.clearingSince # None => loudAt[a] <= i.clearingSince /\ i.clearingSince <= now
        /\ i.state = "SHELVED" <=> i.shelvedUntil # None

Annunciates(a) == ~Active(inst[a]) /\ Active(inst[a])'

Clears(a) == Active(inst[a]) /\ ~Active(inst[a])' /\ trail'[a].kind = "cleared"

(* "The condition must hold continuously before the alarm is annunciated": *)
(* nothing seen in the on-delay before a raise spoke against the condition,*)
(* neither a sample nor a shelf, however scans, outages, shelves and       *)
(* acknowledgements were interleaved before it.                            *)
OnDelayRan ==
    \A a \in Alarms : Annunciates(a) =>
        loudAt'[a] = now /\ quietAt'[a] + spec[a].onDelay <= now

OnDelayHeld == [][OnDelayRan]_vars

(* "The condition must be gone continuously before it clears", and "a      *)
(* comms failure must never look like the process recovering": the scan    *)
(* that clears saw the condition gone, and none in the off-delay before it *)
(* saw it met.                                                             *)
OffDelayRan ==
    \A a \in Alarms : Clears(a) =>
        quietAt'[a] = now /\ loudAt'[a] + spec[a].offDelay <= now

OffDelayHeld == [][OffDelayRan]_vars

(* An alarm whose condition was met at every sample of its on-delay.       *)
Due(a) ==
    /\ spec[a].enabled
    /\ inst[a].condition
    /\ inst[a].state \in {"NORMAL", "RTN_UNACK"}
    /\ loudAt[a] >= inst[a].pendingSince + spec[a].onDelay

(* The step is a scan that looked at the alarm's value.                    *)
Heard(a) == \E vals \in Samples : Update(vals) /\ Sampled(a, vals)

(* No alarm is missed: only an operator's unshelve of an alarm in service  *)
(* can leave a due alarm unannunciated, never a scan, an expiring shelf or *)
(* an acknowledgement; and such an alarm is hidden no longer than to the   *)
(* first scan that looks at its value again (_update_one, unshelve).       *)
OnlyUnshelvingHides ==
    \A a \in Alarms : Due(a)' => Unshelve(a) \/ (Due(a) /\ ~Heard(a))

NoAlarmMissed == [][OnlyUnshelvingHides]_vars

(* "Bounded is the important word": no scan leaves an alarm shelved past   *)
(* its time, whether or not the alarm is enabled and its tag sampled.      *)
EveryShelfEnds ==
    \A a \in Alarms : inst[a].state = "SHELVED" => scannedAt < inst[a].shelvedUntil

(* The engine keeps the promises of AlarmLifecycle: whatever the samples,  *)
(* no alarm moves without the event that tells of it, and a scan never     *)
(* takes an unacknowledged latched alarm off the list (update).            *)
Lifecycle == INSTANCE AlarmLifecycle
                WITH annunciation <- [a \in Alarms |-> inst[a].state],
                     told <- [a \in Alarms |-> trail[a].kind],
                     latched <- {a \in Alarms : spec[a].latched}

KeepsLifecycle == Lifecycle!Spec

(* "Raise at the limit, clear at limit minus a deadband."  A high alarm is *)
(* annunciated only by a value beyond its limit.  The code evaluates a     *)
(* pending alarm with the deadband of a raised one, so this fails.         *)
RaisedBeyondTheLimit ==
    [][\A a \in Alarms : Annunciates(a) /\ spec[a].kind = "hi"
            => inst'[a].lastValue > spec[a].limit]_vars
=============================================================================
