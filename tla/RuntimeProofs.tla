---------------------------- MODULE RuntimeProofs ----------------------------
(***************************************************************************)
(* Proofs about Runtime, for any schedule of faults, any commands and any  *)
(* times of polling: its types, that the line records each standstill it   *)
(* counts, that the report adds up, and that the downtime tracker keeps    *)
(* the account that Uptime describes.                                      *)
(***************************************************************************)
EXTENDS Runtime, DataLemmas

-----------------------------------------------------------------------------
(* Records of stops                                                        *)

(* A nonempty set of positions has a greatest.                             *)
LEMMA GreatestNumber ==
    ASSUME NEW n \in Nat, NEW I \in SUBSET (1..n), I # {}
    PROVE  \E m \in I : \A i \in I : i <= m
<1> DEFINE J == {n - i : i \in I}
<1>a. \A i \in I : n - i \in Nat
  OBVIOUS
<1>1. J \in SUBSET Nat /\ J # {}
  BY <1>a
<1>2. PICK k \in J : \A j \in J : k <= j
  BY <1>1, LeastNumber
<1>3. PICK m \in I : k = n - m
  OBVIOUS
<1>4. ASSUME NEW i \in I PROVE i <= m
  <2>1. k <= n - i
    BY <1>2
  <2> QED
    BY <1>3, <2>1
<1> QED
  BY <1>4

(* LatestOpen finds the last open stop, if there is one.                   *)
LEMMA LatestOpenIs ==
    ASSUME NEW S, NEW s \in Seq(S)
    PROVE  /\ LatestOpen(s) \in 0..Len(s)
           /\ LatestOpen(s) # 0 => IsOpen(s[LatestOpen(s)])
           /\ \A i \in 1..Len(s) : IsOpen(s[i]) => i <= LatestOpen(s)
<1> DEFINE I == {i \in 1..Len(s) : IsOpen(s[i])}
<1>1. LatestOpen(s) = IF I # {} THEN CHOOSE m \in I : \A i \in I : m >= i ELSE 0
  BY DEF LatestOpen, SelectLastInSeq, Max
<1>2. CASE I = {}
  BY <1>1, <1>2
<1>3. CASE I # {}
  <2>1. \E m \in I : \A i \in I : m >= i
    <3>1. I \in SUBSET (1..Len(s)) /\ Len(s) \in Nat
      OBVIOUS
    <3>2. PICK m \in I : \A i \in I : i <= m
      <4> HIDE DEF I
      <4> QED
        BY <1>3, <3>1, GreatestNumber
    <3> QED
      BY <3>2
  <2>2. LatestOpen(s) \in I /\ \A i \in I : LatestOpen(s) >= i
    BY <1>1, <1>3, <2>1
  <2> QED
    BY <2>2
<1> QED
  BY <1>2, <1>3

-----------------------------------------------------------------------------
(* Sums                                                                    *)

IsPartialSums(f, s) ==
    f = [n \in 0..Len(s) |-> IF n = 0 THEN 0 ELSE f[n - 1] + s[n]]

(* The recursive function of SumOf is well defined.                        *)
LEMMA PartialSumsExist ==
    ASSUME NEW s, Len(s) \in Nat
    PROVE  \E f : IsPartialSums(f, s)
<1> DEFINE upTo(m, f) == f = [n \in 0..m |-> IF n = 0 THEN 0 ELSE f[n - 1] + s[n]]
           S == {m \in Nat : \E f : upTo(m, f)}
<1>1. 0 \in S
  <2>1. upTo(0, [n \in 0..0 |-> 0])
    OBVIOUS
  <2> QED
    BY <2>1
<1>2. ASSUME NEW m \in Nat, m \in S PROVE m + 1 \in S
  <2>1. PICK f : upTo(m, f)
    BY <1>2
  <2> DEFINE g == [n \in 0..m + 1 |-> IF n = m + 1 THEN f[m] + s[m + 1] ELSE f[n]]
  <2>2. ASSUME NEW n \in 0..m + 1
        PROVE  g[n] = IF n = 0 THEN 0 ELSE g[n - 1] + s[n]
    <3>1. CASE n = m + 1
      BY <3>1
    <3>2. CASE n \in 0..m
      <4>1. f[n] = IF n = 0 THEN 0 ELSE f[n - 1] + s[n]
        BY <2>1, <3>2
      <4>2. n # 0 => n - 1 \in 0..m
        BY <3>2
      <4> QED
        BY <3>2, <4>1, <4>2
    <3> QED
      BY <3>1, <3>2
  <2>3. upTo(m + 1, g)
    BY <2>2
  <2>4. \E h : upTo(m + 1, h)
    <3> HIDE DEF g, upTo
    <3> QED
      BY <2>3
  <2> QED
    BY <2>4
<1> HIDE DEF S
<1>3. Len(s) \in S
  BY <1>1, <1>2, InductiveSet
<1> QED
  BY <1>3 DEF S, IsPartialSums

LEMMA SumOfIs ==
    ASSUME NEW s, Len(s) \in Nat
    PROVE  \E f : IsPartialSums(f, s) /\ SumOf(s) = f[Len(s)]
<1> DEFINE f == CHOOSE f : IsPartialSums(f, s)
<1>1. IsPartialSums(f, s)
  BY PartialSumsExist
<1>2. SumOf(s) = f[Len(s)]
  BY DEF SumOf, IsPartialSums
<1> QED
  BY <1>1, <1>2

(* Partial sums are numbers, and those of equal beginnings are equal.      *)
LEMMA PartialSumsAgree ==
    ASSUME NEW s \in Seq(Int), NEW r \in Seq(Int), NEW f, NEW g,
           IsPartialSums(f, s), IsPartialSums(g, r),
           NEW k \in Nat, k <= Len(s), k <= Len(r),
           \A i \in 1..k : s[i] = r[i]
    PROVE  f[k] \in Int /\ f[k] = g[k]
<1> DEFINE S == {n \in Nat : n <= k => f[n] \in Int /\ f[n] = g[n]}
<1>1. 0 \in S
  BY DEF IsPartialSums
<1>2. ASSUME NEW n \in Nat, n \in S PROVE n + 1 \in S
  <2> SUFFICES ASSUME n + 1 <= k
               PROVE  f[n + 1] \in Int /\ f[n + 1] = g[n + 1]
    OBVIOUS
  <2>1. f[n] \in Int /\ f[n] = g[n]
    BY <1>2
  <2>2. s[n + 1] \in Int /\ s[n + 1] = r[n + 1]
    OBVIOUS
  <2>3. f[n + 1] = f[n] + s[n + 1] /\ g[n + 1] = g[n] + r[n + 1]
    BY DEF IsPartialSums
  <2> QED
    BY <2>1, <2>2, <2>3
<1> HIDE DEF S
<1>3. k \in S
  BY <1>1, <1>2, InductiveSet
<1> QED
  BY <1>3 DEF S

(* A sum of nothing; a sum is that of all but the last, and the last.      *)
LEMMA SumOfEmpty == SumOf(<<>>) = 0
<1>1. PICK f : IsPartialSums(f, <<>>) /\ SumOf(<<>>) = f[Len(<<>>)]
  BY SumOfIs
<1> QED
  BY <1>1 DEF IsPartialSums

LEMMA SumOfLast ==
    ASSUME NEW s \in Seq(Int), NEW r \in Seq(Int), Len(s) = Len(r) + 1,
           \A i \in 1..Len(r) : s[i] = r[i]
    PROVE  SumOf(r) \in Int /\ SumOf(s) = SumOf(r) + s[Len(s)]
<1>1. PICK f : IsPartialSums(f, s) /\ SumOf(s) = f[Len(s)]
  BY SumOfIs
<1>2. PICK g : IsPartialSums(g, r) /\ SumOf(r) = g[Len(r)]
  BY SumOfIs
<1>3. f[Len(r)] \in Int /\ f[Len(r)] = g[Len(r)]
  BY <1>1, <1>2, PartialSumsAgree
<1>4. f[Len(s)] = f[Len(r)] + s[Len(s)]
  BY <1>1 DEF IsPartialSums
<1> QED
  BY <1>1, <1>2, <1>3, <1>4

-----------------------------------------------------------------------------
(* The line                                                                *)

Queue == Seq([at : Nat, fault : Faults, lasts : Durations \cup {None}])

LineRecord ==
    [t : Nat, state : LineStates, fault : Faults \cup {None}, until : Nat \cup {None},
     timed : BOOLEAN, schedule : Queue, speed : BOOLEAN, setpoint : BOOLEAN, moving : BOOLEAN,
     level : Levels, comms : BOOLEAN, made : 0..MaxMade, rejected : 0..MaxMade,
     down : Nat, stops : Seq(Stop)]

(* The latest stop is open exactly while the line is not running, whatever *)
(* faults, commands and starvings came before.  Older ones may be open too.*)
StopsAreRecorded(p) ==
    /\ p.state # "RUNNING" <=> p.stops # <<>> /\ IsOpen(p.stops[Len(p.stops)])
    /\ \A i \in 1..Len(p.stops) : p.stops[i].start <= p.t

(* A fault that stops the line does so, and a line in FAULT has a fault.   *)
FaultsShow(p) ==
    /\ p.fault \in Faults \ Silent => p.state = "FAULT"
    /\ p.state = "FAULT" => p.fault # None
    /\ p.fault = "comms_drop" => ~p.comms

CountersAgree(p) ==
    /\ p.rejected <= p.made
    /\ p.down <= p.t

SoundLine(p) ==
    /\ p \in LineRecord
    /\ StopsAreRecorded(p)
    /\ FaultsShow(p)
    /\ CountersAgree(p)

(* What every fault, command and change of state leaves of the record p    *)
(* when it makes q of it: the time, the downtime, and every stop but those *)
(* that were open, which it may end now.                                   *)
Continues(p, q) ==
    /\ q.t = p.t /\ q.down = p.down
    /\ \A i \in 1..Len(p.stops) :
          /\ i \in 1..Len(q.stops)
          /\ q.stops[i] # p.stops[i] =>
                IsOpen(p.stops[i]) /\ q.stops[i] = [p.stops[i] EXCEPT !.end = p.t]

LEMMA Unbroken ==
    ASSUME NEW p, p \in LineRecord, NEW q, NEW r, Continues(p, q), Continues(q, r)
    PROVE  Continues(p, r)
<1>1. p.stops \in Seq(Stop) /\ p.t \in Nat
  BY DEF LineRecord
<1>2. ASSUME NEW i \in 1..Len(p.stops)
      PROVE  /\ i \in 1..Len(r.stops)
             /\ r.stops[i] # p.stops[i] =>
                   IsOpen(p.stops[i]) /\ r.stops[i] = [p.stops[i] EXCEPT !.end = p.t]
  <2>1. p.stops[i] \in Stop
    BY <1>1, ElementOfSeq
  <2>2. /\ i \in 1..Len(q.stops) /\ i \in 1..Len(r.stops)
        /\ q.stops[i] # p.stops[i] =>
              IsOpen(p.stops[i]) /\ q.stops[i] = [p.stops[i] EXCEPT !.end = p.t]
        /\ r.stops[i] # q.stops[i] =>
              IsOpen(q.stops[i]) /\ r.stops[i] = [q.stops[i] EXCEPT !.end = p.t]
    BY DEF Continues
  <2>3. CASE q.stops[i] = p.stops[i]
    BY <2>2, <2>3
  <2>4. CASE q.stops[i] # p.stops[i]
    <3>1. q.stops[i].end = p.t
      BY <2>1, <2>2, <2>4 DEF Stop
    <3>2. ~IsOpen(q.stops[i])
      BY <1>1, <3>1, StopsAssumption DEF IsOpen
    <3> QED
      BY <2>2, <3>2
  <2> QED
    BY <2>3, <2>4
<1> QED
  BY <1>2 DEF Continues

LEMMA OpenedStops ==
    ASSUME NEW stops \in Seq(Stop), NEW t \in Nat
    PROVE  LET opened == Append(stops, [start |-> t, end |-> None])
           IN  /\ opened \in Seq(Stop)
               /\ opened # <<>> /\ IsOpen(opened[Len(opened)])
               /\ opened[Len(opened)].start = t
               /\ Len(opened) = Len(stops) + 1
               /\ \A i \in 1..Len(stops) : opened[i] = stops[i]
<1> DEFINE new == [start |-> t, end |-> None]
           opened == Append(stops, new)
<1>1. new \in Stop /\ IsOpen(new) /\ new.start = t
  BY DEF Stop, IsOpen
<1>2. /\ opened \in Seq(Stop) /\ opened # <<>>
      /\ Len(opened) = Len(stops) + 1
      /\ \A i \in 1..Len(stops) : opened[i] = stops[i]
      /\ opened[Len(stops) + 1] = new
  <2> HIDE DEF new
  <2> QED
    BY <1>1, AppendProperties, LenProperties
<1> HIDE DEF new, opened
<1> QED
  BY <1>1, <1>2 DEF new, opened

(* Ending the latest open stop leaves the last one ended.                  *)
LEMMA ClosedStops ==
    ASSUME NEW stops \in Seq(Stop), NEW t \in Nat, LatestOpen(stops) # 0
    PROVE  LET k == LatestOpen(stops)
               closed == [stops EXCEPT ![k].end = t]
           IN  /\ closed \in Seq(Stop) /\ Len(closed) = Len(stops)
               /\ \A i \in 1..Len(stops) :
                     /\ closed[i].start = stops[i].start
                     /\ closed[i] # stops[i] =>
                           IsOpen(stops[i]) /\ closed[i] = [stops[i] EXCEPT !.end = t]
               /\ ~IsOpen(closed[Len(closed)])
<1> DEFINE k == LatestOpen(stops)
           closed == [stops EXCEPT ![k].end = t]
           last == [stops[k] EXCEPT !.end = t]
<1>0. /\ k \in 1..Len(stops) /\ IsOpen(stops[k])
      /\ \A i \in 1..Len(stops) : IsOpen(stops[i]) => i <= k
  BY LatestOpenIs
<1> HIDE DEF k
<1>1. last \in Stop /\ last.start = stops[k].start /\ ~IsOpen(last)
  <2>1. stops[k] \in Stop
    BY <1>0, ElementOfSeq
  <2> QED
    BY <2>1, StopsAssumption DEF Stop, IsOpen
<1>2. closed = [stops EXCEPT ![k] = last]
  OBVIOUS
<1>3. /\ closed \in Seq(Stop) /\ Len(closed) = Len(stops)
      /\ \A i \in 1..Len(stops) : closed[i] = IF i = k THEN last ELSE stops[i]
  <2> HIDE DEF last, closed
  <2> QED
    BY <1>0, <1>1, <1>2, ExceptSeq, LenProperties
<1> HIDE DEF closed
<1>4. \A i \in 1..Len(stops) :
         /\ closed[i].start = stops[i].start
         /\ closed[i] # stops[i] =>
               IsOpen(stops[i]) /\ closed[i] = [stops[i] EXCEPT !.end = t]
  BY <1>0, <1>1, <1>3
<1> HIDE DEF last
<1>5. ~IsOpen(closed[Len(closed)])
  <2>1. Len(stops) \in 1..Len(stops)
    BY <1>0, LenProperties
  <2>2. Len(stops) # k => ~IsOpen(stops[Len(stops)])
    BY <1>0, <2>1
  <2> QED
    BY <1>1, <1>3, <2>1, <2>2
<1> QED
  BY <1>3, <1>4, <1>5 DEF closed, k

(* What a restart does to a line.                                          *)
LEMMA RestartedSound ==
    ASSUME NEW p, SoundLine(p), p.fault \notin Faults \ Silent
    PROVE  SoundLine(Restarted(p)) /\ Continues(p, Restarted(p))
<1> DEFINE last == LatestOpen(p.stops)
           q == StopClosed(p)
<1>1. p \in LineRecord
  BY DEF SoundLine
<1>2. p.stops \in Seq(Stop) /\ p.t \in Nat
  BY <1>1 DEF LineRecord
<1>3. /\ q \in LineRecord
      /\ q = [p EXCEPT !.stops = q.stops]
      /\ Len(q.stops) = Len(p.stops)
      /\ \A i \in 1..Len(p.stops) :
            /\ q.stops[i].start = p.stops[i].start
            /\ q.stops[i] # p.stops[i] =>
                  IsOpen(p.stops[i]) /\ q.stops[i] = [p.stops[i] EXCEPT !.end = p.t]
      /\ ~(q.stops # <<>> /\ IsOpen(q.stops[Len(q.stops)]))
  <2>1. CASE last = 0
    <3>1. q = p
      BY <2>1 DEF StopClosed
    <3>2. ~(p.stops # <<>> /\ IsOpen(p.stops[Len(p.stops)]))
      <4> SUFFICES ASSUME p.stops # <<>>, IsOpen(p.stops[Len(p.stops)])
                   PROVE  FALSE
        OBVIOUS
      <4>1. Len(p.stops) \in 1..Len(p.stops)
        BY <1>2, EmptySeq
      <4> QED
        BY <1>2, <2>1, <4>1, LatestOpenIs
    <3> HIDE DEF q
    <3> QED
      BY <1>1, <3>1, <3>2 DEF LineRecord
  <2>2. CASE last # 0
    <3> DEFINE closed == [p.stops EXCEPT ![last].end = p.t]
    <3>2. q = [p EXCEPT !.stops = closed]
      BY <2>2 DEF StopClosed
    <3>3. /\ closed \in Seq(Stop) /\ Len(closed) = Len(p.stops)
          /\ \A i \in 1..Len(p.stops) :
                /\ closed[i].start = p.stops[i].start
                /\ closed[i] # p.stops[i] =>
                      IsOpen(p.stops[i]) /\ closed[i] = [p.stops[i] EXCEPT !.end = p.t]
          /\ ~IsOpen(closed[Len(closed)])
      BY <1>2, <2>2, ClosedStops
    <3> HIDE DEF closed, q
    <3>4. q \in LineRecord /\ q.stops = closed
      BY <1>1, <3>2, <3>3 DEF LineRecord
    <3> QED
      BY <3>2, <3>3, <3>4
  <2> QED
    BY <2>1, <2>2
<1> HIDE DEF q
<1> DEFINE r == [q EXCEPT !.state = "RUNNING", !.speed = p.setpoint]
<1>4. r \in LineRecord
  BY <1>1, <1>3 DEF LineRecord, LineStates
<1>5. /\ r.t = p.t /\ r.state = "RUNNING" /\ r.fault = p.fault /\ r.comms = p.comms
      /\ r.rejected = p.rejected /\ r.made = p.made /\ r.down = p.down /\ r.stops = q.stops
  BY <1>1, <1>3 DEF LineRecord
<1>6. StopsAreRecorded(r) /\ FaultsShow(r) /\ CountersAgree(r) /\ Continues(p, r)
  <2> HIDE DEF r
  <2>1. \A i \in 1..Len(r.stops) : r.stops[i].start <= r.t
    <3>1. ASSUME NEW i \in 1..Len(p.stops) PROVE q.stops[i].start <= p.t
      BY <1>3 DEF SoundLine, StopsAreRecorded
    <3> QED
      BY <1>3, <1>5, <3>1
  <2>2. StopsAreRecorded(r)
    BY <1>3, <1>5, <2>1 DEF StopsAreRecorded
  <2>3. FaultsShow(r) /\ CountersAgree(r)
    BY <1>5 DEF SoundLine, FaultsShow, CountersAgree
  <2>4. Continues(p, r)
    BY <1>3, <1>5 DEF Continues
  <2> QED
    BY <2>2, <2>3, <2>4
<1>7. Restarted(p) = r
  BY DEF Restarted, q
<1> QED
  BY <1>4, <1>6, <1>7 DEF SoundLine

(* A stop that is opened as the line ceases to run, or has done before.    *)
LEMMA StopOpenedSound ==
    ASSUME NEW p, p \in LineRecord, FaultsShow(p), CountersAgree(p),
           p.state # "RUNNING", \A i \in 1..Len(p.stops) : p.stops[i].start <= p.t
    PROVE  SoundLine(StopOpened(p)) /\ Continues(p, StopOpened(p))
<1> DEFINE opened == Append(p.stops, [start |-> p.t, end |-> None])
           q == [p EXCEPT !.stops = opened]
<1>1. p.stops \in Seq(Stop) /\ p.t \in Nat
  BY DEF LineRecord
<1>2. /\ opened \in Seq(Stop)
      /\ opened # <<>> /\ IsOpen(opened[Len(opened)])
      /\ opened[Len(opened)].start = p.t
      /\ Len(opened) = Len(p.stops) + 1
      /\ \A i \in 1..Len(p.stops) : opened[i] = p.stops[i]
  BY <1>1, OpenedStops
<1>3. StopOpened(p) = q
  BY DEF StopOpened
<1> HIDE DEF opened
<1>4. q \in LineRecord
  BY <1>2 DEF LineRecord
<1>5. /\ q.t = p.t /\ q.state = p.state /\ q.fault = p.fault /\ q.comms = p.comms
      /\ q.rejected = p.rejected /\ q.made = p.made /\ q.down = p.down /\ q.stops = opened
  BY DEF LineRecord
<1>6. \A i \in 1..Len(opened) : opened[i].start <= p.t
  BY <1>1, <1>2
<1> HIDE DEF q
<1>7. SoundLine(q)
  BY <1>2, <1>4, <1>5, <1>6 DEF SoundLine, StopsAreRecorded, FaultsShow, CountersAgree
<1>8. Continues(p, q)
  BY <1>1, <1>2, <1>5, LenProperties DEF Continues
<1> QED
  BY <1>3, <1>7, <1>8

(* Faults and commands keep the line sound, and take no time.              *)
LEMMA StruckSound ==
    ASSUME NEW p, SoundLine(p), NEW f \in Faults, NEW lasts \in Durations \cup {None}
    PROVE  SoundLine(Struck(p, f, lasts)) /\ Continues(p, Struck(p, f, lasts))
<1> DEFINE ends == IF lasts = None THEN None ELSE p.t + lasts
           q == [p EXCEPT !.fault = f, !.until = ends, !.timed = lasts # None,
                          !.speed = FALSE, !.comms = @ /\ f # "comms_drop"]
           r == [q EXCEPT !.state = "FAULT"]
<1>1. p \in LineRecord
  BY DEF SoundLine
<1>2. ends \in Nat \cup {None}
  BY <1>1, LineAssumption DEF LineRecord
<1>c. (p.comms /\ f # "comms_drop") \in BOOLEAN
  OBVIOUS
<1> HIDE DEF ends
<1>3. q \in LineRecord
  BY <1>1, <1>2, <1>c DEF LineRecord
<1>4. r \in LineRecord
  <2> HIDE DEF q
  <2> QED
    BY <1>3 DEF LineRecord, LineStates
<1>5. /\ q.t = p.t /\ q.state = p.state /\ q.fault = f
      /\ q.comms = (p.comms /\ f # "comms_drop")
      /\ q.rejected = p.rejected /\ q.made = p.made /\ q.down = p.down /\ q.stops = p.stops
  BY <1>1 DEF LineRecord
<1>6. /\ r.t = p.t /\ r.state = "FAULT" /\ r.fault = f /\ r.comms = q.comms
      /\ r.rejected = p.rejected /\ r.made = p.made /\ r.down = p.down /\ r.stops = p.stops
  BY <1>3, <1>5 DEF LineRecord
<1>7. CASE f \in Silent \/ p.state = "FAULT"
  <2>1. Struck(p, f, lasts) = q
    BY <1>5, <1>7 DEF Struck, ends
  <2> HIDE DEF q
  <2>2. FaultsShow(q)
    BY <1>5, <1>7, LineAssumption DEF FaultsShow, Silent
  <2> QED
    BY <1>3, <1>5, <2>1, <2>2 DEF SoundLine, StopsAreRecorded, CountersAgree, Continues
<1>8. CASE ~(f \in Silent \/ p.state = "FAULT")
  <2>1. Struck(p, f, lasts) = StopOpened(r)
    BY <1>5, <1>8 DEF Struck, ends
  <2> HIDE DEF r, q
  <2>2. FaultsShow(r)
    BY <1>5, <1>6, <1>8, LineAssumption DEF FaultsShow, Silent, Faults
  <2>3. CountersAgree(r) /\ \A i \in 1..Len(r.stops) : r.stops[i].start <= r.t
    BY <1>6 DEF SoundLine, StopsAreRecorded, CountersAgree
  <2>4. SoundLine(StopOpened(r)) /\ Continues(r, StopOpened(r))
    BY <1>4, <1>6, <2>2, <2>3, StopOpenedSound
  <2>5. Continues(p, StopOpened(r))
    BY <1>6, <2>4 DEF Continues
  <2> QED
    BY <2>1, <2>4, <2>5
<1> QED
  BY <1>7, <1>8

LEMMA ClearedSound ==
    ASSUME NEW p, SoundLine(p)
    PROVE  SoundLine(Cleared(p)) /\ Continues(p, Cleared(p))
<1> DEFINE st == IF p.state = "FAULT" THEN "STOPPED" ELSE p.state
           q == [p EXCEPT !.fault = None, !.until = None, !.timed = FALSE, !.comms = TRUE]
           r == [q EXCEPT !.state = st]
<1>1. p \in LineRecord
  BY DEF SoundLine
<1>2. q \in LineRecord
  BY <1>1 DEF LineRecord
<1>3. st \in LineStates
  BY <1>1 DEF LineRecord, LineStates
<1> HIDE DEF st
<1>4. r \in LineRecord
  BY <1>2, <1>3 DEF LineRecord
<1>5. /\ r.t = p.t /\ r.state = st /\ r.fault = None /\ r.comms = TRUE
      /\ r.rejected = p.rejected /\ r.made = p.made /\ r.down = p.down /\ r.stops = p.stops
  BY <1>1 DEF LineRecord
<1>6. SoundLine(r)
  <2> HIDE DEF r
  <2>1. FaultsShow(r)
    BY <1>5, LineAssumption DEF FaultsShow, st, Faults
  <2> QED
    BY <1>4, <1>5, <2>1 DEF SoundLine, StopsAreRecorded, CountersAgree, st
<1>7. Restarted(r) = Restarted(q)
  BY <1>2 DEF Restarted, StopClosed, LineRecord
<1>8. Cleared(p) = Restarted(q)
  BY DEF Cleared
<1> HIDE DEF r
<1>9. SoundLine(Restarted(r)) /\ Continues(r, Restarted(r))
  BY <1>5, <1>6, RestartedSound, LineAssumption
<1>10. Continues(p, Restarted(r))
  BY <1>5, <1>9 DEF Continues
<1> QED
  BY <1>7, <1>8, <1>9, <1>10

LEMMA StartedSound ==
    ASSUME NEW p, SoundLine(p)
    PROVE  SoundLine(Started(p)) /\ Continues(p, Started(p))
<1>1. CASE p.state = "FAULT"
  BY <1>1 DEF Started, Continues
<1>2. CASE p.state # "FAULT"
  BY <1>2, RestartedSound DEF Started, SoundLine, FaultsShow
<1> QED
  BY <1>1, <1>2

LEMMA StoppedSound ==
    ASSUME NEW p, SoundLine(p)
    PROVE  SoundLine(Stopped(p)) /\ Continues(p, Stopped(p))
<1>1. CASE p.state # "RUNNING"
  BY <1>1 DEF Stopped, Continues
<1>2. CASE p.state = "RUNNING"
  <2> DEFINE q == [p EXCEPT !.state = "STOPPED", !.speed = FALSE]
  <2>1. q \in LineRecord
    BY DEF SoundLine, LineRecord, LineStates
  <2>2. /\ q.t = p.t /\ q.state = "STOPPED" /\ q.fault = p.fault /\ q.comms = p.comms
        /\ q.rejected = p.rejected /\ q.made = p.made /\ q.down = p.down /\ q.stops = p.stops
    BY DEF SoundLine, LineRecord
  <2>3. Stopped(p) = StopOpened(q)
    BY <1>2 DEF Stopped
  <2> HIDE DEF q
  <2>4. FaultsShow(q) /\ CountersAgree(q) /\ \A i \in 1..Len(q.stops) : q.stops[i].start <= q.t
    BY <1>2, <2>2 DEF SoundLine, StopsAreRecorded, FaultsShow, CountersAgree
  <2>5. SoundLine(StopOpened(q)) /\ Continues(q, StopOpened(q))
    BY <2>1, <2>2, <2>4, StopOpenedSound
  <2>6. Continues(p, StopOpened(q))
    BY <2>2, <2>5 DEF Continues
  <2> QED
    BY <2>3, <2>5, <2>6
<1> QED
  BY <1>1, <1>2

LEMMA FirstStruckSound ==
    ASSUME NEW p, SoundLine(p)
    PROVE  SoundLine(FirstStruck(p)) /\ Continues(p, FirstStruck(p))
<1>1. CASE p.schedule = <<>> \/ Head(p.schedule).at > p.t
  BY <1>1 DEF FirstStruck, Continues
<1>2. CASE ~(p.schedule = <<>> \/ Head(p.schedule).at > p.t)
  <2>0. p \in LineRecord /\ p.schedule \in Queue /\ p.schedule # <<>>
    BY <1>2 DEF SoundLine, LineRecord
  <2>1. /\ Head(p.schedule) \in [at : Nat, fault : Faults, lasts : Durations \cup {None}]
        /\ Tail(p.schedule) \in Queue
    BY <2>0, HeadTailProperties DEF Queue
  <2>2. Head(p.schedule).fault \in Faults /\ Head(p.schedule).lasts \in Durations \cup {None}
    BY <2>1
  <2> DEFINE q == Struck(p, Head(p.schedule).fault, Head(p.schedule).lasts)
             r == [q EXCEPT !.schedule = Tail(@)]
  <2>3. SoundLine(q) /\ Continues(p, q)
    BY <2>2, StruckSound
  <2>4. q.schedule = p.schedule
    BY <2>0 DEF Struck, StopOpened, LineRecord
  <2>5. FirstStruck(p) = r
    BY <1>2 DEF FirstStruck
  <2> HIDE DEF q
  <2>6. r \in LineRecord
    BY <2>1, <2>3, <2>4 DEF SoundLine, LineRecord
  <2>7. /\ r.t = q.t /\ r.state = q.state /\ r.fault = q.fault /\ r.comms = q.comms
        /\ r.rejected = q.rejected /\ r.made = q.made /\ r.down = q.down /\ r.stops = q.stops
    BY <2>3 DEF SoundLine, LineRecord
  <2> HIDE DEF r
  <2>8. SoundLine(r)
    BY <2>3, <2>6, <2>7 DEF SoundLine, StopsAreRecorded, FaultsShow, CountersAgree
  <2>9. Continues(p, r)
    BY <2>3, <2>7 DEF Continues
  <2> QED
    BY <2>5, <2>8, <2>9
<1> QED
  BY <1>1, <1>2

IsStrikes(f, m, p) ==
    f = [n \in 0..m |-> IF n = 0 THEN p ELSE FirstStruck(f[n - 1])]

(* The recursive function of Scheduled is well defined ...                 *)
LEMMA StrikesExist ==
    ASSUME NEW p, NEW k \in Nat
    PROVE  \E f : IsStrikes(f, k, p)
<1> DEFINE S == {m \in Nat : \E f : IsStrikes(f, m, p)}
<1>1. 0 \in S
  <2>1. IsStrikes([n \in 0..0 |-> p], 0, p)
    BY DEF IsStrikes
  <2> QED
    BY <2>1
<1>2. ASSUME NEW m \in Nat, m \in S PROVE m + 1 \in S
  <2>1. PICK f : IsStrikes(f, m, p)
    BY <1>2
  <2> DEFINE g == [n \in 0..m + 1 |-> IF n = m + 1 THEN FirstStruck(f[m]) ELSE f[n]]
  <2>2. ASSUME NEW n \in 0..m + 1
        PROVE  g[n] = IF n = 0 THEN p ELSE FirstStruck(g[n - 1])
    <3>1. CASE n = m + 1
      BY <3>1
    <3>2. CASE n \in 0..m
      <4>1. f[n] = IF n = 0 THEN p ELSE FirstStruck(f[n - 1])
        BY <2>1, <3>2 DEF IsStrikes
      <4>2. n # 0 => n - 1 \in 0..m
        BY <3>2
      <4> QED
        BY <3>2, <4>1, <4>2
    <3> QED
      BY <3>1, <3>2
  <2>3. IsStrikes(g, m + 1, p)
    BY <2>2 DEF IsStrikes
  <2> HIDE DEF g
  <2> QED
    BY <2>3
<1> HIDE DEF S
<1>3. k \in S
  BY <1>1, <1>2, InductiveSet
<1> QED
  BY <1>3 DEF S

(* ... and each strike in it keeps the line sound.                         *)
LEMMA ScheduledSound ==
    ASSUME NEW p, SoundLine(p)
    PROVE  SoundLine(Scheduled(p)) /\ Continues(p, Scheduled(p))
<1> DEFINE k == Len(p.schedule)
           f == CHOOSE f : IsStrikes(f, k, p)
           S == {n \in Nat : n <= k => SoundLine(f[n]) /\ Continues(p, f[n])}
<1>1. k \in Nat
  BY DEF SoundLine, LineRecord, Queue
<1>2. IsStrikes(f, k, p)
  BY <1>1, StrikesExist
<1>3. Scheduled(p) = f[k]
  BY DEF Scheduled, IsStrikes
<1> HIDE DEF f, k
<1>4. 0 \in S
  BY <1>1, <1>2 DEF IsStrikes, Continues
<1>5. ASSUME NEW n \in Nat, n \in S PROVE n + 1 \in S
  <2> SUFFICES ASSUME n + 1 <= k
               PROVE  SoundLine(f[n + 1]) /\ Continues(p, f[n + 1])
    OBVIOUS
  <2>1. SoundLine(f[n]) /\ Continues(p, f[n])
    BY <1>1, <1>5
  <2>2. f[n + 1] = FirstStruck(f[n])
    BY <1>1, <1>2 DEF IsStrikes
  <2>3. SoundLine(f[n + 1]) /\ Continues(f[n], f[n + 1])
    BY <2>1, <2>2, FirstStruckSound
  <2> QED
    BY <2>1, <2>3, Unbroken DEF SoundLine
<1> HIDE DEF S
<1>6. k \in S
  BY <1>1, <1>4, <1>5, InductiveSet
<1> QED
  BY <1>3, <1>6 DEF S

LEMMA ExpiredSound ==
    ASSUME NEW p, SoundLine(p)
    PROVE  SoundLine(Expired(p)) /\ Continues(p, Expired(p))
BY ClearedSound DEF Expired, Continues

(* The state machine: a stopping fault finds the line in FAULT already.    *)
LEMMA ControlledSound ==
    ASSUME NEW p, SoundLine(p)
    PROVE  SoundLine(Controlled(p)) /\ Continues(p, Controlled(p))
<1> DEFINE halts == p.fault \in Faults \ Silent
<1>1. CASE halts
  <2> DEFINE q == [p EXCEPT !.state = "FAULT", !.speed = FALSE]
  <2>1. q \in LineRecord /\ p.state = "FAULT"
    BY <1>1 DEF SoundLine, FaultsShow, LineRecord, LineStates
  <2>2. /\ q.t = p.t /\ q.state = p.state /\ q.fault = p.fault /\ q.comms = p.comms
        /\ q.rejected = p.rejected /\ q.made = p.made /\ q.down = p.down /\ q.stops = p.stops
    BY <2>1 DEF SoundLine, LineRecord
  <2>3. Controlled(p) = q
    BY <1>1 DEF Controlled
  <2> HIDE DEF q
  <2> QED
    BY <2>1, <2>2, <2>3
       DEF SoundLine, StopsAreRecorded, FaultsShow, CountersAgree, Continues
<1>2. CASE ~halts /\ p.state = "RUNNING" /\ p.level = "empty"
  <2> DEFINE q == [p EXCEPT !.state = "STARVED", !.speed = FALSE]
  <2>1. q \in LineRecord
    BY DEF SoundLine, LineRecord, LineStates
  <2>2. /\ q.t = p.t /\ q.state = "STARVED" /\ q.fault = p.fault /\ q.comms = p.comms
        /\ q.rejected = p.rejected /\ q.made = p.made /\ q.down = p.down /\ q.stops = p.stops
    BY DEF SoundLine, LineRecord
  <2>3. Controlled(p) = StopOpened(q)
    BY <1>2 DEF Controlled
  <2> HIDE DEF q
  <2>4. FaultsShow(q) /\ CountersAgree(q) /\ \A i \in 1..Len(q.stops) : q.stops[i].start <= q.t
    BY <1>2, <2>2 DEF SoundLine, StopsAreRecorded, FaultsShow, CountersAgree
  <2>5. SoundLine(StopOpened(q)) /\ Continues(q, StopOpened(q))
    BY <2>1, <2>2, <2>4, StopOpenedSound
  <2>6. Continues(p, StopOpened(q))
    BY <2>2, <2>5 DEF Continues
  <2> QED
    BY <2>3, <2>5, <2>6
<1>3. CASE ~halts /\ p.state = "STARVED" /\ p.level = "good"
  <2>1. Controlled(p) = Restarted(p)
    BY <1>3 DEF Controlled
  <2> QED
    BY <1>3, <2>1, RestartedSound
<1>4. CASE /\ ~halts
           /\ ~(p.state = "RUNNING" /\ p.level = "empty")
           /\ ~(p.state = "STARVED" /\ p.level = "good")
  <2>1. Controlled(p) = p
    BY <1>4 DEF Controlled
  <2> QED
    BY <2>1 DEF Continues
<1> QED
  BY <1>1, <1>2, <1>3, <1>4

Produced(p, moving, level, made, rejected) ==
    [p EXCEPT !.moving = moving, !.level = level,
              !.made = @ + made, !.rejected = @ + rejected]

LEMMA CountedSound ==
    ASSUME NEW p, SoundLine(p), NEW m \in BOOLEAN, NEW level \in Levels,
           NEW made \in 0..1, made = 1 => p.made < MaxMade, NEW rejected \in 0..made
    PROVE  LET next == Counted(Produced(p, m, level, made, rejected))
           IN  /\ SoundLine(next)
               /\ next.t = p.t + 1 /\ next.stops = p.stops
               /\ next.down = IF p.state = "RUNNING" THEN p.down ELSE p.down + 1
<1> DEFINE down == IF p.state = "RUNNING" THEN p.down ELSE p.down + 1
           r == [p EXCEPT !.moving = m, !.level = level, !.made = @ + made,
                          !.rejected = @ + rejected]
           q == [r EXCEPT !.down = down, !.t = p.t + 1]
<1>0. p \in LineRecord /\ p.t \in Nat /\ p.stops \in Seq(Stop) /\ p.down \in Nat
  BY DEF SoundLine, LineRecord
<1>1. down \in Nat /\ down <= p.down + 1 /\ (p.state = "RUNNING" => down = p.down)
  BY <1>0
<1>2. /\ p.made + made \in 0..MaxMade /\ p.rejected + rejected \in 0..MaxMade
      /\ p.rejected + rejected <= p.made + made
  BY <1>0, LineAssumption DEF SoundLine, CountersAgree, LineRecord
<1>3. r \in LineRecord
  BY <1>0, <1>2 DEF LineRecord
<1>4. r.state = p.state /\ r.down = p.down /\ r.t = p.t
  BY <1>0 DEF LineRecord
<1>5. Counted(r) = q
  BY <1>4 DEF Counted
<1> HIDE DEF down
<1>6. q \in LineRecord
  <2> DEFINE next == p.t + 1
  <2>1. next \in Nat
    BY <1>0
  <2> HIDE DEF r, next
  <2>2. [r EXCEPT !.down = down, !.t = next] \in LineRecord
    BY <1>1, <1>3, <2>1 DEF LineRecord
  <2> QED
    BY <2>2 DEF next
<1>7. /\ q.t = p.t + 1 /\ q.state = p.state /\ q.fault = p.fault /\ q.comms = p.comms
      /\ q.rejected = p.rejected + rejected /\ q.made = p.made + made
      /\ q.down = down /\ q.stops = p.stops
  BY <1>0 DEF LineRecord
<1>8. \A i \in 1..Len(p.stops) : p.stops[i].start <= p.t + 1
  <2>1. ASSUME NEW i \in 1..Len(p.stops) PROVE p.stops[i].start <= p.t + 1
    <3>1. p.stops[i] \in Stop /\ p.stops[i].start <= p.t
      BY <1>0, ElementOfSeq DEF SoundLine, StopsAreRecorded
    <3> QED
      BY <1>0, <3>1 DEF Stop
  <2> QED
    BY <2>1
<1> HIDE DEF q, r
<1>9. StopsAreRecorded(q) /\ FaultsShow(q)
  BY <1>7, <1>8 DEF SoundLine, StopsAreRecorded, FaultsShow
<1>10. CountersAgree(q)
  BY <1>0, <1>1, <1>2, <1>7 DEF SoundLine, CountersAgree
<1> QED
  BY <1>5, <1>6, <1>7, <1>9, <1>10 DEF SoundLine, r, down, Produced

(* A line that is sound stays so, and its time goes on a second at most.   *)
LineInv ==
    /\ commands \in 0..MaxCommands
    /\ SoundLine(plc) /\ plc.t <= MaxTime

LEMMA InitLineSound == InitLine => LineInv /\ plc.t = 0 /\ plc.comms
<1> SUFFICES ASSUME InitLine PROVE LineInv /\ plc.t = 0 /\ plc.comms
  OBVIOUS
<1>1. PICK queue \in Schedules :
        plc = [t |-> 0, state |-> "RUNNING", fault |-> None, until |-> None,
               timed |-> FALSE, schedule |-> queue, speed |-> TRUE, setpoint |-> TRUE,
               moving |-> TRUE, level |-> "good", comms |-> TRUE,
               made |-> 0, rejected |-> 0, down |-> 0, stops |-> <<>>]
  BY DEF InitLine
<1>2. plc \in LineRecord
  <2> DEFINE Q == [at : Nat, fault : Faults, lasts : Durations \cup {None}]
  <2>0. Queue = Seq(Q) /\ Schedules \subseteq Seq(Q)
    BY LineAssumption DEF Queue
  <2> HIDE DEF Q
  <2>1. queue \in Queue /\ MaxMade \in Nat /\ <<>> \in Seq(Stop)
    BY <2>0, LineAssumption
  <2> QED
    BY <1>1, <2>1 DEF LineRecord, LineStates, Levels
<1>3. /\ plc.t = 0 /\ plc.state = "RUNNING" /\ plc.fault = None /\ plc.comms
      /\ plc.made = 0 /\ plc.rejected = 0 /\ plc.down = 0 /\ plc.stops = <<>>
  BY <1>1
<1>4. FaultsShow(plc)
  BY <1>3, LineAssumption DEF FaultsShow, Faults
<1>5. StopsAreRecorded(plc) /\ CountersAgree(plc)
  BY <1>3 DEF StopsAreRecorded, CountersAgree
<1>6. commands \in 0..MaxCommands /\ 0 <= MaxTime
  BY LineAssumption DEF InitLine
<1> QED
  BY <1>2, <1>3, <1>4, <1>5, <1>6 DEF LineInv, SoundLine

(* A record that goes on from the line's is one that grows.                *)
LEMMA RecordKept ==
    ASSUME NEW p, SoundLine(plc), Continues(plc, p), plc'.stops = p.stops, p \in LineRecord
    PROVE  RecordGrows
<1>1. DOMAIN plc.stops = 1..Len(plc.stops) /\ DOMAIN plc'.stops = 1..Len(plc'.stops)
  BY LenProperties DEF SoundLine, LineRecord
<1> QED
  BY <1>1 DEF RecordGrows, Continues

LEMMA CommandSound ==
    ASSUME LineInv, Command
    PROVE  LineInv' /\ plc'.t = plc.t /\ StandstillsAreRecorded
<1>0. SoundLine(plc) /\ plc.t <= MaxTime /\ commands \in 0..MaxCommands
  BY DEF LineInv
<1>1. ASSUME NEW p, SoundLine(p), Continues(plc, p), Commanded(p)
      PROVE  LineInv' /\ plc'.t = plc.t /\ StandstillsAreRecorded
  <2>1. plc' = p /\ plc'.t = plc.t
    BY <1>1 DEF Commanded, Continues
  <2>2. LineInv'
    BY <1>0, <1>1, <2>1, LineAssumption DEF Commanded, LineInv
  <2>3. RecordGrows
    BY <1>0, <1>1, <2>1, RecordKept DEF SoundLine
  <2> QED
    BY <2>1, <2>2, <2>3 DEF StandstillsAreRecorded
<1>2. CASE CommandStart
  BY <1>0, <1>1, <1>2, StartedSound DEF CommandStart
<1>3. CASE CommandStop
  BY <1>0, <1>1, <1>3, StoppedSound DEF CommandStop
<1>4. CASE CommandReset
  BY <1>0, <1>1, <1>4, ClearedSound DEF CommandReset
<1>5. CASE CommandSpeed
  <2>1. PICK moves \in BOOLEAN : Commanded([plc EXCEPT !.speed = moves, !.setpoint = moves])
    BY <1>5 DEF CommandSpeed
  <2> DEFINE q == [plc EXCEPT !.speed = moves, !.setpoint = moves]
  <2>2. q \in LineRecord
    BY <1>0 DEF SoundLine, LineRecord
  <2>3. /\ q.t = plc.t /\ q.state = plc.state /\ q.fault = plc.fault /\ q.comms = plc.comms
        /\ q.rejected = plc.rejected /\ q.made = plc.made /\ q.down = plc.down
        /\ q.stops = plc.stops
    BY <1>0 DEF SoundLine, LineRecord
  <2> HIDE DEF q
  <2>4. SoundLine(q)
    BY <1>0, <2>2, <2>3 DEF SoundLine, StopsAreRecorded, FaultsShow, CountersAgree
  <2>5. Commanded(q)
    BY <2>1 DEF q
  <2>6. Continues(plc, q)
    BY <2>3 DEF Continues
  <2> QED
    BY <1>1, <2>4, <2>5, <2>6
<1>6. CASE InjectFault
  BY <1>0, <1>1, <1>6, StruckSound DEF InjectFault
<1> QED
  BY <1>2, <1>3, <1>4, <1>5, <1>6 DEF Command

LEMMA StepSound ==
    ASSUME LineInv, Step
    PROVE  LineInv' /\ plc'.t = plc.t + 1 /\ StandstillsAreRecorded
<1> DEFINE p == Controlled(Expired(Scheduled(plc)))
           q == Expired(Scheduled(plc))
<1>0. SoundLine(plc) /\ plc \in LineRecord
  BY DEF LineInv, SoundLine
<1>1. SoundLine(p) /\ Continues(plc, p)
  <2>1. SoundLine(Scheduled(plc)) /\ Continues(plc, Scheduled(plc))
    BY <1>0, ScheduledSound
  <2>2. SoundLine(q) /\ Continues(Scheduled(plc), q)
    BY <2>1, ExpiredSound
  <2> HIDE DEF q
  <2>3. SoundLine(Controlled(q)) /\ Continues(q, Controlled(q))
    BY <2>2, ControlledSound
  <2>4. Continues(plc, q)
    BY <1>0, <2>1, <2>2, Unbroken
  <2>5. Continues(plc, Controlled(q))
    BY <1>0, <2>3, <2>4, Unbroken
  <2> QED
    BY <2>3, <2>5 DEF q
<1>2. plc.t < MaxTime /\ UNCHANGED commands
  BY DEF Step
<1>3a. PICK moving \in Moves(p), level \in LevelAfter(p) :
         \E made \in Bottles([p EXCEPT !.moving = moving]) :
         \E rejected \in 0..made, left \in Drained(level, made) :
             plc' = Counted([p EXCEPT !.moving = moving, !.level = left,
                                      !.made = @ + made, !.rejected = @ + rejected])
  BY DEF Step
<1>3b. PICK made \in Bottles([p EXCEPT !.moving = moving]) :
         \E rejected \in 0..made, left \in Drained(level, made) :
             plc' = Counted([p EXCEPT !.moving = moving, !.level = left,
                                      !.made = @ + made, !.rejected = @ + rejected])
  BY <1>3a
<1>3. PICK rejected \in 0..made, left \in Drained(level, made) :
        plc' = Counted([p EXCEPT !.moving = moving, !.level = left,
                                 !.made = @ + made, !.rejected = @ + rejected])
  BY <1>3b
<1> HIDE DEF p
<1>4. p \in LineRecord
  BY <1>1 DEF SoundLine
<1>5. moving \in BOOLEAN
  BY <1>4 DEF Moves, LineRecord
<1>6. left \in Levels
  BY <1>4 DEF LevelAfter, Drained, LineRecord, Levels
<1>7. made \in 0..1 /\ (made = 1 => p.made < MaxMade)
  BY <1>4 DEF Bottles, LineRecord
<1>8. /\ SoundLine(plc')
      /\ plc'.t = p.t + 1 /\ plc'.stops = p.stops
      /\ plc'.down = IF p.state = "RUNNING" THEN p.down ELSE p.down + 1
  <2>1. made \in 0..1 /\ rejected \in 0..made /\ moving \in BOOLEAN /\ left \in Levels
    BY <1>5, <1>6, <1>7
  <2>2. plc' = Counted(Produced(p, moving, left, made, rejected))
    BY <1>3 DEF Produced
  <2> QED
    BY <1>1, <1>7, <2>1, <2>2, CountedSound
<1>9. /\ plc.t \in Nat /\ plc.down \in Nat /\ p.t = plc.t /\ p.down = plc.down
      /\ p.stops \in Seq(Stop)
  BY <1>0, <1>1, <1>4 DEF LineRecord, Continues
<1>10. LineInv' /\ plc'.t = plc.t + 1
  BY <1>2, <1>8, <1>9, LineAssumption DEF LineInv
<1>11. RecordGrows
  BY <1>0, <1>1, <1>4, <1>8, RecordKept
<1>12. StandsInRecord(plc') <=> plc'.down = plc.down + 1
  <2>1. StandsInRecord(plc') <=> p.stops # <<>> /\ IsOpen(p.stops[Len(p.stops)])
    <3> SUFFICES ASSUME p.stops # <<>> PROVE p.stops[Len(p.stops)].start < p.t + 1
      BY <1>8 DEF StandsInRecord, Last
    <3>1. Len(p.stops) \in 1..Len(p.stops)
      BY <1>9, EmptySeq
    <3>2. p.stops[Len(p.stops)] \in Stop /\ p.stops[Len(p.stops)].start <= p.t
      BY <1>1, <1>9, <3>1, ElementOfSeq DEF SoundLine, StopsAreRecorded
    <3> QED
      BY <1>9, <3>2 DEF Stop
  <2>2. p.state # "RUNNING" <=> p.stops # <<>> /\ IsOpen(p.stops[Len(p.stops)])
    BY <1>1 DEF SoundLine, StopsAreRecorded
  <2> QED
    BY <1>8, <1>9, <2>1, <2>2
<1> QED
  BY <1>10, <1>11, <1>12 DEF StandstillsAreRecorded

-----------------------------------------------------------------------------
(* The downtime tracker                                                    *)

(* What the stops of a set cost: a total, or a row of the Pareto.          *)
Costs(es, chosen) == [i \in 1..Len(es) |-> IF es[i] \in chosen THEN Duration(es[i]) ELSE 0]

OfCategory(c) == {e \in Event : e.category = c}

OfReason(r) == {e \in Event : e.category = "unplanned" /\ e.reason = r}

LEMMA TotalIsCost ==
    ASSUME NEW es \in Seq(Event), NEW c
    PROVE  Total(es, c) = SumOf(Costs(es, OfCategory(c)))
<1>1. \A i \in 1..Len(es) : es[i] \in Event
  BY ElementOfSeq
<1>2. [i \in 1..Len(es) |-> IF es[i].category = c THEN Duration(es[i]) ELSE 0]
      = Costs(es, OfCategory(c))
  BY <1>1 DEF Costs, OfCategory
<1> QED
  BY <1>2 DEF Total, Charges

LEMMA LostIsCost ==
    ASSUME NEW es \in Seq(Event), NEW r
    PROVE  Lost(es, r) = SumOf(Costs(es, OfReason(r)))
<1>1. \A i \in 1..Len(es) : es[i] \in Event
  BY ElementOfSeq
<1>2. [i \in 1..Len(es) |->
           IF es[i].category = "unplanned" /\ es[i].reason = r THEN Duration(es[i]) ELSE 0]
      = Costs(es, OfReason(r))
  BY <1>1 DEF Costs, OfReason
<1> QED
  BY <1>2 DEF Lost, Charges

LEMMA DurationIsNat ==
    ASSUME NEW e \in Event
    PROVE  Duration(e) \in Nat
BY StopsAssumption DEF Event, Duration, IsOpen

LEMMA CostsType ==
    ASSUME NEW es \in Seq(Event), NEW chosen
    PROVE  /\ Costs(es, chosen) \in Seq(Int)
           /\ Len(Costs(es, chosen)) = Len(es)
           /\ SumOf(Costs(es, chosen)) \in Int
<1> DEFINE s == Costs(es, chosen)
<1>1. \A i \in 1..Len(es) : s[i] \in Int
  BY ElementOfSeq, DurationIsNat DEF Costs
<1>2. s \in Seq(Int) /\ Len(s) = Len(es)
  BY <1>1 DEF Costs
<1> HIDE DEF s
<1>3. PICK f : IsPartialSums(f, s) /\ SumOf(s) = f[Len(s)]
  BY <1>2, SumOfIs
<1>4. f[Len(s)] \in Int
  BY <1>2, <1>3, PartialSumsAgree
<1> QED
  BY <1>2, <1>3, <1>4 DEF s

(* A stop under way costs nothing yet ...                                  *)
LEMMA StartCosts ==
    ASSUME NEW es \in Seq(Event), NEW chosen, NEW e \in Event, IsOpen(e)
    PROVE  SumOf(Costs(Append(es, e), chosen)) = SumOf(Costs(es, chosen))
<1> DEFINE new == Append(es, e)
           s == Costs(new, chosen)
           r == Costs(es, chosen)
<1>1. new \in Seq(Event) /\ Len(new) = Len(es) + 1 /\ new[Len(new)] = e
      /\ \A i \in 1..Len(es) : new[i] = es[i]
  OBVIOUS
<1> HIDE DEF new
<1>2. s \in Seq(Int) /\ r \in Seq(Int) /\ Len(s) = Len(new) /\ Len(r) = Len(es)
  BY <1>1, CostsType
<1>3. (\A i \in 1..Len(r) : s[i] = r[i]) /\ s[Len(s)] = 0
  BY <1>1, <1>2 DEF Costs, Duration
<1> HIDE DEF s, r
<1>4. SumOf(r) \in Int /\ SumOf(s) = SumOf(r) + s[Len(s)]
  BY <1>1, <1>2, <1>3, SumOfLast
<1> QED
  BY <1>3, <1>4 DEF s, r, new

(* ... and all its duration once it has ended.                             *)
LEMMA EndCosts ==
    ASSUME NEW es \in Seq(Event), NEW chosen, es # <<>>, IsOpen(es[Len(es)]),
           NEW e \in Event
    PROVE  SumOf(Costs([es EXCEPT ![Len(es)] = e], chosen))
             = SumOf(Costs(es, chosen)) + IF e \in chosen THEN Duration(e) ELSE 0
<1> DEFINE n == Len(es)
           new == [es EXCEPT ![n] = e]
           rest == SubSeq(es, 1, n - 1)
           s == Costs(new, chosen)
           r == Costs(es, chosen)
           q == Costs(rest, chosen)
<1>1. n \in Nat \ {0} /\ n = Len(es) /\ n \in 1..Len(es) /\ DOMAIN es = 1..n
  BY EmptySeq
<1> HIDE DEF n
<1>2. new \in Seq(Event) /\ Len(new) = n /\ new[n] = e
      /\ \A i \in 1..n - 1 : new[i] = es[i]
  BY <1>1, ExceptSeq
<1>3. rest \in Seq(Event) /\ Len(rest) = n - 1 /\ \A i \in 1..n - 1 : rest[i] = es[i]
  BY <1>1, SubSeqProperties
<1> HIDE DEF new, rest
<1>4. /\ s \in Seq(Int) /\ r \in Seq(Int) /\ q \in Seq(Int)
      /\ Len(s) = n /\ Len(r) = n /\ Len(q) = n - 1
  BY <1>2, <1>3, CostsType DEF n
<1>5. \A i \in 1..n - 1 : s[i] = q[i] /\ r[i] = q[i]
  BY <1>1, <1>2, <1>3 DEF Costs, n
<1>6. r[n] = 0 /\ s[n] = IF e \in chosen THEN Duration(e) ELSE 0
  BY <1>1, <1>2 DEF Costs, Duration, n
<1> HIDE DEF s, r, q
<1>7. SumOf(q) \in Int /\ SumOf(s) = SumOf(q) + s[n] /\ SumOf(r) = SumOf(q) + r[n]
  <2>1. Len(s) = Len(q) + 1 /\ Len(r) = Len(q) + 1
    BY <1>1, <1>4
  <2>2. \A i \in 1..Len(q) : s[i] = q[i] /\ r[i] = q[i]
    BY <1>4, <1>5
  <2>3. SumOf(q) \in Int /\ SumOf(s) = SumOf(q) + s[Len(s)]
    BY <1>4, <2>1, <2>2, SumOfLast
  <2>4. SumOf(r) = SumOf(q) + r[Len(r)]
    BY <1>4, <2>1, <2>2, SumOfLast
  <2> QED
    BY <1>4, <2>3, <2>4
<1>8. (IF e \in chosen THEN Duration(e) ELSE 0) \in Int
  BY DurationIsNat
<1> QED
  BY <1>6, <1>7, <1>8 DEF s, r, new, n

UnderWay(es) == es # <<>> /\ IsOpen(es[Len(es)])

(* The stops of the tracker follow one another: only the last may be open, *)
(* and what those before it cost lies before its start.                    *)
SoundEvents(es, t) ==
    /\ es \in Seq(Event)
    /\ \A i \in 1..Len(es) :
           es[i].category = "unplanned" /\ es[i].start <= t /\ (IsOpen(es[i]) => i = Len(es))
    /\ Total(es, "planned") = 0
    /\ Total(es, "unplanned") \in Nat
    /\ Total(es, "unplanned") <= IF UnderWay(es) THEN es[Len(es)].start ELSE t

LEMMA LatestOpenIsLast ==
    ASSUME NEW es, NEW t, SoundEvents(es, t)
    PROVE  LatestOpen(es) = IF UnderWay(es) THEN Len(es) ELSE 0
<1>1. es \in Seq(Event)
  BY DEF SoundEvents
<1>2. /\ LatestOpen(es) \in 0..Len(es)
      /\ LatestOpen(es) # 0 => IsOpen(es[LatestOpen(es)])
      /\ \A i \in 1..Len(es) : IsOpen(es[i]) => i <= LatestOpen(es)
  BY <1>1, LatestOpenIs
<1>3. CASE UnderWay(es)
  <2>1. Len(es) \in 1..Len(es)
    BY <1>1, <1>3, EmptySeq DEF UnderWay
  <2> QED
    BY <1>2, <1>3, <2>1 DEF UnderWay
<1>4. CASE ~UnderWay(es)
  <2>1. ASSUME LatestOpen(es) # 0 PROVE FALSE
    <3>1. LatestOpen(es) \in 1..Len(es) /\ IsOpen(es[LatestOpen(es)])
      BY <1>1, <1>2, <2>1
    <3>2. LatestOpen(es) = Len(es)
      BY <3>1 DEF SoundEvents
    <3> QED
      BY <1>4, <3>1, <3>2 DEF UnderWay
  <2> QED
    BY <1>4, <2>1
<1> QED
  BY <1>3, <1>4

(* A stop is recorded when none is under way ...                           *)
LEMMA StopStarts ==
    ASSUME NEW es, NEW t \in Nat, SoundEvents(es, t), ~UnderWay(es), NEW reason \in Reasons
    PROVE  LET new == StartStop(es, t, reason, "unplanned")
           IN  /\ SoundEvents(new, t) /\ UnderWay(new)
               /\ new[Len(new)].start = t /\ new[Len(new)].reason = reason
               /\ \A r : Lost(new, r) = Lost(es, r)
<1> DEFINE e == [start |-> t, end |-> None, reason |-> reason, category |-> "unplanned"]
           new == Append(es, e)
<1>1. es \in Seq(Event)
  BY DEF SoundEvents
<1>2. StartStop(es, t, reason, "unplanned") = new
  BY LatestOpenIsLast DEF StartStop
<1>3. e \in Event /\ IsOpen(e) /\ e.start = t /\ e.reason = reason /\ e.category = "unplanned"
  BY DEF Event, Categories, IsOpen
<1> HIDE DEF e
<1>4. /\ new \in Seq(Event) /\ Len(new) = Len(es) + 1 /\ new[Len(new)] = e /\ new # <<>>
      /\ \A i \in 1..Len(es) : new[i] = es[i]
  BY <1>1, <1>3
<1>5. \A chosen : SumOf(Costs(new, chosen)) = SumOf(Costs(es, chosen))
  BY <1>1, <1>3, StartCosts
<1> HIDE DEF new
<1>6. \A c : Total(new, c) = Total(es, c)
  BY <1>1, <1>4, <1>5, TotalIsCost
<1>7. \A r : Lost(new, r) = Lost(es, r)
  BY <1>1, <1>4, <1>5, LostIsCost
<1>8. UnderWay(new)
  BY <1>3, <1>4 DEF UnderWay
<1>9. ASSUME NEW i \in 1..Len(new)
      PROVE  /\ new[i].category = "unplanned" /\ new[i].start <= t
             /\ IsOpen(new[i]) => i = Len(new)
  <2>1. CASE i = Len(new)
    BY <1>3, <1>4, <2>1
  <2>2. CASE i # Len(new)
    <3>1. i \in 1..Len(es) /\ new[i] = es[i]
      BY <1>1, <1>4, <2>2
    <3>2. ~IsOpen(es[i])
      <4>1. ASSUME IsOpen(es[i]) PROVE FALSE
        <5>1. i = Len(es) /\ es # <<>>
          BY <3>1, <4>1, <1>1 DEF SoundEvents
        <5> QED
          BY <4>1, <5>1 DEF UnderWay
      <4> QED
        BY <4>1
    <3> QED
      BY <3>1, <3>2 DEF SoundEvents
  <2> QED
    BY <2>1, <2>2
<1>10. SoundEvents(new, t)
  BY <1>3, <1>4, <1>6, <1>8, <1>9 DEF SoundEvents
<1> QED
  BY <1>2, <1>3, <1>4, <1>7, <1>8, <1>10

(* ... and charged for all its duration, to its reason, when it ends.      *)
LEMMA StopEnds ==
    ASSUME NEW es, NEW t \in Nat, SoundEvents(es, t), UnderWay(es)
    PROVE  LET new == EndStop(es, t)
               last == es[Len(es)]
           IN  /\ SoundEvents(new, t) /\ ~UnderWay(new)
               /\ last.start \in Nat /\ last.reason \in Reasons
               /\ \A r : Lost(new, r) = Lost(es, r) + IF r = last.reason THEN t - last.start ELSE 0
<1> DEFINE n == Len(es)
           last == es[n]
           e == [last EXCEPT !.end = t]
           new == [es EXCEPT ![n] = e]
<1>1. es \in Seq(Event) /\ n \in 1..Len(es) /\ n = Len(es) /\ n # 0
  BY EmptySeq DEF SoundEvents, UnderWay
<1>2. /\ last \in Event /\ IsOpen(last) /\ last.start \in Nat /\ last.start <= t
      /\ last.reason \in Reasons /\ last.category = "unplanned"
  <2>1. last \in Event
    BY <1>1, ElementOfSeq
  <2> QED
    BY <1>1, <2>1 DEF SoundEvents, UnderWay, Event
<1>3. EndStop(es, t) = new
  <2>1. LatestOpen(es) = n
    BY LatestOpenIsLast
  <2> QED
    BY <1>1, <1>2, <2>1 DEF EndStop, Closed
<1> HIDE DEF n, last
<1>4. /\ e \in Event /\ ~IsOpen(e) /\ e.start = last.start /\ e.reason = last.reason
      /\ e.category = "unplanned" /\ Duration(e) = t - last.start
  BY <1>2, StopsAssumption DEF Event, IsOpen, Duration
<1> HIDE DEF e
<1>5. /\ new \in Seq(Event) /\ Len(new) = n
      /\ \A i \in 1..n : new[i] = IF i = n THEN e ELSE es[i]
  BY <1>1, <1>4, ExceptSeq
<1>6. \A chosen : SumOf(Costs(new, chosen))
                   = SumOf(Costs(es, chosen)) + IF e \in chosen THEN t - last.start ELSE 0
  BY <1>1, <1>2, <1>4, EndCosts DEF UnderWay, n, last
<1> HIDE DEF new
<1>7. \A c : Total(new, c) = Total(es, c) + IF c = "unplanned" THEN t - last.start ELSE 0
  <2>1. \A c : e \in OfCategory(c) <=> c = "unplanned"
    BY <1>4 DEF OfCategory
  <2> QED
    BY <1>1, <1>5, <1>6, <2>1, TotalIsCost
<1>8. \A r : Lost(new, r) = Lost(es, r) + IF r = last.reason THEN t - last.start ELSE 0
  <2>1. \A r : e \in OfReason(r) <=> r = last.reason
    BY <1>4 DEF OfReason
  <2> QED
    BY <1>1, <1>5, <1>6, <2>1, LostIsCost
<1>9. ~UnderWay(new)
  BY <1>1, <1>4, <1>5 DEF UnderWay
<1>10. \A i \in 1..Len(new) :
          new[i].category = "unplanned" /\ new[i].start <= t /\ (IsOpen(new[i]) => i = Len(new))
  BY <1>1, <1>2, <1>4, <1>5 DEF SoundEvents
<1>11. /\ Total(new, "planned") = 0 /\ Total(new, "unplanned") \in Nat
       /\ Total(new, "unplanned") <= t
  <2>1. Total(es, "planned") = 0 /\ Total(es, "unplanned") \in Nat
        /\ Total(es, "unplanned") <= last.start
    BY DEF SoundEvents, n, last
  <2>2. /\ Total(new, "planned") = Total(es, "planned") + 0
        /\ Total(new, "unplanned") = Total(es, "unplanned") + (t - last.start)
    BY <1>7
  <2> QED
    BY <1>2, <2>1, <2>2
<1>12. SoundEvents(new, t)
  BY <1>5, <1>9, <1>10, <1>11 DEF SoundEvents
<1> QED
  BY <1>2, <1>3, <1>8, <1>9, <1>12 DEF n, last

(* What is under way already is not recorded again, what is not cannot end.*)
LEMMA NoStopEnds ==
    ASSUME NEW es, NEW t, NEW u, SoundEvents(es, t), ~UnderWay(es)
    PROVE  EndStop(es, u) = es
BY LatestOpenIsLast DEF EndStop

(* Closing all that is open is ending the last.                            *)
LEMMA AllClosed ==
    ASSUME NEW es, NEW t, NEW u, SoundEvents(es, t)
    PROVE  CloseAll(es, u) = EndStop(es, u)
<1>1. es \in Seq(Event) /\ DOMAIN es = 1..Len(es)
  BY LenProperties DEF SoundEvents
<1>2. \A i \in 1..Len(es) : Closed(es[i], u) = IF i = LatestOpen(es) THEN Closed(es[i], u) ELSE es[i]
  BY <1>1, LatestOpenIsLast DEF SoundEvents, UnderWay, Closed
<1>3. CASE LatestOpen(es) = 0
  <2>1. CloseAll(es, u) = [i \in 1..Len(es) |-> es[i]]
    BY <1>1, <1>2, <1>3 DEF CloseAll
  <2>2. es = [i \in 1..Len(es) |-> es[i]]
    BY <1>1
  <2> QED
    BY <1>3, <2>1, <2>2 DEF EndStop
<1>4. CASE LatestOpen(es) # 0
  <2> DEFINE n == LatestOpen(es)
  <2>1. EndStop(es, u) = [es EXCEPT ![n] = Closed(es[n], u)]
    BY <1>4 DEF EndStop
  <2> HIDE DEF n
  <2>2. [es EXCEPT ![n] = Closed(es[n], u)]
        = [i \in 1..Len(es) |-> IF i = n THEN Closed(es[i], u) ELSE es[i]]
    BY <1>1
  <2>3. CloseAll(es, u) = [i \in 1..Len(es) |-> IF i = n THEN Closed(es[i], u) ELSE es[i]]
    BY <1>1, <1>2 DEF CloseAll, n
  <2> QED
    BY <2>1, <2>2, <2>3
<1> QED
  BY <1>3, <1>4

LEMMA EventsLater ==
    ASSUME NEW es, NEW t \in Nat, NEW u \in Nat, t <= u, SoundEvents(es, t)
    PROVE  SoundEvents(es, u)
<1>1. \A i \in 1..Len(es) : es[i].start \in Nat
  <2>1. \A i \in 1..Len(es) : es[i] \in Event
    BY ElementOfSeq DEF SoundEvents
  <2> QED
    BY <2>1 DEF Event
<1>2. ASSUME NEW i \in 1..Len(es) PROVE es[i].start <= u
  BY <1>1 DEF SoundEvents
<1>3. Total(es, "unplanned") <= IF UnderWay(es) THEN es[Len(es)].start ELSE u
  BY DEF SoundEvents
<1> QED
  BY <1>2, <1>3 DEF SoundEvents

LEMMA NoEvents == SoundEvents(<<>>, 0) /\ ~UnderWay(<<>>) /\ \A r : Lost(<<>>, r) = 0
<1>1. <<>> \in Seq(Event) /\ Len(<<>>) = 0
  OBVIOUS
<1>2. \A chosen : SumOf(Costs(<<>>, chosen)) = 0
  <2>1. \A chosen : Costs(<<>>, chosen) = <<>>
    BY CostsType, <1>1, EmptySeq
  <2> QED
    BY <2>1, SumOfEmpty
<1>3. (\A c : Total(<<>>, c) = 0) /\ (\A r : Lost(<<>>, r) = 0)
  BY <1>1, <1>2, TotalIsCost, LostIsCost
<1> QED
  BY <1>1, <1>3 DEF SoundEvents, UnderWay

-----------------------------------------------------------------------------
(* The scan cycle                                                          *)

(* The inductive invariant: both records of stops are in order, and the    *)
(* tracker has a stop under way just when the last good scan found the     *)
(* line standing and the shift is not over.                                *)
Inv ==
    /\ LineInv
    /\ SoundEvents(events, plc.t)
    /\ counts \in [total : 0..MaxMade, rejects : 0..MaxMade]
    /\ counts.rejects <= counts.total
    /\ lastRunning \in BOOLEAN \cup {None}
    /\ over \in BOOLEAN
    /\ UnderWay(events) <=> ~over /\ lastRunning = FALSE

(* What a scan that reaches the line finds.                                *)
LEMMA ScanFinds ==
    ASSUME LineInv, Read(plc) # None
    PROVE  LET values == Read(plc)
           IN  /\ plc.comms /\ values = Values(plc)
               /\ IsRunning(values) \in BOOLEAN
               /\ IsRunning(values) <=> plc.state = "RUNNING"
               /\ Counters(values) \in [total : 0..MaxMade, rejects : 0..MaxMade]
               /\ Counters(values).rejects <= Counters(values).total
               /\ ~IsRunning(values) => Reason(values) \in Reasons /\ Reason(values) = Cause
<1>1. plc \in LineRecord /\ FaultsShow(plc) /\ CountersAgree(plc)
  BY DEF LineInv, SoundLine
<1>2. plc.comms /\ Read(plc) = Values(plc)
  BY DEF Read
<1> DEFINE values == Values(plc)
<1>3. /\ values.line_state = plc.state /\ values.fault_code = plc.fault
      /\ values.product_count = plc.made /\ values.reject_count = plc.rejected
  BY DEF Values
<1> HIDE DEF values
<1>4. IsRunning(values) \in BOOLEAN /\ (IsRunning(values) <=> plc.state = "RUNNING")
  BY <1>3 DEF IsRunning
<1>5. /\ Counters(values) \in [total : 0..MaxMade, rejects : 0..MaxMade]
      /\ Counters(values).rejects <= Counters(values).total
  BY <1>1, <1>3 DEF Counters, LineRecord, CountersAgree
<1>6. ASSUME plc.state # "RUNNING" PROVE Reason(values) \in Reasons /\ Reason(values) = Cause
  <2>1. plc.fault # "comms_drop" /\ (plc.state = "FAULT" => plc.fault # None)
    BY <1>1, <1>2 DEF FaultsShow
  <2>2. plc.fault \in Faults \cup {None} /\ plc.state \in LineStates /\ None \notin Faults
    BY <1>1, LineAssumption DEF LineRecord
  <2>3. CASE plc.fault # None
    <3>1. plc.fault \in {"jam", "low_tank", "sensor_stuck"}
      BY <2>1, <2>2, <2>3 DEF Faults
    <3>2. Reason(values) = FaultReason(plc.fault)
      BY <1>3, <2>3 DEF Reason
    <3>3. CASE plc.fault = "jam"
      BY <2>3, <3>2, <3>3 DEF FaultReason, Cause, Reasons
    <3>4. CASE plc.fault = "low_tank"
      BY <3>2, <3>4 DEF FaultReason, Cause, Reasons
    <3>5. CASE plc.fault = "sensor_stuck"
      BY <2>3, <3>2, <3>5 DEF FaultReason, Cause, Reasons
    <3> QED
      BY <3>1, <3>3, <3>4, <3>5
  <2>4. CASE plc.fault = None
    <3>1. plc.state \in {"STOPPED", "STARVED"}
      BY <1>6, <2>1, <2>2, <2>4 DEF LineStates
    <3>2. Reason(values) = StateReason(plc.state)
      BY <1>3, <2>4 DEF Reason
    <3>3. plc.fault \notin {"jam", "low_tank", "sensor_stuck"}
      BY <2>2, <2>4 DEF Faults
    <3> QED
      BY <2>4, <3>1, <3>2, <3>3 DEF StateReason, Cause, Reasons
  <2> QED
    BY <2>3, <2>4
<1> QED
  BY <1>2, <1>4, <1>5, <1>6 DEF values

LEMMA InitInv == Init => Inv
<1> SUFFICES ASSUME Init PROVE Inv
  OBVIOUS
<1>1. LineInv /\ plc.t = 0
  BY InitLineSound DEF Init
<1>2. counts \in [total : 0..MaxMade, rejects : 0..MaxMade] /\ counts.rejects <= counts.total
  BY LineAssumption DEF Init
<1>3. events = <<>> /\ lastRunning = None /\ over = FALSE /\ None \notin BOOLEAN
  BY RuntimeAssumption DEF Init
<1>4. SoundEvents(events, plc.t) /\ ~UnderWay(events)
  BY <1>1, <1>3, NoEvents
<1> QED
  BY <1>1, <1>2, <1>3, <1>4 DEF Inv

LEMMA NextInv == Inv /\ [Next]_vars => Inv'
<1> SUFFICES ASSUME Inv, [Next]_vars PROVE Inv'
  OBVIOUS
<1>0. /\ LineInv /\ SoundEvents(events, plc.t) /\ plc.t \in Nat
      /\ lastRunning \in BOOLEAN \cup {None}
      /\ UnderWay(events) <=> ~over /\ lastRunning = FALSE
  BY DEF Inv, LineInv, SoundLine, LineRecord
<1>1. CASE LineActs
  <2>1. LineInv' /\ plc'.t = plc.t /\ UNCHANGED kept
    BY <1>0, <1>1, CommandSound DEF LineActs
  <2> QED
    BY <2>1 DEF Inv, kept
<1>2. CASE LineSteps
  <2>1. LineInv' /\ plc'.t = plc.t + 1 /\ UNCHANGED kept
    BY <1>0, <1>2, StepSound DEF LineSteps
  <2>2. SoundEvents(events, plc.t + 1)
    BY <1>0, EventsLater
  <2> QED
    BY <2>1, <2>2 DEF Inv, kept
<1>3. CASE PollFails
  BY <1>3 DEF PollFails, vars, kept, Inv, LineInv
<1>4. CASE PollSame
  <2>1. /\ counts' \in [total : 0..MaxMade, rejects : 0..MaxMade]
        /\ counts'.rejects <= counts'.total
    BY <1>0, <1>4, ScanFinds DEF PollSame
  <2> QED
    BY <1>4, <2>1 DEF PollSame, Inv, LineInv
<1>5. CASE PollTransition
  <2> DEFINE running == IsRunning(Read(plc))
             reason == Reason(Read(plc))
  <2>1. /\ counts' \in [total : 0..MaxMade, rejects : 0..MaxMade]
        /\ counts'.rejects <= counts'.total
        /\ running \in BOOLEAN /\ (~running => reason \in Reasons)
    BY <1>0, <1>5, ScanFinds DEF PollTransition
  <2>2. /\ ~over /\ running # lastRunning /\ lastRunning' = running
        /\ events' = RecordState(events, plc.t, running, reason)
        /\ UNCHANGED <<plc, commands, over>>
    BY <1>5 DEF PollTransition
  <2> HIDE DEF running, reason
  <2>3. CASE running
    <3>1. events' = EndStop(events, plc.t)
      BY <2>2, <2>3 DEF RecordState
    <3>2. SoundEvents(events', plc.t) /\ ~UnderWay(events')
      BY <1>0, <3>1, StopEnds, NoStopEnds
    <3>3. UnderWay(events') <=> ~over' /\ lastRunning' = FALSE
      BY <2>2, <2>3, <3>2
    <3>4. LineInv'
      BY <1>0, <2>2 DEF LineInv
    <3> QED
      BY <2>1, <2>2, <3>2, <3>3, <3>4 DEF Inv
  <2>4. CASE ~running
    <3>1. events' = StartStop(events, plc.t, reason, "unplanned") /\ ~UnderWay(events)
      BY <1>0, <2>1, <2>2, <2>4 DEF RecordState
    <3>2. SoundEvents(events', plc.t) /\ UnderWay(events')
      BY <1>0, <2>1, <2>4, <3>1, StopStarts
    <3>3. UnderWay(events') <=> ~over' /\ lastRunning' = FALSE
      BY <2>1, <2>2, <2>4, <3>2
    <3>4. LineInv'
      BY <1>0, <2>2 DEF LineInv
    <3> QED
      BY <2>1, <2>2, <3>2, <3>3, <3>4 DEF Inv
  <2> QED
    BY <2>3, <2>4
<1>6. CASE EndOfShift
  <2>1. events' = EndStop(events, plc.t)
    BY <1>0, <1>6, AllClosed DEF EndOfShift
  <2>2. SoundEvents(events', plc.t) /\ ~UnderWay(events')
    BY <1>0, <2>1, StopEnds, NoStopEnds
  <2> QED
    BY <1>0, <1>6, <2>2 DEF EndOfShift, Inv, LineInv
<1>7. CASE UNCHANGED vars
  BY <1>7 DEF vars, kept, Inv, LineInv
<1> QED
  BY <1>1, <1>2, <1>3, <1>4, <1>5, <1>6, <1>7 DEF Next

LEMMA InvHolds == Spec => []Inv
BY InitInv, NextInv, PTL DEF Spec

(* The types of the line and of the runtime's records of it.               *)
THEOREM TypeCorrect == Spec => []TypeOK
<1>1. Inv => TypeOK
  <2> SUFFICES ASSUME Inv PROVE TypeOK
    OBVIOUS
  <2>1. plc \in LineRecord /\ plc.down <= plc.t /\ plc.t <= MaxTime
    BY DEF Inv, LineInv, SoundLine, CountersAgree
  <2>2. plc.t \in 0..MaxTime /\ plc.down \in 0..MaxTime
    BY <2>1, LineAssumption DEF LineRecord
  <2>3. LineTypeOK
    BY <2>1, <2>2 DEF LineTypeOK, LineRecord, Queue, Inv, LineInv
  <2> QED
    BY <2>3 DEF Inv, SoundEvents, TypeOK
<1> QED
  BY <1>1, InvHolds, PTL

(* Whatever faults strike, displace one another and expire, and whatever   *)
(* is commanded in between: each second that the line's controller counts  *)
(* as stopped begins with its latest stop on record open, and each that it *)
(* counts as running without, and no stop is ended but an open one, now.   *)
(* So each standstill has a stop of its own, which lasts as long.          *)
THEOREM LineRecordsItsDowntime == Spec => DowntimeIsRecorded
<1>1. Inv /\ [Next]_vars => [StandstillsAreRecorded]_vars
  <2> SUFFICES ASSUME Inv, [Next]_vars, plc' # plc PROVE StandstillsAreRecorded
    <3>1. CASE plc' = plc
      BY <3>1 DEF StandstillsAreRecorded, RecordGrows
    <3> QED
      BY <3>1
  <2>1. LineInv
    BY DEF Inv
  <2>2. CASE Command
    BY <2>1, <2>2, CommandSound
  <2>3. CASE Step
    BY <2>1, <2>3, StepSound
  <2>4. Command \/ Step
    BY DEF Next, LineActs, LineSteps, PollFails, PollSame, PollTransition, EndOfShift,
           vars, kept
  <2> QED
    BY <2>2, <2>3, <2>4
<1> QED
  BY <1>1, InvHolds, PTL DEF Spec, DowntimeIsRecorded

(* The figures of the shift are never refused, the stops fit into it, and  *)
(* availability, performance and quality lie between 0 and 1, whenever the *)
(* report is asked for.                                                    *)
THEOREM ReportIsSound == Spec => []ReportAddsUp
<1>1. Inv => ReportAddsUp
  <2> SUFFICES ASSUME Inv PROVE ReportAddsUp
    OBVIOUS
  <2> DEFINE t == plc.t
             down == Total(events, "unplanned")
             total == counts.total
             rejects == counts.rejects
  <2>1. /\ t \in Nat /\ total \in Nat /\ rejects \in Nat /\ rejects <= total
        /\ IdealCycleTime \in Nat
    BY OeeAssumption DEF Inv, LineInv, SoundLine, LineRecord
  <2>2. down \in Nat /\ down <= t /\ Total(events, "planned") = 0
    <3>1. UnderWay(events) => events[Len(events)].start \in Nat /\ events[Len(events)].start <= t
      <4> SUFFICES ASSUME UnderWay(events)
                   PROVE  events[Len(events)].start \in Nat /\ events[Len(events)].start <= t
        OBVIOUS
      <4>1. SoundEvents(events, t)
        BY DEF Inv
      <4>2. events \in Seq(Event) /\ Len(events) \in 1..Len(events)
        BY <4>1, EmptySeq DEF SoundEvents, UnderWay
      <4>3. events[Len(events)] \in Event
        BY <4>2, ElementOfSeq
      <4>4. events[Len(events)].start <= t
        BY <4>1, <4>2 DEF SoundEvents
      <4> QED
        BY <4>3, <4>4 DEF Event
    <3> QED
      BY <2>1, <3>1 DEF Inv, SoundEvents
  <2> HIDE DEF t, down, total, rejects
  <2>3. PlannedTime(events, plc.t) = t
    BY <2>1, <2>2 DEF PlannedTime, AtLeastZero, t
  <2>4. DowntimeOf(events, plc.t) = down
    BY <2>1, <2>2, <2>3 DEF DowntimeOf, down
  <2>5. ~Refused(t, down, total, rejects)
    BY <2>1, <2>2 DEF Refused
  <2>6. IdealCycleTime * total \in Nat
    BY <2>1
  <2>7. Report = ComputeOee(t, down, total, rejects)
    BY <2>3, <2>4 DEF Report, total, rejects
  <2>8. IsFraction(Report.availability) /\ IsFraction(Report.quality)
    BY <2>1, <2>2, <2>7 DEF ComputeOee, Fraction, IsFraction
  <2>9. IsFraction(Report.performance)
    <3> DEFINE raw == Fraction(IdealCycleTime * total, t - down)
    <3>1. raw[1] \in Nat /\ raw[2] \in Nat
      BY <2>1, <2>2, <2>6 DEF Fraction
    <3>2. Report.performance = IF raw[1] > raw[2] THEN <<1, 1>> ELSE raw
      BY <2>7 DEF ComputeOee
    <3> HIDE DEF raw
    <3> QED
      BY <3>1, <3>2 DEF IsFraction
  <2> QED
    BY <2>2, <2>3, <2>4, <2>5, <2>8, <2>9 DEF ReportAddsUp, t, down, total, rejects
<1> QED
  BY <1>1, InvHolds, PTL

(* The account of Uptime, as a function of the tracker's stops.            *)
StopOf(es) ==
    IF UnderWay(es)
    THEN [since |-> es[Len(es)].start, why |-> es[Len(es)].reason] ELSE None

LostOf(es) == [r \in Reasons |-> Lost(es, r)]

Shows ==
    IF ~plc.comms THEN None ELSE IF plc.state = "RUNNING" THEN "running" ELSE Cause

LEMMA ShowsType == Shows \in Reasons \cup {"running", None}
BY DEF Shows, Cause, Reasons

LEMMA StopOfType ==
    ASSUME NEW es, NEW t, SoundEvents(es, t), UnderWay(es)
    PROVE  /\ StopOf(es) # None
           /\ StopOf(es).since = es[Len(es)].start
           /\ StopOf(es).why = es[Len(es)].reason
           /\ es[Len(es)].reason \in Reasons
<1>1. es \in Seq(Event) /\ Len(es) \in 1..Len(es)
  BY EmptySeq DEF SoundEvents, UnderWay
<1>2. es[Len(es)] \in Event
  BY <1>1, ElementOfSeq
<1>3. es[Len(es)].start \in Nat /\ es[Len(es)].reason \in Reasons
  BY <1>2 DEF Event
<1> QED
  BY <1>3, RuntimeAssumption DEF StopOf

LEMMA ChargedIs ==
    ASSUME NEW es, NEW t \in Nat, SoundEvents(es, t)
    PROVE  LET new == EndStop(es, t)
               stop == StopOf(es)
           IN  /\ StopOf(new) = None
               /\ LostOf(new) = IF stop = None THEN LostOf(es)
                                ELSE [LostOf(es) EXCEPT ![stop.why] = @ + t - stop.since]
<1>1. CASE ~UnderWay(es)
  BY <1>1, NoStopEnds DEF StopOf
<1>2. CASE UnderWay(es)
  <2> DEFINE new == EndStop(es, t)
             last == es[Len(es)]
             stop == StopOf(es)
  <2>1. /\ ~UnderWay(new) /\ last.start \in Nat /\ last.reason \in Reasons
        /\ \A r : Lost(new, r) = Lost(es, r) + IF r = last.reason THEN t - last.start ELSE 0
    BY <1>2, StopEnds
  <2>2. stop # None /\ stop.since = last.start /\ stop.why = last.reason
    BY <1>2, StopOfType
  <2>3. \A r : Lost(es, r) \in Int
    BY LostIsCost, CostsType DEF SoundEvents
  <2>4. StopOf(new) = None
    BY <2>1 DEF StopOf
  <2> HIDE DEF new, last, stop
  <2>5. \A r \in Reasons :
           Lost(new, r) = IF r = last.reason THEN Lost(es, r) + t - last.start ELSE Lost(es, r)
    BY <2>1, <2>3
  <2>6. LostOf(new) = [LostOf(es) EXCEPT ![last.reason] = @ + t - last.start]
    BY <2>1, <2>5 DEF LostOf
  <2>7. LostOf(new) = IF stop = None THEN LostOf(es)
                      ELSE [LostOf(es) EXCEPT ![stop.why] = @ + t - stop.since]
    BY <2>2, <2>6
  <2> QED
    BY <2>4, <2>7 DEF new, stop
<1> QED
  BY <1>1, <1>2

(* What the instance Account reads of a sound tracker.                     *)
LEMMA AccountIs ==
    ASSUME NEW es, NEW t, SoundEvents(es, t)
    PROVE  (IF LatestOpen(es) = 0 THEN None
            ELSE [since |-> es[LatestOpen(es)].start,
                  why   |-> es[LatestOpen(es)].reason]) = StopOf(es)
<1>1. LatestOpen(es) = IF UnderWay(es) THEN Len(es) ELSE 0
  BY LatestOpenIsLast
<1>2. UnderWay(es) => Len(es) # 0
  BY EmptySeq DEF SoundEvents, UnderWay
<1> QED
  BY <1>1, <1>2 DEF StopOf

(* Every step keeps the account.                                           *)
LEMMA AccountKept == Inv /\ [Next]_vars => [Account!Next]_(Account!vars)
<1> SUFFICES ASSUME Inv, [Next]_vars PROVE [Account!Next]_(Account!vars)
  OBVIOUS
<1> DEFINE stop == IF LatestOpen(events) = 0 THEN None
                   ELSE [since |-> events[LatestOpen(events)].start,
                         why   |-> events[LatestOpen(events)].reason]
<1>0. /\ Inv' /\ LineInv /\ SoundEvents(events, plc.t) /\ plc.t \in Nat
      /\ lastRunning \in BOOLEAN \cup {None}
      /\ UnderWay(events) <=> ~over /\ lastRunning = FALSE
  BY NextInv DEF Inv, LineInv, SoundLine, LineRecord
<1>1. stop = StopOf(events) /\ stop' = StopOf(events')
  BY <1>0, AccountIs DEF Inv
<1>2. [r \in Reasons |-> Lost(events, r)] = LostOf(events)
      /\ [r \in Reasons |-> Lost(events', r)] = LostOf(events')
  BY DEF LostOf
<1>3. Shows \in Reasons \cup {"running", None} /\ Shows' \in Reasons \cup {"running", None}
  <2>1. Shows \in Reasons \cup {"running", None}
    BY ShowsType
  <2>2. (Shows \in Reasons \cup {"running", None})'
    BY ShowsType, PTL
  <2> QED
    BY <2>1, <2>2
<1> HIDE DEF stop
<1>4. ASSUME plc'.t \in {plc.t, plc.t + 1}, ~over, UNCHANGED kept
      PROVE  Account!LineChanges
  <2>1. stop' = stop
    BY <1>1, <1>4 DEF kept
  <2>2. UNCHANGED <<lastRunning, over>>
    BY <1>4 DEF kept
  <2>3. [r \in Reasons |-> Lost(events, r)]' = [r \in Reasons |-> Lost(events, r)]
    BY <1>4 DEF kept
  <2> QED
    BY <1>3, <1>4, <2>1, <2>2, <2>3 DEF Account!LineChanges, stop, Shows
<1>5. CASE LineActs
  <2>1. plc'.t = plc.t /\ ~over /\ UNCHANGED kept
    BY <1>0, <1>5, CommandSound DEF LineActs
  <2> QED
    BY <1>4, <2>1 DEF Account!Next
<1>6. CASE LineSteps
  <2>1. plc'.t = plc.t + 1 /\ ~over /\ UNCHANGED kept
    BY <1>0, <1>6, StepSound DEF LineSteps
  <2> QED
    BY <1>4, <2>1 DEF Account!Next
<1>7. CASE PollFails
  <2>1. UNCHANGED <<plc, events, lastRunning, over>>
    BY <1>7 DEF PollFails, vars, kept
  <2>2. UNCHANGED Account!vars
    BY <2>1 DEF Account!vars, LatestOpen, Lost, Charges, Total, Cause
  <2> QED
    BY <2>2
<1>8. ASSUME PollSame \/ PollTransition
      PROVE  /\ ~over /\ UNCHANGED <<plc, over>> /\ plc.comms
             /\ lastRunning' \in BOOLEAN /\ (lastRunning' <=> plc.state = "RUNNING")
             /\ lastRunning' =>
                   /\ Shows = "running"
                   /\ events' = EndStop(events, plc.t)
             /\ ~lastRunning' =>
                   /\ Shows = Cause /\ Cause \in Reasons
                   /\ events' = StartStop(events, plc.t, Cause, "unplanned")
  <2> DEFINE running == IsRunning(Read(plc))
             reason == Reason(Read(plc))
  <2>1. /\ plc.comms /\ running \in BOOLEAN /\ (running <=> plc.state = "RUNNING")
        /\ ~running => reason \in Reasons /\ reason = Cause
    BY <1>0, <1>8, ScanFinds DEF PollSame, PollTransition
  <2>2. ~over /\ UNCHANGED <<plc, over>> /\ lastRunning' = running
    BY <1>8 DEF PollSame, PollTransition
  <2>3. CASE PollSame
    <3>1. events' = events /\ running = lastRunning
      BY <2>3 DEF PollSame
    <3>2. running => events = EndStop(events, plc.t)
      BY <1>0, <2>2, <3>1, NoStopEnds
    <3>3. ~running => events = StartStop(events, plc.t, Cause, "unplanned")
      BY <1>0, <2>1, <2>2, <3>1, LatestOpenIsLast, EmptySeq DEF StartStop, SoundEvents, UnderWay
    <3> QED
      BY <2>1, <2>2, <3>1, <3>2, <3>3 DEF Shows
  <2>4. CASE PollTransition
    <3>1. events' = RecordState(events, plc.t, running, reason)
      BY <2>4 DEF PollTransition
    <3> QED
      BY <2>1, <2>2, <3>1 DEF Shows, RecordState
  <2> QED
    BY <1>8, <2>3, <2>4
<1>9. CASE PollSame \/ PollTransition
  <2>0. ~over /\ UNCHANGED <<plc, over>> /\ lastRunning' \in BOOLEAN
    BY <1>8, <1>9
  <2>1. /\ ~over /\ UNCHANGED <<plc, over>> /\ UNCHANGED Shows /\ lastRunning' \in BOOLEAN
    BY <2>0 DEF Shows, Cause
  <2>2. CASE lastRunning'
    <3>1. Shows = "running" /\ events' = EndStop(events, plc.t)
      BY <1>8, <1>9, <2>2
    <3>2. /\ stop' = None
          /\ LostOf(events') = IF stop = None THEN LostOf(events)
                               ELSE [LostOf(events) EXCEPT ![stop.why] = @ + plc.t - stop.since]
      BY <1>0, <1>1, <3>1, ChargedIs
    <3>3. Account!LooksUp
      BY <1>2, <2>1, <2>2, <3>1, <3>2 DEF Account!LooksUp, Account!Charged, Shows, stop
    <3> QED
      BY <3>3 DEF Account!Next
  <2>3. CASE ~lastRunning'
    <3>1. /\ Shows \in Reasons /\ lastRunning' = FALSE
          /\ events' = StartStop(events, plc.t, Shows, "unplanned")
      BY <1>8, <1>9, <2>1, <2>3
    <3>2. /\ stop' = IF stop = None THEN [since |-> plc.t, why |-> Shows] ELSE stop
          /\ LostOf(events') = LostOf(events)
      <4>1. CASE UnderWay(events)
        <5>1. events' = events
          BY <1>0, <3>1, <4>1, LatestOpenIsLast, EmptySeq DEF StartStop, SoundEvents, UnderWay
        <5> QED
          BY <1>0, <1>1, <4>1, <5>1, StopOfType
      <4>2. CASE ~UnderWay(events)
        <5>1. /\ UnderWay(events') /\ events'[Len(events')].start = plc.t
              /\ events'[Len(events')].reason = Shows
              /\ \A r : Lost(events', r) = Lost(events, r)
          BY <1>0, <3>1, <4>2, StopStarts
        <5> QED
          BY <1>1, <4>2, <5>1 DEF StopOf, LostOf
      <4> QED
        BY <4>1, <4>2
    <3>3. Account!LooksDown
      BY <1>2, <2>1, <3>1, <3>2 DEF Account!LooksDown, Shows, stop
    <3> QED
      BY <3>3 DEF Account!Next
  <2> QED
    BY <2>2, <2>3
<1>10. CASE EndOfShift
  <2>1. /\ ~over /\ over' = TRUE /\ UNCHANGED <<plc, lastRunning>> /\ UNCHANGED Shows
    BY <1>10 DEF EndOfShift, Shows, Cause
  <2>2. events' = EndStop(events, plc.t)
    BY <1>0, <1>10, AllClosed DEF EndOfShift
  <2>3. /\ stop' = None
        /\ LostOf(events') = IF stop = None THEN LostOf(events)
                             ELSE [LostOf(events) EXCEPT ![stop.why] = @ + plc.t - stop.since]
    BY <1>0, <1>1, <2>2, ChargedIs
  <2>4. Account!EndShift
    BY <1>2, <2>1, <2>3 DEF Account!EndShift, Account!Charged, Shows, stop
  <2> QED
    BY <2>4 DEF Account!Next
<1>11. CASE UNCHANGED vars
  BY <1>11 DEF vars, kept, Account!vars, LatestOpen, Lost, Charges, Total, Cause
<1> QED
  BY <1>5, <1>6, <1>7, <1>9, <1>10, <1>11 DEF Next

(* The tracker, fed by scans that come and fail at any time, keeps the     *)
(* account of Uptime: each stop that was seen is charged in full, once, to *)
(* the cause shown when it was first seen.                                 *)
THEOREM TrackerKeepsAccount == Spec => CountsWhatWasSeen
<1>1. Init => Account!Init
  <2> SUFFICES ASSUME Init PROVE Account!Init
    OBVIOUS
  <2>1. events = <<>> /\ lastRunning = None /\ over = FALSE
    BY DEF Init
  <2>2. plc.t = 0
    BY InitLineSound DEF Init
  <2>3. SoundEvents(<<>>, 0) /\ ~UnderWay(<<>>) /\ \A r : Lost(<<>>, r) = 0
    BY NoEvents
  <2>4. LatestOpen(events) = 0
    BY <2>1, <2>3, LatestOpenIsLast
  <2>5. [r \in Reasons |-> Lost(events, r)] = [r \in Reasons |-> 0]
    BY <2>1, <2>3
  <2>6. Shows \in Reasons \cup {"running", None}
    BY ShowsType
  <2> QED
    BY <2>1, <2>2, <2>4, <2>5, <2>6 DEF Account!Init, Shows
<1> QED
  BY <1>1, AccountKept, InvHolds, PTL DEF Spec, CountsWhatWasSeen, Account!Spec
=============================================================================
