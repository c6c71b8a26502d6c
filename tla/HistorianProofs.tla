-------------------------- MODULE HistorianProofs --------------------------
(***************************************************************************)
(* Proofs about Historian.                                                 *)
(*                                                                         *)
(* What happens to a tag depends on that tag's state alone, so the         *)
(* invariant is stated of the values of one tag, Sound(...), and the       *)
(* lemmas about the door and the table are about values; the theorems only *)
(* say which values each action gives to which tag.                        *)
(***************************************************************************)
EXTENDS Historian, TLAPS

-----------------------------------------------------------------------------
(* The door                                                                *)

LEMMA NoPointIsNone == NoPoint \notin Point /\ ~Exists(NoPoint)
  BY HistorianAssumption DEF Point, NoPoint, Exists

LEMMA Existing ==
    ASSUME NEW p \in Points
    PROVE  /\ Exists(p) <=> p \in Point
           /\ p \in Point => p.at \in Nat /\ p.value \in Int
  BY HistorianAssumption DEF Points, Point, NoPoint, Exists

LEMMA OpenDoorType ==
    ASSUME NEW p \in Points
    PROVE  /\ OpenDoor(p) \in Door
           /\ OpenDoor(p).pivot = p /\ OpenDoor(p).held = NoPoint
           /\ OpenDoor(p).upper = <<1, 0>> /\ OpenDoor(p).lower = <<-1, 0>>
  BY DEF OpenDoor, Door, Points, Slope

LEMMA SlopeType ==
    ASSUME NEW d \in Door, NEW s \in Point, NEW m \in Int,
           d.pivot \in Point, d.pivot.at < s.at
    PROVE  SlopeTo(d, s, m) \in Slope
<1>1. s.at \in Nat /\ s.value \in Int /\ d.pivot.at \in Nat /\ d.pivot.value \in Int
  BY DEF Point
<1>2. s.value + m - d.pivot.value \in Int /\ s.at - d.pivot.at \in Nat
  BY <1>1
<1>3. QED
  BY <1>2 DEF SlopeTo, Slope

LEMMA NarrowedType ==
    ASSUME NEW d \in Door, NEW s \in Point, NEW m \in Nat,
           d.pivot \in Point, d.pivot.at < s.at
    PROVE  /\ Narrowed(d, s, m) \in Door
           /\ Narrowed(d, s, m).pivot = d.pivot /\ Narrowed(d, s, m).held = s
           /\ Narrowed(d, s, m).upper = NewUpper(d, s, m)
           /\ Narrowed(d, s, m).lower = NewLower(d, s, m)
<1>1. NewUpper(d, s, m) \in Slope /\ NewLower(d, s, m) \in Slope
  BY SlopeType DEF NewUpper, NewLower, LesserOf, GreaterOf, Door
<1>2. QED
  BY <1>1 DEF Narrowed, Door, Points

(* A door as it always is: the held point comes after the pivot.           *)
DoorSound(d) ==
    Exists(d.held) => Exists(d.pivot) /\ d.pivot.at < d.held.at

(* The six things Swing can do.                                            *)
Starts(d, s, w) ==
    /\ ~Exists(d.held) /\ (Exists(d.pivot) => d.pivot.at < s.at)
    /\ w = Swung(OpenDoor(s), <<s>>)

Ignores(d, s, w) ==
    /\ Exists(d.pivot) /\ s.at <= d.pivot.at
    /\ w = Swung(d, <<>>)

Holds(d, s, c, w) ==
    /\ Exists(d.pivot) /\ d.pivot.at < s.at
    /\ ~TooOld(d, s, c.maxInterval) /\ ~Closed(d, s, c.tolerance)
    /\ w = Swung(Narrowed(d, s, c.tolerance), <<>>)

Repeats(d, s, w) ==
    /\ Exists(d.held) /\ s.at <= d.held.at /\ d.pivot.at < s.at
    /\ w = Swung(OpenDoor(d.held), <<d.held>>)

ArchivesBoth(d, s, w) ==
    /\ Exists(d.held) /\ d.held.at < s.at
    /\ w = Swung(OpenDoor(s), <<d.held, s>>)

ArchivesHeld(d, s, c, w) ==
    /\ Exists(d.held) /\ d.held.at < s.at
    /\ ~TooOld(OpenDoor(d.held), s, c.maxInterval)
    /\ w = Swung(Narrowed(OpenDoor(d.held), s, c.tolerance), <<d.held>>)

LEMMA SwingCases ==
    ASSUME NEW d \in Door, NEW s \in Point, NEW c \in Setting, DoorSound(d),
           NEW w, w = Swing(d, s, c)
    PROVE  \/ Starts(d, s, w) \/ Ignores(d, s, w) \/ Holds(d, s, c, w)
           \/ Repeats(d, s, w) \/ ArchivesBoth(d, s, w) \/ ArchivesHeld(d, s, c, w)
<1> DEFINE old == TooOld(d, s, c.maxInterval)
           closed == Closed(d, s, c.tolerance)
           late == TooOld(OpenDoor(d.held), s, c.maxInterval)
<1>1. /\ d.pivot \in Points /\ d.held \in Points /\ s.at \in Nat
      /\ Exists(d.pivot) => d.pivot.at \in Nat
      /\ Exists(d.held) => d.held.at \in Nat
  BY Existing DEF Door, Point
<1>2. CASE ~Exists(d.pivot)
  BY <1>2 DEF Swing, Archived, Starts, DoorSound
<1>3. CASE Exists(d.pivot) /\ s.at <= d.pivot.at
  BY <1>3 DEF Swing, Ignores
<1>4. CASE Exists(d.pivot) /\ d.pivot.at < s.at /\ ~old /\ ~closed
  BY <1>1, <1>4 DEF Swing, Holds
<1>5. CASE Exists(d.pivot) /\ d.pivot.at < s.at /\ (old \/ closed) /\ ~Exists(d.held)
  BY <1>1, <1>5 DEF Swing, Archived, Starts
<1>6. CASE Exists(d.pivot) /\ d.pivot.at < s.at /\ (old \/ closed) /\ Exists(d.held)
  <2>1. w = Rerun(d, s, c)
    BY <1>1, <1>6 DEF Swing
  <2>2. CASE s.at <= d.held.at
    BY <1>6, <2>1, <2>2 DEF Rerun, Repeats
  <2>3. CASE d.held.at < s.at /\ late
    BY <1>1, <1>6, <2>1, <2>3 DEF Rerun, ArchivesBoth
  <2>4. CASE d.held.at < s.at /\ ~late
    BY <1>1, <1>6, <2>1, <2>4 DEF Rerun, ArchivesHeld
  <2>5. QED
    BY <1>1, <1>6, <2>2, <2>3, <2>4
<1>7. QED
  BY <1>1, <1>2, <1>3, <1>4, <1>5, <1>6

-----------------------------------------------------------------------------
(* The table                                                               *)

(* The time is the key of a table.                                         *)
Keyed(T) == \A p, q \in T : p.at = q.at => p = q

LEMMA InsertedTable ==
    ASSUME NEW T \in SUBSET Point, NEW p \in Point, Keyed(T)
    PROVE  /\ Inserted(T, p) \in SUBSET Point /\ Keyed(Inserted(T, p))
           /\ p \in Inserted(T, p)
           /\ Inserted(T, p) \subseteq T \cup {p}
           /\ \A r \in T : \E q \in Inserted(T, p) : q.at = r.at
           /\ \A r \in T : r.at # p.at => r \in Inserted(T, p)
           /\ \A r \in Inserted(T, p) : r.at = p.at => r = p
  BY DEF Inserted, Keyed

LEMMA FewPoints ==
    /\ \A T : WithPoints(T, <<>>) = T
    /\ \A T, p : WithPoints(T, <<p>>) = Inserted(T, p)
    /\ \A T, p, q : WithPoints(T, <<p, q>>) = Inserted(Inserted(T, p), q)
    /\ \A p : <<p>> # <<>> /\ <<p>>[Len(<<p>>)] = p
    /\ \A p, q : <<p, q>> # <<>> /\ <<p, q>>[Len(<<p, q>>)] = q
  BY DEF WithPoints

-----------------------------------------------------------------------------
(* What is always true of one tag: n the clock, sw the latest cutoff, and  *)
(* c, d, st, T, D, h, p, f the tag's setting, door, stored, rows, disk,    *)
(* heard, passed and flushed.                                              *)

Saved(sw, T, f) == f # None => f < sw \/ \E r \in T : r.at = f

TableSound(n, T) == Keyed(T) /\ \A r \in T : r.at <= n

(* The pivot is the latest row, unless it has been swept with all the rest.*)
StoredSound(n, sw, c, d, st, T) ==
    /\ Exists(d.pivot) => st = d.pivot
    /\ Exists(d.held) => d.held.at <= n
    /\ c.tolerance = 0 => ~Exists(d.pivot)
    /\ Exists(st) => /\ st.at <= n
                     /\ \A r \in T : r.at <= st.at
                     /\ st \in T \/ (T = {} /\ st.at < sw)

(* What is newest of a tag is held back or stored.                         *)
SamplesSound(n, c, d, st, h, p) ==
    /\ h # None => /\ Exists(st) /\ h <= n
                   /\ c.maxInterval # None => h - st.at < c.maxInterval
    /\ p # None => Exists(st) /\ p = IF Exists(d.held) THEN d.held.at ELSE st.at

Sound(n, sw, c, d, st, T, D, h, p, f) ==
    /\ DoorSound(d)
    /\ StoredSound(n, sw, c, d, st, T)
    /\ SamplesSound(n, c, d, st, h, p)
    /\ TableSound(n, T) /\ TableSound(n, D)
    /\ Saved(sw, T, f) /\ Saved(sw, D, f)

(* The types of these values.                                              *)
Typed(n, sw, c, d, st, T, D, h, p, f) ==
    /\ n \in Nat /\ sw \in Nat
    /\ c \in Setting /\ d \in Door /\ st \in Points
    /\ T \in SUBSET Point /\ D \in SUBSET Point
    /\ h \in Nat \cup {None} /\ p \in Nat \cup {None} /\ f \in Nat \cup {None}

(* A point archived now is the latest row, and what was saved stays so.    *)
LEMMA SoundInsert ==
    ASSUME NEW n \in Nat, NEW sw \in Nat, NEW T \in SUBSET Point, NEW q \in Point,
           NEW f \in Nat \cup {None}, TableSound(n, T), Saved(sw, T, f),
           q.at <= n, \A r \in T : r.at <= q.at
    PROVE  /\ TableSound(n, Inserted(T, q)) /\ Saved(sw, Inserted(T, q), f)
           /\ Inserted(T, q) \in SUBSET Point /\ q \in Inserted(T, q)
           /\ \A r \in Inserted(T, q) : r.at <= q.at
<1>1. q.at \in Nat /\ \A r \in T : r.at \in Nat
  BY DEF Point
<1>2. Keyed(T)
  BY DEF TableSound
<1>3. /\ Inserted(T, q) \in SUBSET Point /\ Keyed(Inserted(T, q))
      /\ q \in Inserted(T, q)
      /\ Inserted(T, q) \subseteq T \cup {q}
      /\ \A r \in T : \E x \in Inserted(T, q) : x.at = r.at
  BY <1>2, InsertedTable
<1>4. QED
  BY <1>1, <1>3 DEF TableSound, Saved

(* record() of a sample, through the door.                                 *)
LEMMA SoundSwing ==
    ASSUME NEW n, NEW sw, NEW c, NEW d, NEW st, NEW T, NEW D, NEW h, NEW p, NEW f,
           Typed(n, sw, c, d, st, T, D, h, p, f), Sound(n, sw, c, d, st, T, D, h, p, f),
           c.tolerance > 0, NEW s \in Point, s.at = n,
           NEW w, w = Swing(d, s, c),
           NEW st2, st2 = IF w.points = <<>> THEN st ELSE w.points[Len(w.points)],
           NEW T2, T2 = WithPoints(T, w.points)
    PROVE  /\ Typed(n, sw, c, w.door, st2, T2, D, n, n, f)
           /\ Sound(n, sw, c, w.door, st2, T2, D, n, n, f)
           /\ \A r \in T2 \ T, q \in T : q.at <= r.at
<1>0. /\ n \in Nat /\ sw \in Nat /\ c \in Setting /\ d \in Door /\ st \in Points
      /\ T \in SUBSET Point /\ D \in SUBSET Point
      /\ h \in Nat \cup {None} /\ p \in Nat \cup {None} /\ f \in Nat \cup {None}
      /\ DoorSound(d) /\ StoredSound(n, sw, c, d, st, T) /\ SamplesSound(n, c, d, st, h, p)
      /\ TableSound(n, T) /\ TableSound(n, D) /\ Saved(sw, T, f) /\ Saved(sw, D, f)
  BY DEF Typed, Sound
<1>1. /\ d.pivot \in Points /\ d.held \in Points /\ st \in Points
      /\ s \in Points /\ Exists(s) /\ n \in Nat /\ n # None
      /\ c.tolerance \in Nat /\ c.tolerance # 0
      /\ c.maxInterval # None => c.maxInterval \in Nat \ {0}
  BY <1>0, Existing, HistorianAssumption DEF Door, Setting, Points
<1>2. /\ Exists(d.pivot) => d.pivot \in Point /\ d.pivot.at \in Nat
      /\ Exists(d.held) => d.held \in Point /\ d.held.at \in Nat
      /\ Exists(st) => st \in Point /\ st.at \in Nat
      /\ ~Exists(NoPoint)
  BY <1>0, <1>1, Existing, NoPointIsNone
<1>3. Keyed(T) /\ \A r \in T : r.at \in Nat /\ r.at <= n
  BY <1>0 DEF TableSound, Point
<1>4. CASE Starts(d, s, w)
  <2>1. w.door = OpenDoor(s) /\ w.points = <<s>>
    BY <1>0, <1>4 DEF Starts, Swung
  <2>2. st2 = s /\ T2 = Inserted(T, s)
    BY <1>0, <2>1, FewPoints
  <2>3. /\ TableSound(n, T2) /\ Saved(sw, T2, f) /\ T2 \in SUBSET Point /\ s \in T2
        /\ \A r \in T2 : r.at <= s.at
    BY <1>0, <2>2, <1>1, <1>3, SoundInsert
  <2>4. w.door \in Door /\ w.door.pivot = s /\ w.door.held = NoPoint
    BY <1>0, <2>1, <1>1, OpenDoorType
  <2>5. T2 \ T \subseteq {s}
    BY <1>0, <2>2, <1>3, InsertedTable
  <2>6. SamplesSound(n, c, w.door, st2, n, n)
    BY <1>0, <1>1, <1>2, <2>2, <2>4 DEF SamplesSound
  <2>7. StoredSound(n, sw, c, w.door, st2, T2) /\ DoorSound(w.door)
    BY <1>0, <1>1, <1>2, <2>2, <2>3, <2>4 DEF StoredSound, DoorSound
  <2>8. QED
    BY <1>0, <1>1, <1>3, <2>2, <2>3, <2>4, <2>5, <2>6, <2>7 DEF Typed, Sound
<1>5. CASE Ignores(d, s, w)
  <2>1. w.door = d /\ w.points = <<>>
    BY <1>0, <1>5 DEF Ignores, Swung
  <2>2. st2 = st /\ T2 = T
    BY <1>0, <2>1, FewPoints
  <2>3. Exists(d.pivot) /\ st = d.pivot /\ st.at = n
    BY <1>0, <1>5, <1>2 DEF Ignores, StoredSound
  <2>4. ~Exists(d.held)
    BY <1>0, <2>3, <1>2 DEF DoorSound, StoredSound
  <2>5. SamplesSound(n, c, d, st, n, n)
    BY <1>0, <1>1, <2>3, <2>4 DEF SamplesSound
  <2>6. QED
    BY <1>0, <1>1, <2>1, <2>2, <2>5 DEF Typed, Sound
<1>6. CASE Holds(d, s, c, w)
  <2>1. w.door = Narrowed(d, s, c.tolerance) /\ w.points = <<>>
    BY <1>0, <1>6 DEF Holds, Swung
  <2>2. st2 = st /\ T2 = T
    BY <1>0, <2>1, FewPoints
  <2>3. /\ d.pivot \in Point /\ d.pivot.at < s.at /\ st = d.pivot
        /\ c.maxInterval # None => s.at - st.at < c.maxInterval
    BY <1>0, <1>1, <1>2, <1>6 DEF Holds, StoredSound, TooOld
  <2>4. w.door \in Door /\ w.door.pivot = d.pivot /\ w.door.held = s
    BY <1>0, <2>1, <2>3, <1>1, NarrowedType
  <2>5. SamplesSound(n, c, w.door, st, n, n)
    BY <1>0, <1>1, <2>3, <2>4, Existing DEF SamplesSound
  <2>6. StoredSound(n, sw, c, w.door, st, T) /\ DoorSound(w.door)
    BY <1>0, <1>1, <1>6, <2>3, <2>4 DEF StoredSound, DoorSound, Holds
  <2>7. QED
    BY <1>0, <1>1, <2>2, <2>4, <2>5, <2>6 DEF Typed, Sound
<1>7. CASE Repeats(d, s, w)
  <2>1. w.door = OpenDoor(d.held) /\ w.points = <<d.held>>
    BY <1>0, <1>7 DEF Repeats, Swung
  <2>2. st2 = d.held /\ T2 = Inserted(T, d.held)
    BY <1>0, <2>1, FewPoints
  <2>3. /\ Exists(d.held) /\ d.held \in Point /\ d.held.at = n
    BY <1>0, <1>2, <1>7 DEF Repeats, StoredSound
  <2>4. /\ TableSound(n, T2) /\ Saved(sw, T2, f) /\ T2 \in SUBSET Point /\ d.held \in T2
        /\ \A r \in T2 : r.at <= d.held.at
    BY <1>0, <2>2, <2>3, <1>1, <1>3, SoundInsert
  <2>5. w.door \in Door /\ w.door.pivot = d.held /\ w.door.held = NoPoint
    BY <1>0, <2>1, <1>1, OpenDoorType
  <2>6. T2 \ T \subseteq {d.held}
    BY <1>0, <2>2, <2>3, <1>3, InsertedTable
  <2>7. SamplesSound(n, c, w.door, st2, n, n)
    BY <1>0, <1>1, <1>2, <2>2, <2>3, <2>5 DEF SamplesSound
  <2>8. StoredSound(n, sw, c, w.door, st2, T2) /\ DoorSound(w.door)
    BY <1>0, <1>1, <1>2, <2>2, <2>3, <2>4, <2>5 DEF StoredSound, DoorSound
  <2>9. QED
    BY <1>0, <1>1, <1>3, <2>2, <2>3, <2>4, <2>5, <2>6, <2>7, <2>8 DEF Typed, Sound
<1>8. ASSUME Exists(d.held), d.held.at < n
      PROVE  LET U == Inserted(T, d.held) IN
             /\ d.held \in Point
             /\ TableSound(n, U) /\ Saved(sw, U, f) /\ U \in SUBSET Point /\ d.held \in U
             /\ \A r \in U : r.at <= d.held.at
             /\ U \ T \subseteq {d.held}
             /\ \A q \in T : q.at <= d.held.at
  <2>1. /\ Exists(d.pivot) /\ st = d.pivot /\ d.pivot.at < d.held.at /\ d.held \in Point
    BY <1>0, <1>2, <1>8 DEF DoorSound, StoredSound
  <2>2. d.pivot.at \in Nat /\ d.held.at \in Nat /\ Exists(st) /\ \A r \in T : r.at <= st.at
    BY <1>0, <1>2, <1>8, <2>1 DEF StoredSound
  <2>3. \A q \in T : q.at <= d.held.at
    BY <1>0, <1>3, <2>1, <2>2
  <2>4. QED
    BY <1>0, <1>1, <1>2, <1>3, <1>8, <2>1, <2>3, SoundInsert, InsertedTable DEF Typed, Sound
<1>9. CASE ArchivesBoth(d, s, w)
  <2> DEFINE U == Inserted(T, d.held)
  <2>1. w.door = OpenDoor(s) /\ w.points = <<d.held, s>>
    BY <1>0, <1>9 DEF ArchivesBoth, Swung
  <2>2. st2 = s /\ T2 = Inserted(U, s)
    BY <1>0, <2>1, FewPoints
  <2>3. /\ d.held \in Point /\ d.held.at < n /\ TableSound(n, U) /\ Saved(sw, U, f)
        /\ U \in SUBSET Point
        /\ U \ T \subseteq {d.held} /\ \A q \in T : q.at <= d.held.at
    BY <1>0, <1>8, <1>9 DEF ArchivesBoth
  <2> HIDE DEF U
  <2>4. Keyed(U) /\ \A r \in U : r.at \in Nat /\ r.at <= n
    BY <1>0, <2>3 DEF TableSound, Point
  <2>5. /\ TableSound(n, T2) /\ Saved(sw, T2, f) /\ T2 \in SUBSET Point /\ s \in T2
        /\ \A r \in T2 : r.at <= s.at
    <3>1. s.at <= n /\ \A r \in U : r.at <= s.at
      BY <1>0, <2>4
    <3>2. QED
      BY <1>0, <2>2, <2>3, <3>1, SoundInsert
  <2>6. T2 \ U \subseteq {s}
    BY <1>0, <2>2, <2>3, <2>4, InsertedTable
  <2>7. w.door \in Door /\ w.door.pivot = s /\ w.door.held = NoPoint
    BY <1>0, <2>1, <1>1, OpenDoorType
  <2>8. SamplesSound(n, c, w.door, st2, n, n)
    BY <1>0, <1>1, <1>2, <2>2, <2>7 DEF SamplesSound
  <2>9. StoredSound(n, sw, c, w.door, st2, T2) /\ DoorSound(w.door)
    BY <1>0, <1>1, <1>2, <2>2, <2>5, <2>7 DEF StoredSound, DoorSound
  <2>10. QED
    BY <1>0, <1>1, <1>3, <2>2, <2>3, <2>5, <2>6, <2>7, <2>8, <2>9 DEF Typed, Sound
<1>10. CASE ArchivesHeld(d, s, c, w)
  <2>1. w.door = Narrowed(OpenDoor(d.held), s, c.tolerance) /\ w.points = <<d.held>>
    BY <1>0, <1>10 DEF ArchivesHeld, Swung
  <2>2. st2 = d.held /\ T2 = Inserted(T, d.held)
    BY <1>0, <2>1, FewPoints
  <2>3. /\ d.held \in Point /\ d.held.at < n /\ TableSound(n, T2) /\ Saved(sw, T2, f)
        /\ T2 \in SUBSET Point /\ d.held \in T2 /\ \A r \in T2 : r.at <= d.held.at
        /\ T2 \ T \subseteq {d.held} /\ \A q \in T : q.at <= d.held.at
    BY <1>0, <1>8, <1>10, <2>2 DEF ArchivesHeld
  <2>4. OpenDoor(d.held) \in Door /\ OpenDoor(d.held).pivot = d.held
    BY <1>0, <1>1, OpenDoorType
  <2>5. w.door \in Door /\ w.door.pivot = d.held /\ w.door.held = s
    BY <1>0, <2>1, <2>3, <2>4, <1>1, NarrowedType
  <2>6. c.maxInterval # None => n - d.held.at < c.maxInterval
    BY <1>0, <1>1, <1>2, <1>10, <2>3, <2>4 DEF ArchivesHeld, TooOld
  <2>7. SamplesSound(n, c, w.door, st2, n, n)
    BY <1>0, <1>1, <1>10, <2>2, <2>3, <2>5, <2>6, Existing DEF SamplesSound, ArchivesHeld
  <2>8. StoredSound(n, sw, c, w.door, st2, T2) /\ DoorSound(w.door)
    BY <1>0, <1>1, <1>2, <1>10, <2>2, <2>3, <2>5, SMTT(30) DEF StoredSound, DoorSound, ArchivesHeld
  <2>9. QED
    BY <1>0, <1>1, <1>2, <1>3, <2>2, <2>3, <2>5, <2>7, <2>8 DEF Typed, Sound
<1>11. QED
  BY <1>0, <1>4, <1>5, <1>6, <1>7, <1>9, <1>10, SwingCases

(* record() of a sample of a tag with no door.                             *)
LEMMA SoundDirect ==
    ASSUME NEW n, NEW sw, NEW c, NEW d, NEW st, NEW T, NEW D, NEW h, NEW p, NEW f,
           Typed(n, sw, c, d, st, T, D, h, p, f), Sound(n, sw, c, d, st, T, D, h, p, f),
           c.tolerance = 0, NEW s \in Point, s.at = n,
           NEW T2, T2 = Inserted(T, s)
    PROVE  /\ Typed(n, sw, c, d, s, T2, D, n, n, f)
           /\ Sound(n, sw, c, d, s, T2, D, n, n, f)
           /\ \A r \in T2 \ T, q \in T : q.at <= r.at
<1> USE DEF Typed, Sound
<1>1. /\ d.pivot \in Points /\ d.held \in Points /\ s \in Points /\ Exists(s)
      /\ n \in Nat /\ n # None
      /\ c.maxInterval # None => c.maxInterval \in Nat \ {0}
  BY Existing, HistorianAssumption DEF Door, Setting, Points
<1>2. Keyed(T) /\ \A r \in T : r.at \in Nat /\ r.at <= n
  BY DEF TableSound, Point
<1>3. /\ TableSound(n, T2) /\ Saved(sw, T2, f) /\ T2 \in SUBSET Point /\ s \in T2
      /\ \A r \in T2 : r.at <= s.at
  BY <1>1, <1>2, SoundInsert
<1>4. T2 \ T \subseteq {s}
  BY <1>2, InsertedTable
<1>5. ~Exists(d.pivot) /\ ~Exists(d.held)
  BY DEF StoredSound, DoorSound
<1>6. SamplesSound(n, c, d, s, n, n)
  BY <1>1, <1>5 DEF SamplesSound
<1>7. StoredSound(n, sw, c, d, s, T2)
  BY <1>1, <1>3, <1>5 DEF StoredSound
<1>8. QED
  BY <1>1, <1>2, <1>3, <1>4, <1>6, <1>7

(* flush(): what is held back is archived, and all of it is on disk.       *)
LEMMA SoundFlush ==
    ASSUME NEW n, NEW sw, NEW c, NEW d, NEW st, NEW T, NEW D, NEW h, NEW p, NEW f,
           Typed(n, sw, c, d, st, T, D, h, p, f), Sound(n, sw, c, d, st, T, D, h, p, f),
           NEW held, held <=> c.tolerance > 0 /\ Exists(d.held),
           NEW T2, T2 = IF held THEN Inserted(T, d.held) ELSE T,
           NEW st2, st2 = IF held THEN d.held ELSE st,
           NEW d2, d2 = IF held THEN OpenDoor(d.held) ELSE d,
           NEW f2, f2 = IF p = None THEN f ELSE p
    PROVE  /\ Typed(n, sw, c, d2, st2, T2, T2, h, p, f2)
           /\ Sound(n, sw, c, d2, st2, T2, T2, h, p, f2)
           /\ \A r \in T2 \ T, q \in T : q.at <= r.at
<1>0. /\ n \in Nat /\ sw \in Nat /\ c \in Setting /\ d \in Door /\ st \in Points
      /\ T \in SUBSET Point /\ D \in SUBSET Point
      /\ h \in Nat \cup {None} /\ p \in Nat \cup {None} /\ f \in Nat \cup {None}
      /\ DoorSound(d) /\ StoredSound(n, sw, c, d, st, T) /\ SamplesSound(n, c, d, st, h, p)
      /\ TableSound(n, T) /\ TableSound(n, D) /\ Saved(sw, T, f) /\ Saved(sw, D, f)
  BY DEF Typed, Sound
<1>1. /\ d.pivot \in Points /\ d.held \in Points
      /\ n \in Nat /\ n # None /\ c.tolerance \in Nat
      /\ c.maxInterval # None => c.maxInterval \in Nat \ {0}
      /\ h # None => h \in Nat
      /\ f2 \in Nat \cup {None}
  BY <1>0, HistorianAssumption DEF Door, Setting
<1>2. /\ Exists(d.held) => d.held \in Point /\ d.held.at \in Nat
      /\ Exists(st) => st \in Point /\ st.at \in Nat
      /\ ~Exists(NoPoint)
  BY <1>0, <1>1, Existing, NoPointIsNone
<1>3. Keyed(T) /\ \A r \in T : r.at \in Nat /\ r.at <= n
  BY <1>0 DEF TableSound, Point
<1>4. CASE ~held
  <2>1. T2 = T /\ st2 = st /\ d2 = d
    BY <1>0, <1>4
  <2>2. ~Exists(d.held)
    BY <1>0, <1>1, <1>4 DEF StoredSound, DoorSound
  <2>3. Saved(sw, T, f2)
    BY <1>0, <1>1, <2>2 DEF Saved, SamplesSound, StoredSound
  <2>4. QED
    BY <1>0, <1>1, <2>1, <2>3 DEF Typed, Sound
<1>5. CASE held
  <2>1. T2 = Inserted(T, d.held) /\ st2 = d.held /\ d2 = OpenDoor(d.held)
    BY <1>0, <1>5
  <2>2. Exists(d.held) /\ Exists(d.pivot) /\ st = d.pivot /\ d.pivot.at < d.held.at
    BY <1>0, <1>5 DEF DoorSound, StoredSound
  <2>3. Exists(st) /\ (\A r \in T : r.at <= st.at) /\ d.held.at <= n
    BY <1>0, <2>2 DEF StoredSound
  <2>4. \A q \in T : q.at <= d.held.at
    BY <1>0, <1>2, <1>3, <2>2, <2>3
  <2>5. /\ TableSound(n, T2) /\ Saved(sw, T2, f) /\ T2 \in SUBSET Point /\ d.held \in T2
        /\ \A r \in T2 : r.at <= d.held.at
    <3>1. d.held \in Point
      BY <1>2, <2>2
    <3>2. QED
      BY <1>0, <2>1, <2>3, <2>4, <3>1, SoundInsert
  <2>6. T2 \ T \subseteq {d.held}
    BY <1>0, <1>2, <1>3, <2>1, <2>2, InsertedTable
  <2>7. d2 \in Door /\ d2.pivot = d.held /\ d2.held = NoPoint
    BY <1>0, <1>1, <2>1, OpenDoorType
  <2>8. Saved(sw, T2, f2)
    BY <1>0, <2>2, <2>5 DEF Saved, SamplesSound
  <2>9. StoredSound(n, sw, c, d2, st2, T2) /\ DoorSound(d2)
    BY <1>0, <1>1, <1>2, <1>5, <2>1, <2>2, <2>3, <2>5, <2>7 DEF StoredSound, DoorSound
  <2>10. h # None => h - st.at >= h - d.held.at
    BY <1>0, <1>1, <1>2, <2>2
  <2>11. SamplesSound(n, c, d2, st2, h, p)
    BY <1>0, <1>1, <1>2, <2>1, <2>2, <2>7, <2>10 DEF SamplesSound
  <2>12. QED
    BY <1>0, <1>1, <2>1, <2>2, <2>4, <2>5, <2>6, <2>7, <2>8, <2>9, <2>11 DEF Typed, Sound
<1>6. QED
  BY <1>0, <1>4, <1>5

(* apply_retention(): rows go, the newest ones last.                       *)
LEMMA SoundRetention ==
    ASSUME NEW n, NEW sw, NEW c, NEW d, NEW st, NEW T, NEW D, NEW h, NEW p, NEW f,
           Typed(n, sw, c, d, st, T, D, h, p, f), Sound(n, sw, c, d, st, T, D, h, p, f),
           NEW cutoff \in Int,
           NEW T2, T2 = {r \in T : r.at >= cutoff},
           NEW sw2, sw2 = IF cutoff > sw THEN cutoff ELSE sw
    PROVE  /\ Typed(n, sw2, c, d, st, T2, T2, h, p, f)
           /\ Sound(n, sw2, c, d, st, T2, T2, h, p, f)
<1> USE DEF Typed, Sound
<1>1. sw2 \in Nat /\ sw <= sw2 /\ cutoff <= sw2 /\ n \in Nat
  OBVIOUS
<1>2. \A r \in T : r \in Point /\ r.at \in Nat
  BY DEF Point
<1>3. TableSound(n, T2) /\ T2 \in SUBSET Point
  BY DEF TableSound, Keyed
<1>4. Saved(sw2, T2, f)
  <2>1. SUFFICES ASSUME f # None PROVE f < sw2 \/ \E r \in T2 : r.at = f
    BY DEF Saved
  <2>2. f \in Nat
    BY <2>1
  <2>3. QED
    BY <1>1, <1>2, <2>1, <2>2 DEF Saved
<1>5. StoredSound(n, sw2, c, d, st, T2)
  <2>1. Exists(st) => st.at \in Nat
    BY Existing
  <2>2. ASSUME Exists(st) PROVE st \in T2 \/ (T2 = {} /\ st.at < sw2)
    <3>1. CASE st.at >= cutoff
      BY <1>1, <2>1, <2>2, <3>1 DEF StoredSound
    <3>2. CASE st.at < cutoff
      BY <1>1, <1>2, <2>1, <2>2, <3>2 DEF StoredSound
    <3>3. QED
      BY <2>1, <2>2, <3>1, <3>2
  <2>3. QED
    BY <2>2 DEF StoredSound
<1>6. QED
  BY <1>1, <1>3, <1>4, <1>5

(* configure_tag() and a crash: a door with nothing in it.                 *)
LEMMA SoundForgotten ==
    ASSUME NEW n, NEW sw, NEW c, NEW d, NEW st, NEW T, NEW D, NEW h, NEW p, NEW f,
           Typed(n, sw, c, d, st, T, D, h, p, f), Sound(n, sw, c, d, st, T, D, h, p, f),
           NEW c2 \in Setting
    PROVE  /\ Typed(n, sw, c2, OpenDoor(NoPoint), st, T, D, None, None, f)
           /\ Sound(n, sw, c2, OpenDoor(NoPoint), st, T, D, None, None, f)
           /\ Typed(n, sw, c2, OpenDoor(NoPoint), NoPoint, D, D, None, None, f)
           /\ Sound(n, sw, c2, OpenDoor(NoPoint), NoPoint, D, D, None, None, f)
<1> USE DEF Typed, Sound
<1>1. NoPoint \in Points /\ ~Exists(NoPoint)
  BY NoPointIsNone DEF Points
<1>2. OpenDoor(NoPoint) \in Door
      /\ OpenDoor(NoPoint).pivot = NoPoint /\ OpenDoor(NoPoint).held = NoPoint
  BY <1>1, OpenDoorType
<1>3. DoorSound(OpenDoor(NoPoint)) /\ \A x : SamplesSound(n, c2, OpenDoor(NoPoint), x, None, None)
  BY <1>1, <1>2 DEF DoorSound, SamplesSound
<1>4. /\ StoredSound(n, sw, c2, OpenDoor(NoPoint), st, T)
      /\ StoredSound(n, sw, c2, OpenDoor(NoPoint), NoPoint, D)
  BY <1>1, <1>2 DEF StoredSound
<1>5. QED
  BY <1>1, <1>2, <1>3, <1>4

(* Time passes, or what there is is committed.                             *)
LEMMA SoundLater ==
    ASSUME NEW n, NEW sw, NEW c, NEW d, NEW st, NEW T, NEW D, NEW h, NEW p, NEW f,
           Typed(n, sw, c, d, st, T, D, h, p, f), Sound(n, sw, c, d, st, T, D, h, p, f)
    PROVE  /\ Sound(n + 1, sw, c, d, st, T, D, h, p, f)
           /\ Sound(n, sw, c, d, st, T, T, h, p, f)
<1> USE DEF Typed, Sound
<1>1. n \in Nat /\ n <= n + 1
      /\ (Exists(st) => st.at \in Nat) /\ (Exists(d.held) => d.held.at \in Nat)
      /\ (h # None => h \in Nat)
      /\ (\A r \in T : r.at \in Nat) /\ (\A r \in D : r.at \in Nat)
  BY Existing DEF Door, Point
<1>2. TableSound(n + 1, T) /\ TableSound(n + 1, D)
  BY <1>1 DEF TableSound
<1>3. StoredSound(n + 1, sw, c, d, st, T)
  BY <1>1 DEF StoredSound
<1>4. SamplesSound(n + 1, c, d, st, h, p)
  BY <1>1 DEF SamplesSound
<1>5. QED
  BY <1>2, <1>3, <1>4

-----------------------------------------------------------------------------
(* The invariant, and what each action does to each tag.                   *)

SoundTag(t) ==
    Sound(now, swept, setting[t], door[t], stored[t], rows[t], disk[t],
          heard[t], passed[t], flushed[t])

TypedTag(t) ==
    Typed(now, swept, setting[t], door[t], stored[t], rows[t], disk[t],
          heard[t], passed[t], flushed[t])

IInv == TypeOK /\ \A t \in Tags : SoundTag(t)

Forward(t) == \A r \in rows'[t] \ (rows[t] \cup disk[t]), q \in rows[t] : q.at <= r.at

Moves(t) == SoundTag(t)' /\ Forward(t)

LEMMA TypedTags == TypeOK => \A t \in Tags : TypedTag(t)
  BY DEF TypeOK, TypedTag, Typed

LEMMA InitSound == Init => IInv
<1> SUFFICES ASSUME Init PROVE IInv
  OBVIOUS
<1>1. NoPoint \in Points /\ ~Exists(NoPoint)
  BY NoPointIsNone DEF Points
<1>2. OpenDoor(NoPoint) \in Door
      /\ OpenDoor(NoPoint).pivot = NoPoint /\ OpenDoor(NoPoint).held = NoPoint
  BY <1>1, OpenDoorType
<1>3. TypeOK
  BY <1>1, <1>2, HistorianAssumption DEF Init, TypeOK
<1>4. ASSUME NEW t \in Tags PROVE SoundTag(t)
  BY <1>1, <1>2
  DEF Init, SoundTag, Sound, DoorSound, StoredSound, SamplesSound, TableSound, Keyed, Saved
<1>5. QED
  BY <1>3, <1>4 DEF IInv

LEMMA RecordSound ==
    ASSUME IInv, NEW t \in Tags, NEW v \in Values, Record(t, v)
    PROVE  TypeOK' /\ \A u \in Tags : Moves(u)
<1>1. TypedTag(t) /\ SoundTag(t) /\ TypeOK /\ now \in Nat
  BY TypedTags DEF IInv, TypeOK
<1>2. Sample(v) \in Point /\ Sample(v).at = now
  BY <1>1, HistorianAssumption DEF Sample, Point
<1>3. CASE RecordExcepted(t, v)
  <2>1. TypeOK'
    BY <1>1, <1>2, <1>3 DEF TypeOK, RecordExcepted, Heard, Points, memory, tables
  <2>2. SamplesSound(now, setting[t], door[t], stored[t], now, passed[t])
    <3>1. /\ Exists(stored[t])
          /\ setting[t].maxInterval # None => ~(now - stored[t].at >= setting[t].maxInterval)
      BY <1>3 DEF RecordExcepted, Excepted, AgedOut
    <3>2. stored[t].at \in Nat /\ (setting[t].maxInterval # None => setting[t].maxInterval \in Nat)
      BY <1>1, <3>1, Existing DEF TypeOK, Setting
    <3>3. QED
      BY <1>1, <3>1, <3>2 DEF SoundTag, Sound, SamplesSound
  <2>3. ASSUME NEW u \in Tags PROVE SoundTag(u)'
    <3>1. heard'[u] = IF u = t THEN now ELSE heard[u]
      BY <1>1, <1>3 DEF RecordExcepted, Heard, TypeOK
    <3>2. UNCHANGED <<now, memory, tables, passed, flushed, swept>>
      BY <1>3 DEF RecordExcepted
    <3>3. QED
      BY <2>2, <3>1, <3>2 DEF IInv, SoundTag, Sound, memory, tables
  <2>4. QED
    BY <1>3, <2>1, <2>3 DEF Moves, Forward, RecordExcepted, tables
<1>4. CASE RecordDirectly(t, v)
  <2> DEFINE s == Sample(v)
             T2 == Inserted(rows[t], s)
  <2>1. setting[t].tolerance = 0
    BY <1>4 DEF RecordDirectly
  <2>2. /\ Typed(now, swept, setting[t], door[t], s, T2, disk[t], now, now, flushed[t])
        /\ Sound(now, swept, setting[t], door[t], s, T2, disk[t], now, now, flushed[t])
        /\ \A r \in T2 \ rows[t], q \in rows[t] : q.at <= r.at
    BY <1>1, <1>2, <2>1, SoundDirect DEF TypedTag, SoundTag
  <2> HIDE DEF s, T2
  <2>3. /\ rows' = [rows EXCEPT ![t] = T2]
        /\ stored' = [stored EXCEPT ![t] = s]
        /\ heard' = [heard EXCEPT ![t] = now] /\ passed' = [passed EXCEPT ![t] = now]
        /\ UNCHANGED <<now, setting, door, disk, upsets, taken, dropped, flushed, swept>>
    BY <1>4 DEF RecordDirectly, Heard, Passed, s, T2
  <2>4. TypeOK'
    BY <1>1, <2>2, <2>3 DEF TypeOK, Typed
  <2>5. Moves(t)
    BY <1>1, <2>2, <2>3 DEF Moves, SoundTag, Forward, TypeOK
  <2>6. ASSUME NEW u \in Tags, u # t PROVE Moves(u)
    BY <1>1, <2>3, <2>6 DEF Moves, SoundTag, Forward, IInv, TypeOK
  <2>7. QED
    BY <2>4, <2>5, <2>6
<1>5. CASE RecordThroughDoor(t, v)
  <2> DEFINE s == Sample(v)
             w == Swing(door[t], s, setting[t])
             T2 == WithPoints(rows[t], w.points)
             st2 == IF w.points = <<>> THEN stored[t] ELSE w.points[Len(w.points)]
             g2 == IF w.door.pivot.at < now \/ w.door.pivot = s
                   THEN taken[t] \cup {s} ELSE taken[t]
  <2>1. setting[t].tolerance > 0
    BY <1>5 DEF RecordThroughDoor
  <2>2. /\ Typed(now, swept, setting[t], w.door, st2, T2, disk[t], now, now, flushed[t])
        /\ Sound(now, swept, setting[t], w.door, st2, T2, disk[t], now, now, flushed[t])
        /\ \A r \in T2 \ rows[t], q \in rows[t] : q.at <= r.at
    BY <1>1, <1>2, <2>1, SoundSwing DEF TypedTag, SoundTag
  <2>3. g2 \in SUBSET Point
    BY <1>1, <1>2 DEF TypeOK
  <2>4. /\ rows' = [rows EXCEPT ![t] = T2]
        /\ stored' = [stored EXCEPT ![t] = st2]
        /\ door' = [door EXCEPT ![t] = w.door]
        /\ taken' = [taken EXCEPT ![t] = g2]
        /\ heard' = [heard EXCEPT ![t] = now] /\ passed' = [passed EXCEPT ![t] = now]
        /\ UNCHANGED <<now, setting, disk, upsets, dropped, flushed, swept>>
    BY <1>5 DEF RecordThroughDoor, Heard, Passed
  <2> HIDE DEF s, w, T2, st2, g2
  <2>5. TypeOK'
    BY <1>1, <2>2, <2>3, <2>4 DEF TypeOK, Typed
  <2>6. Moves(t)
    BY <1>1, <2>2, <2>4 DEF Moves, SoundTag, Forward, TypeOK
  <2>7. ASSUME NEW u \in Tags, u # t PROVE Moves(u)
    BY <1>1, <2>4, <2>7 DEF Moves, SoundTag, Forward, IInv, TypeOK
  <2>8. QED
    BY <2>5, <2>6, <2>7
<1>6. QED
  BY <1>3, <1>4, <1>5 DEF Record

LEMMA FlushSound ==
    ASSUME IInv, Flush PROVE TypeOK' /\ \A u \in Tags : Moves(u)
<1>1. TypeOK
  BY DEF IInv
<1>2. ASSUME NEW t \in Tags
      PROVE  /\ Typed(now, swept, setting[t], door'[t], stored'[t], rows'[t], rows'[t],
                       heard[t], passed[t], flushed'[t])
             /\ Sound(now, swept, setting[t], door'[t], stored'[t], rows'[t], rows'[t],
                      heard[t], passed[t], flushed'[t])
             /\ \A r \in rows'[t] \ rows[t], q \in rows[t] : q.at <= r.at
  <2>1. TypedTag(t) /\ SoundTag(t)
    BY TypedTags DEF IInv
  <2>2. /\ rows'[t] = IF Pending(t) THEN Inserted(rows[t], door[t].held) ELSE rows[t]
        /\ stored'[t] = IF Pending(t) THEN door[t].held ELSE stored[t]
        /\ door'[t] = IF Pending(t) THEN OpenDoor(door[t].held) ELSE door[t]
        /\ flushed'[t] = IF passed[t] = None THEN flushed[t] ELSE passed[t]
    BY DEF Flush
  <2>3. Pending(t) <=> setting[t].tolerance > 0 /\ Exists(door[t].held)
    BY DEF Pending
  <2>4. QED
    BY <2>1, <2>2, <2>3, SoundFlush DEF TypedTag, SoundTag
<1>3. /\ UNCHANGED <<now, setting, upsets, taken, heard, passed, dropped, swept>>
      /\ disk' = rows'
  BY DEF Flush, Commit
<1>4. /\ rows' \in [Tags -> SUBSET Point] /\ stored' \in [Tags -> Points]
      /\ door' \in [Tags -> Door] /\ flushed' \in [Tags -> Nat \cup {None}]
  BY <1>2 DEF Flush, Typed
<1>5. TypeOK'
  BY <1>1, <1>3, <1>4 DEF TypeOK
<1>6. QED
  BY <1>2, <1>3, <1>5 DEF Moves, SoundTag, Forward

LEMMA RetentionSound ==
    ASSUME IInv, NEW age \in Ages, ApplyRetention(age)
    PROVE  TypeOK' /\ \A u \in Tags : Moves(u)
<1>1. TypeOK /\ now - age \in Int
  BY HistorianAssumption DEF IInv, TypeOK
<1>2. ASSUME NEW t \in Tags
      PROVE  /\ Typed(now, swept', setting[t], door[t], stored[t], rows'[t], rows'[t],
                       heard[t], passed[t], flushed[t])
             /\ Sound(now, swept', setting[t], door[t], stored[t], rows'[t], rows'[t],
                      heard[t], passed[t], flushed[t])
             /\ rows'[t] \subseteq rows[t]
  <2>1. TypedTag(t) /\ SoundTag(t)
    BY TypedTags DEF IInv
  <2>2. /\ rows'[t] = {r \in rows[t] : r.at >= now - age}
        /\ swept' = IF now - age > swept THEN now - age ELSE swept
    BY DEF ApplyRetention
  <2>3. QED
    BY <1>1, <2>1, <2>2, SoundRetention DEF TypedTag, SoundTag
<1>3. /\ UNCHANGED <<now, memory, taken, heard, passed, dropped, flushed>>
      /\ disk' = rows' /\ upsets' = upsets + 1
  BY DEF ApplyRetention, Commit
<1>4. rows' \in [Tags -> SUBSET Point] /\ swept' \in Nat
  <2>1. rows' = [t \in Tags |-> rows'[t]]
    BY DEF ApplyRetention
  <2>2. swept' \in Nat
    BY <1>1 DEF ApplyRetention, TypeOK
  <2>3. QED
    BY <1>2, <2>1, <2>2 DEF Typed
<1>5. TypeOK'
  BY <1>1, <1>3, <1>4 DEF TypeOK, memory
<1>6. QED
  BY <1>2, <1>3, <1>5 DEF Moves, SoundTag, Forward, memory

LEMMA ConfigureSound ==
    ASSUME IInv, NEW t \in Tags, NEW c \in Settings, ConfigureTag(t, c)
    PROVE  TypeOK' /\ \A u \in Tags : Moves(u)
<1>1. TypeOK /\ TypedTag(t) /\ SoundTag(t) /\ c \in Setting
  BY TypedTags, HistorianAssumption DEF IInv
<1>2. /\ setting' = [setting EXCEPT ![t] = c]
      /\ door' = [door EXCEPT ![t] = OpenDoor(NoPoint)]
      /\ taken' = [taken EXCEPT ![t] = {}]
      /\ heard' = [heard EXCEPT ![t] = None] /\ passed' = [passed EXCEPT ![t] = None]
      /\ dropped' = [dropped EXCEPT ![t] = NoPoint]
      /\ UNCHANGED <<now, stored, rows, disk, flushed, swept>> /\ upsets' = upsets + 1
  BY DEF ConfigureTag, tables
<1>3. /\ Typed(now, swept, c, OpenDoor(NoPoint), stored[t], rows[t], disk[t], None, None, flushed[t])
      /\ Sound(now, swept, c, OpenDoor(NoPoint), stored[t], rows[t], disk[t], None, None, flushed[t])
  BY <1>1, SoundForgotten DEF TypedTag, SoundTag
<1>4. TypeOK'
  BY <1>1, <1>2, <1>3 DEF TypeOK, Typed, Points
<1>5. SoundTag(t)'
  BY <1>1, <1>2, <1>3 DEF SoundTag, TypeOK
<1>6. ASSUME NEW u \in Tags, u # t PROVE SoundTag(u)'
  BY <1>1, <1>2, <1>6 DEF SoundTag, IInv, TypeOK
<1>7. QED
  BY <1>2, <1>4, <1>5, <1>6 DEF Moves, Forward

LEMMA CrashSound ==
    ASSUME IInv, Crash PROVE TypeOK' /\ \A u \in Tags : Moves(u)
<1>1. TypeOK
  BY DEF IInv
<1>2. NoPoint \in Points /\ OpenDoor(NoPoint) \in Door
  BY OpenDoorType DEF Points
<1>3. TypeOK'
  BY <1>1, <1>2 DEF TypeOK, Crash
<1>4. ASSUME NEW t \in Tags PROVE SoundTag(t)' /\ Forward(t)
  <2>1. TypedTag(t) /\ SoundTag(t) /\ setting[t] \in Setting
    BY <1>1, TypedTags DEF IInv, TypeOK
  <2>2. Sound(now, swept, setting[t], OpenDoor(NoPoint), NoPoint, disk[t], disk[t],
              None, None, flushed[t])
    BY <2>1, SoundForgotten DEF TypedTag, SoundTag
  <2>3. /\ door'[t] = OpenDoor(NoPoint) /\ stored'[t] = NoPoint
        /\ heard'[t] = None /\ passed'[t] = None
        /\ rows' = disk /\ UNCHANGED <<now, setting, disk, flushed, swept>>
    BY DEF Crash
  <2>4. QED
    BY <2>2, <2>3 DEF SoundTag, Forward
<1>5. QED
  BY <1>3, <1>4 DEF Moves

LEMMA LaterSound ==
    ASSUME IInv, Vacuum \/ Tick \/ UNCHANGED vars
    PROVE  TypeOK' /\ \A u \in Tags : Moves(u)
<1>1. TypeOK /\ \A t \in Tags : TypedTag(t) /\ SoundTag(t)
  BY TypedTags DEF IInv
<1>2. rows' = rows /\ \A t \in Tags : Forward(t)
  BY DEF Vacuum, Tick, vars, tables, Forward
<1>3. CASE Vacuum
  <2>1. TypeOK'
    BY <1>1, <1>3 DEF TypeOK, Vacuum, Commit, memory, ghosts
  <2>2. ASSUME NEW t \in Tags PROVE SoundTag(t)'
    BY <1>1, <1>3, SoundLater DEF SoundTag, TypedTag, Vacuum, Commit, memory, ghosts
  <2>3. QED
    BY <1>2, <2>1, <2>2 DEF Moves
<1>4. CASE Tick
  <2>1. TypeOK'
    BY <1>1, <1>4 DEF TypeOK, Tick, memory, tables, ghosts
  <2>2. ASSUME NEW t \in Tags PROVE SoundTag(t)'
    BY <1>1, <1>4, SoundLater DEF SoundTag, TypedTag, Tick, memory, tables, ghosts
  <2>3. QED
    BY <1>2, <2>1, <2>2 DEF Moves
<1>5. CASE UNCHANGED vars
  BY <1>1, <1>2, <1>5 DEF TypeOK, Moves, SoundTag, vars, memory, tables, ghosts
<1>6. QED
  BY <1>3, <1>4, <1>5

LEMMA StepSound ==
    ASSUME IInv, [Next]_vars PROVE IInv' /\ \A t \in Tags : Forward(t)
<1>1. TypeOK' /\ \A u \in Tags : Moves(u)
  BY RecordSound, FlushSound, RetentionSound, ConfigureSound, CrashSound, LaterSound DEF Next
<1>2. QED
  BY <1>1 DEF IInv, Moves

LEMMA AlwaysSound == Spec => []IInv
  BY InitSound, StepSound, PTL DEF Spec

-----------------------------------------------------------------------------
(* The rebuilt trend                                                       *)

AtMost(x, y) == x[1] * y[2] <= y[1] * x[2]

LEMMA ProductsOrdered ==
    ASSUME NEW a \in Int, NEW b \in Int, NEW k \in Nat, a <= b
    PROVE  a * k <= b * k
  OBVIOUS

LEMMA FactorRemoved ==
    ASSUME NEW a \in Int, NEW b \in Int, NEW k \in Nat, k > 0, a * k <= b * k
    PROVE  a <= b
  OBVIOUS

(* Slopes are ordered as fractions are.                                    *)
LEMMA AtMostTransitive ==
    ASSUME NEW x \in Slope, NEW y \in Slope, NEW z \in Slope, y[2] > 0,
           AtMost(x, y), AtMost(y, z)
    PROVE  AtMost(x, z)
<1> DEFINE x1 == x[1]  x2 == x[2]  y1 == y[1]  y2 == y[2]  z1 == z[1]  z2 == z[2]
<1>1. x1 \in Int /\ y1 \in Int /\ z1 \in Int /\ x2 \in Nat /\ y2 \in Nat /\ z2 \in Nat /\ y2 > 0
  BY DEF Slope
<1>2. x1 * y2 <= y1 * x2 /\ y1 * z2 <= z1 * y2
  BY DEF AtMost
<1> HIDE DEF x1, x2, y1, y2, z1, z2
<1>3. (x1 * y2) * z2 <= (y1 * x2) * z2
  BY <1>1, <1>2, ProductsOrdered
<1>4. (y1 * z2) * x2 <= (z1 * y2) * x2
  BY <1>1, <1>2, ProductsOrdered
<1>5. /\ (x1 * y2) * z2 = (x1 * z2) * y2
      /\ (y1 * x2) * z2 = (y1 * z2) * x2
      /\ (z1 * y2) * x2 = (z1 * x2) * y2
  BY <1>1
<1>6. (x1 * z2) * y2 <= (z1 * x2) * y2
  BY <1>1, <1>3, <1>4, <1>5
<1>7. x1 * z2 \in Int /\ z1 * x2 \in Int
  BY <1>1
<1>8. x1 * z2 <= z1 * x2
  BY <1>1, <1>6, <1>7, FactorRemoved
<1> QED
  BY <1>8 DEF AtMost, x1, x2, y1, y2, z1, z2

(* Two samples between which one line passes, at most the tolerance from   *)
(* either: drawn through the one, it is at most two off the other.         *)
LEMMA TwiceTheTolerance ==
    ASSUME NEW a \in Int, NEW b \in Int, NEW m \in Nat, NEW i \in Nat, NEW j \in Nat, i <= j,
           (a - m) * j <= (b + m) * i, (b - m) * i <= (a + m) * j
    PROVE  Distance(a * j, b * i) <= (2 * m) * j
<1> DEFINE x == a * j  y == b * i  u == m * j  v == m * i
<1>1. x \in Int /\ y \in Int /\ u \in Int /\ v \in Int
  OBVIOUS
<1>2. /\ (a - m) * j = x - u /\ (b + m) * i = y + v
      /\ (b - m) * i = y - v /\ (a + m) * j = x + u
      /\ (2 * m) * j = 2 * u
  OBVIOUS
<1>3. v <= u
  <2>1. i * m <= j * m
    BY ProductsOrdered
  <2> QED
    BY <2>1
<1> HIDE DEF x, y, u, v
<1>4. Distance(x, y) <= 2 * u
  BY <1>1, <1>2, <1>3 DEF Distance
<1> QED
  BY <1>2, <1>4 DEF x, y

(* The rows around a time.                                                 *)
Between(at, p, q, T) == p.at <= at /\ at <= q.at /\ \A r \in T : r.at <= p.at \/ q.at <= r.at

(* The samples G are rebuilt from the rows T as ErrorIsBounded says.       *)
Bounded(m, G, T) ==
    \A s \in G : \A p, q \in T : Between(s.at, p, q, T) => Rebuilt(s, p, q, 2 * m)

LEMMA RebuiltAtEnds ==
    ASSUME NEW m \in Nat, NEW s \in Point, NEW p \in Point, NEW q \in Point
    PROVE  /\ p.at < q.at /\ s.at = p.at /\ Rebuilt(s, p, p, 2 * m) => Rebuilt(s, p, q, 2 * m)
           /\ p.at < q.at /\ s.at = q.at /\ Rebuilt(s, p, q, 2 * m) => Rebuilt(s, q, q, 2 * m)
           /\ (p.at < q.at \/ p = q) /\ s = q => Rebuilt(s, p, q, 2 * m)
<1> DEFINE D == q.at - p.at
<1>1. /\ s.at \in Nat /\ p.at \in Nat /\ q.at \in Nat
      /\ s.value \in Int /\ p.value \in Int /\ q.value \in Int
      /\ 2 * m \in Nat /\ D \in Int
  BY DEF Point
<1>2. ASSUME p.at < q.at, s.at = p.at, Rebuilt(s, p, p, 2 * m)
      PROVE  Rebuilt(s, p, q, 2 * m)
  <2> DEFINE a == s.value - p.value
  <2>1. a \in Int /\ D \in Nat /\ D > 0
    BY <1>1, <1>2
  <2>2. Distance(s.value, p.value) <= 2 * m
    BY <1>2 DEF Rebuilt
  <2>3. a <= 2 * m /\ -a <= 2 * m
    BY <1>1, <2>2 DEF Distance
  <2>4. (q.value - p.value) * (s.at - p.at) = 0
    BY <1>1, <1>2
  <2> HIDE DEF a
  <2>5. a * D <= (2 * m) * D /\ (-a) * D <= (2 * m) * D
    BY <1>1, <2>1, <2>3, ProductsOrdered
  <2>6. a * D \in Int /\ (2 * m) * D \in Int /\ (-a) * D = -(a * D)
    BY <1>1, <2>1
  <2>7. Distance(a * D, 0) <= (2 * m) * D
    BY <2>5, <2>6 DEF Distance
  <2> QED
    BY <1>1, <1>2, <2>4, <2>7 DEF Rebuilt, a
<1>3. ASSUME p.at < q.at, s.at = q.at, Rebuilt(s, p, q, 2 * m)
      PROVE  Rebuilt(s, q, q, 2 * m)
  <2> DEFINE a == s.value - p.value
             b == q.value - p.value
             c == a - b
  <2>1. a \in Int /\ b \in Int /\ c \in Int /\ D \in Nat /\ D > 0 /\ c = s.value - q.value
    BY <1>1, <1>3
  <2>2. Distance(a * D, b * D) <= (2 * m) * D
    BY <1>1, <1>3 DEF Rebuilt
  <2> HIDE DEF a, b, D
  <2>3. a * D \in Int /\ b * D \in Int /\ (2 * m) * D \in Int
        /\ c * D = a * D - b * D /\ (-c) * D = b * D - a * D
    BY <1>1, <2>1
  <2>4. c * D <= (2 * m) * D /\ (-c) * D <= (2 * m) * D
    BY <2>2, <2>3 DEF Distance
  <2> HIDE DEF c
  <2>5. c <= 2 * m /\ -c <= 2 * m
    BY <1>1, <2>1, <2>4, FactorRemoved
  <2> QED
    BY <1>1, <2>1, <2>5 DEF Rebuilt, Distance
<1>4. ASSUME p.at < q.at \/ p = q, s = q
      PROVE  Rebuilt(s, p, q, 2 * m)
  <2> DEFINE x == (s.value - p.value) * D
  <2>1. Distance(s.value, s.value) = 0
    BY <1>1 DEF Distance
  <2>2. x \in Int /\ Distance(x, x) = 0
    BY <1>1 DEF Distance
  <2>3. D \in Nat /\ (2 * m) * D \in Nat
    BY <1>1, <1>4
  <2>4. CASE p = q
    BY <1>1, <1>4, <2>1, <2>4 DEF Rebuilt
  <2>5. CASE p.at < q.at
    BY <1>1, <1>4, <2>2, <2>3, <2>5 DEF Rebuilt
  <2> QED
    BY <1>4, <2>4, <2>5
<1> QED
  BY <1>2, <1>3, <1>4

(* A row r is archived after all others.  The samples since the last, l,   *)
(* are rebuilt between the two.                                            *)
LEMMA RowAdded ==
    ASSUME NEW m \in Nat, NEW G \in SUBSET Point, NEW T \in SUBSET Point, Keyed(T),
           Bounded(m, G, T), NEW l \in Point, NEW r \in Point, l.at < r.at,
           T = {} \/ l \in T, \A x \in T : x.at <= l.at,
           \A a \in G : l.at < a.at => Rebuilt(a, l, r, 2 * m)
    PROVE  Bounded(m, G, T \cup {r})
<1> SUFFICES ASSUME NEW s \in G, NEW p \in T \cup {r}, NEW q \in T \cup {r},
                    Between(s.at, p, q, T \cup {r})
             PROVE  Rebuilt(s, p, q, 2 * m)
  BY DEF Bounded
<1>1. /\ s \in Point /\ p \in Point /\ q \in Point
      /\ s.at \in Nat /\ p.at \in Nat /\ q.at \in Nat /\ l.at \in Nat /\ r.at \in Nat
      /\ \A x \in T : x \in Point /\ x.at \in Nat
  BY DEF Point
<1>2. /\ p.at <= s.at /\ s.at <= q.at
      /\ \A x \in T \cup {r} : x.at <= p.at \/ q.at <= x.at
  BY DEF Between
<1>3. CASE q \in T /\ q.at < r.at
  <2>1. p \in T
    BY <1>1, <1>2, <1>3
  <2> QED
    BY <1>2, <1>3, <2>1 DEF Bounded, Between
<1>4. CASE q = r
  <2>1. l.at < s.at => Rebuilt(s, l, r, 2 * m)
    OBVIOUS
  <2>2. CASE p = r
    <3>1. s.at = r.at /\ l.at < s.at
      BY <1>1, <1>2, <1>4, <2>2
    <3> QED
      BY <1>1, <1>4, <2>1, <2>2, <3>1, RebuiltAtEnds
  <2>3. CASE p \in T
    <3>1. p = l
      <4>1. l \in T /\ p.at = l.at
        BY <1>1, <1>2, <1>4, <2>3
      <4> QED
        BY <2>3, <4>1 DEF Keyed
    <3>2. CASE s.at = l.at
      <4>1. Rebuilt(s, l, l, 2 * m)
        BY <1>1, <2>3, <3>1, <3>2 DEF Bounded, Between
      <4> QED
        BY <1>1, <1>4, <3>1, <3>2, <4>1, RebuiltAtEnds
    <3>3. CASE l.at < s.at
      BY <1>4, <2>1, <3>1, <3>3
    <3> QED
      BY <1>1, <1>2, <3>1, <3>2, <3>3
  <2> QED
    BY <2>2, <2>3
<1> QED
  BY <1>1, <1>3, <1>4

(* A sample that no row follows, and that is the row at its time if any is.*)
LEMMA SampleAdded ==
    ASSUME NEW m \in Nat, NEW G \in SUBSET Point, NEW T \in SUBSET Point,
           Bounded(m, G, T), NEW s \in Point,
           \A x \in T : x.at < s.at \/ x = s
    PROVE  Bounded(m, G \cup {s}, T)
<1> SUFFICES ASSUME NEW p \in T, NEW q \in T, Between(s.at, p, q, T)
             PROVE  Rebuilt(s, p, q, 2 * m)
  BY DEF Bounded
<1>1. p \in Point /\ q \in Point /\ p.at \in Nat /\ q.at \in Nat /\ s.at \in Nat
  BY DEF Point
<1>2. q = s /\ (p.at < q.at \/ p = q)
  BY <1>1 DEF Between
<1> QED
  BY <1>1, <1>2, RebuiltAtEnds

LEMMA RowsSwept ==
    ASSUME NEW m \in Nat, NEW G \in SUBSET Point, NEW T \in SUBSET Point,
           Bounded(m, G, T), NEW cutoff \in Int
    PROVE  Bounded(m, G, {r \in T : r.at >= cutoff})
<1> DEFINE U == {r \in T : r.at >= cutoff}
<1>1. ASSUME NEW s \in G, NEW p \in U, NEW q \in U, Between(s.at, p, q, U)
      PROVE  Between(s.at, p, q, T)
  BY <1>1 DEF Between, Point
<1> QED
  BY <1>1 DEF Bounded

-----------------------------------------------------------------------------
(* What the doors know of the samples they have let in                     *)

(* The slopes of the doors of a door d that holds a point: one line from   *)
(* the pivot, at least, passes between them, and so by every sample.       *)
DoorsFit(d, m, G) ==
    /\ d.upper[2] > 0 /\ d.lower[2] > 0 /\ AtMost(d.lower, d.upper)
    /\ \A a \in G : d.pivot.at < a.at =>
          AtMost(d.upper, SlopeTo(d, a, m)) /\ AtMost(SlopeTo(d, a, -m), d.lower)

Fits(m, d, G, n) ==
    /\ \A a \in G : a.at <= n
    /\ ~Exists(d.pivot) => G = {}
    /\ Exists(d.pivot) => d.pivot \in G
    /\ ~Exists(d.held) => /\ d.upper = <<1, 0>> /\ d.lower = <<-1, 0>>
                          /\ \A a \in G : a.at <= d.pivot.at
    /\ Exists(d.held) => /\ d.held \in G /\ \A a \in G : a.at <= d.held.at
                         /\ DoorsFit(d, m, G)

(* The held point, joined to the pivot, rebuilds the samples in between.   *)
LEMMA HeldRebuilds ==
    ASSUME NEW d \in Door, NEW m \in Nat, NEW G \in SUBSET Point, DoorSound(d),
           Exists(d.held), d.held \in G, DoorsFit(d, m, G),
           NEW a \in G, d.pivot.at < a.at, a.at <= d.held.at
    PROVE  Rebuilt(a, d.pivot, d.held, 2 * m)
<1> DEFINE p == d.pivot
           q == d.held
           i == a.at - p.at
           j == q.at - p.at
           x == a.value - p.value
           y == q.value - p.value
<1>1. /\ p \in Point /\ q \in Point /\ a \in Point /\ p.at < q.at
      /\ p.at \in Nat /\ p.value \in Int /\ q.at \in Nat /\ q.value \in Int
      /\ a.at \in Nat /\ a.value \in Int
      /\ d.upper \in Slope /\ d.lower \in Slope
  BY Existing DEF DoorSound, Door, Point
<1>2. i \in Nat /\ j \in Nat /\ 0 < i /\ i <= j /\ x \in Int /\ y \in Int
  BY <1>1
<1>3. /\ SlopeTo(d, a, m) = <<x + m, i>> /\ SlopeTo(d, a, -m) = <<x - m, i>>
      /\ SlopeTo(d, q, m) = <<y + m, j>> /\ SlopeTo(d, q, -m) = <<y - m, j>>
  BY <1>1 DEF SlopeTo
<1> HIDE DEF i, j, x, y
<1>4. /\ <<x + m, i>> \in Slope /\ <<x - m, i>> \in Slope
      /\ <<y + m, j>> \in Slope /\ <<y - m, j>> \in Slope
  BY <1>2 DEF Slope
<1>5. /\ AtMost(d.upper, <<x + m, i>>) /\ AtMost(<<x - m, i>>, d.lower)
      /\ AtMost(d.upper, <<y + m, j>>) /\ AtMost(<<y - m, j>>, d.lower)
      /\ AtMost(d.lower, d.upper) /\ d.upper[2] > 0 /\ d.lower[2] > 0
  BY <1>1, <1>3 DEF DoorsFit
<1> HIDE DEF p, q
<1>6. AtMost(d.lower, <<x + m, i>>) /\ AtMost(d.lower, <<y + m, j>>)
  BY <1>1, <1>4, <1>5, AtMostTransitive
<1>7. AtMost(<<x - m, i>>, <<y + m, j>>) /\ AtMost(<<y - m, j>>, <<x + m, i>>)
  BY <1>1, <1>4, <1>5, <1>6, AtMostTransitive
<1>8. (x - m) * j <= (y + m) * i /\ (y - m) * i <= (x + m) * j
  BY <1>7 DEF AtMost
<1>9. Distance(x * j, y * i) <= (2 * m) * j
  BY <1>2, <1>8, TwiceTheTolerance
<1> QED
  BY <1>1, <1>9 DEF Rebuilt, i, j, x, y, p, q

(* A sample that is let in narrows the doors, if it does not close them.   *)
LEMMA DoorsNarrow ==
    ASSUME NEW d \in Door, NEW m \in Nat, NEW G \in SUBSET Point, NEW s \in Point,
           d.pivot \in Point, d.pivot.at < s.at, ~Closed(d, s, m),
           \/ DoorsFit(d, m, G)
           \/ d.upper = <<1, 0>> /\ d.lower = <<-1, 0>> /\ \A a \in G : a.at <= d.pivot.at
    PROVE  DoorsFit(Narrowed(d, s, m), m, G \cup {s})
<1> DEFINE e == Narrowed(d, s, m)
           u == SlopeTo(d, s, m)
           v == SlopeTo(d, s, -m)
<1>1. u \in Slope /\ v \in Slope /\ d.upper \in Slope /\ d.lower \in Slope
  BY SlopeType DEF Door
<1>2. u[2] > 0 /\ v[2] > 0
  BY DEF SlopeTo, Point
<1>3. /\ e.pivot = d.pivot /\ e.upper = LesserOf(d.upper, u) /\ e.lower = GreaterOf(d.lower, v)
  BY NarrowedType DEF NewUpper, NewLower
<1>4. \A a, k : SlopeTo(e, a, k) = SlopeTo(d, a, k)
  BY <1>3 DEF SlopeTo
<1>5. AtMost(e.lower, e.upper)
  <2>1. ~Below(e.upper, e.lower) /\ e.upper \in Slope /\ e.lower \in Slope
    BY <1>1, <1>3 DEF Closed, NewUpper, NewLower, LesserOf, GreaterOf
  <2>2. /\ e.upper[1] \in Int /\ e.upper[2] \in Nat
        /\ e.lower[1] \in Int /\ e.lower[2] \in Nat
    BY <2>1 DEF Slope
  <2>3. ~(e.upper[1] * e.lower[2] < e.lower[1] * e.upper[2])
    BY <2>1 DEF Below
  <2> QED
    BY <2>2, <2>3 DEF AtMost
<1> HIDE DEF e, u, v
<1>6. /\ u[1] \in Int /\ u[2] \in Nat /\ v[1] \in Int /\ v[2] \in Nat
      /\ d.upper[1] \in Int /\ d.upper[2] \in Nat
      /\ d.lower[1] \in Int /\ d.lower[2] \in Nat
  BY <1>1 DEF Slope
<1>7. AtMost(e.upper, u) /\ AtMost(e.upper, d.upper) /\ AtMost(v, e.lower) /\ AtMost(d.lower, e.lower)
  BY <1>3, <1>6 DEF AtMost, LesserOf, GreaterOf, Below
<1>8. CASE DoorsFit(d, m, G)
  <2>1. e.upper[2] > 0 /\ e.lower[2] > 0 /\ d.upper[2] > 0 /\ d.lower[2] > 0
        /\ e.upper \in Slope /\ e.lower \in Slope
    BY <1>1, <1>2, <1>3, <1>8 DEF DoorsFit, LesserOf, GreaterOf
  <2>2. ASSUME NEW a \in G, d.pivot.at < a.at
        PROVE  AtMost(e.upper, SlopeTo(d, a, m)) /\ AtMost(SlopeTo(d, a, -m), e.lower)
    <3>1. SlopeTo(d, a, m) \in Slope /\ SlopeTo(d, a, -m) \in Slope
      BY <2>2, SlopeType
    <3>2. AtMost(d.upper, SlopeTo(d, a, m)) /\ AtMost(SlopeTo(d, a, -m), d.lower)
      BY <1>8, <2>2 DEF DoorsFit
    <3> QED
      BY <1>1, <1>7, <2>1, <3>1, <3>2, AtMostTransitive
  <2> QED
    BY <1>3, <1>4, <1>5, <1>7, <2>1, <2>2 DEF DoorsFit, e, u, v
<1>9. CASE d.upper = <<1, 0>> /\ d.lower = <<-1, 0>> /\ \A a \in G : a.at <= d.pivot.at
  <2>1. e.upper = u /\ e.lower = v
    BY <1>2, <1>3, <1>6, <1>9 DEF LesserOf, GreaterOf, Below
  <2>2. \A a \in G : ~(d.pivot.at < a.at)
    BY <1>9 DEF Point
  <2> QED
    BY <1>2, <1>3, <1>4, <1>5, <1>7, <2>1, <2>2 DEF DoorsFit, e, u, v
<1> QED
  BY <1>8, <1>9

(* The rows of a tag with a pivot end there, or have all been swept.       *)
LEMMA PivotIsLast ==
    ASSUME NEW n, NEW sw, NEW c, NEW d \in Door, NEW st \in Points, NEW T \in SUBSET Point,
           StoredSound(n, sw, c, d, st, T), Exists(d.pivot)
    PROVE  /\ d.pivot \in Point /\ d.pivot.at <= n
           /\ T = {} \/ d.pivot \in T
           /\ \A x \in T : x.at <= d.pivot.at
<1>1. d.pivot \in Points
  BY DEF Door
<1> QED
  BY <1>1, Existing DEF StoredSound

(* A held point is archived.                                               *)
LEMMA HeldArchived ==
    ASSUME NEW n \in Nat, NEW sw, NEW c, NEW d \in Door, NEW st \in Points,
           NEW T \in SUBSET Point, NEW G \in SUBSET Point, NEW m \in Nat,
           DoorSound(d), StoredSound(n, sw, c, d, st, T), TableSound(n, T),
           Fits(m, d, G, n), Bounded(m, G, T), Exists(d.held)
    PROVE  LET U == Inserted(T, d.held)
           IN  /\ d.held \in Point /\ d.held \in U /\ U \in SUBSET Point /\ Keyed(U)
               /\ \A x \in U : x.at <= d.held.at
               /\ \A a \in G : a.at <= d.held.at
               /\ Bounded(m, G, U)
<1>1. /\ Exists(d.pivot) /\ d.pivot.at < d.held.at /\ d.pivot \in Point /\ d.held \in Point
      /\ d.pivot.at \in Nat /\ d.held.at \in Nat
      /\ T = {} \/ d.pivot \in T
      /\ \A x \in T : x.at <= d.pivot.at /\ x.at \in Nat
  BY PivotIsLast, Existing DEF DoorSound, Door, Point
<1>2. Keyed(T)
  BY DEF TableSound
<1>3. \A x \in T : x.at < d.held.at
  BY <1>1
<1>4. Inserted(T, d.held) = T \cup {d.held}
  BY <1>1, <1>3 DEF Inserted
<1>5. /\ d.held \in G /\ DoorsFit(d, m, G) /\ \A a \in G : a.at <= d.held.at
  BY DEF Fits
<1>6. \A a \in G : d.pivot.at < a.at => Rebuilt(a, d.pivot, d.held, 2 * m)
  BY <1>5, HeldRebuilds
<1>7. Bounded(m, G, T \cup {d.held})
  BY <1>1, <1>2, <1>6, RowAdded
<1>8. Keyed(Inserted(T, d.held)) /\ Inserted(T, d.held) \in SUBSET Point
  BY <1>1, <1>2, InsertedTable
<1> QED
  BY <1>1, <1>3, <1>4, <1>5, <1>7, <1>8

(* A door just opened at a sample that ends the rows and the samples.      *)
LEMMA OpenFits ==
    ASSUME NEW m, NEW p \in Point, NEW G, p \in G, NEW n \in Nat, p.at <= n,
           \A a \in G : a.at <= p.at /\ a.at <= n
    PROVE  Fits(m, OpenDoor(p), G, n)
<1>1. /\ OpenDoor(p).pivot = p /\ OpenDoor(p).held = NoPoint
      /\ OpenDoor(p).upper = <<1, 0>> /\ OpenDoor(p).lower = <<-1, 0>>
      /\ Exists(p) /\ ~Exists(NoPoint)
  BY OpenDoorType, Existing, NoPointIsNone DEF Points
<1> QED
  BY <1>1 DEF Fits

(* A sample let in by a door.                                              *)
LEMMA NarrowedFits ==
    ASSUME NEW m \in Nat, NEW d \in Door, NEW G \in SUBSET Point, NEW n \in Nat,
           Fits(m, d, G, n), d.pivot \in Point, NEW s \in Point, s.at = n,
           d.pivot.at < s.at, ~Closed(d, s, m)
    PROVE  Fits(m, Narrowed(d, s, m), G \cup {s}, n)
<1>1. Narrowed(d, s, m).pivot = d.pivot /\ Narrowed(d, s, m).held = s
  BY NarrowedType
<1>2. Exists(s) /\ Exists(d.pivot)
  BY Existing DEF Points
<1>3. DoorsFit(Narrowed(d, s, m), m, G \cup {s})
  BY DoorsNarrow DEF Fits
<1>4. \A a \in G \cup {s} : a.at <= n /\ a.at <= s.at
  BY DEF Fits
<1>5. d.pivot \in G \cup {s}
  BY <1>2 DEF Fits
<1> QED
  BY <1>1, <1>2, <1>3, <1>4, <1>5 DEF Fits

(* A sample archived as it comes: by a door with no pivot, perhaps in place*)
(* of a row that an earlier door left at its time ...                      *)
LEMMA FirstArchived ==
    ASSUME NEW n \in Nat, NEW m \in Nat, NEW T \in SUBSET Point, Keyed(T),
           NEW s \in Point, s.at = n, \A x \in T : x.at <= n
    PROVE  Bounded(m, {s}, Inserted(T, s)) /\ Fits(m, OpenDoor(s), {s}, n)
<1> DEFINE U == Inserted(T, s)
<1>1. U \in SUBSET Point
  BY InsertedTable
<1>2. \A x \in U : x.at < s.at \/ x = s
  BY DEF Inserted, Point
<1>3. Bounded(m, {}, U)
  BY DEF Bounded
<1>4. Bounded(m, {} \cup {s}, U)
  BY <1>1, <1>2, <1>3, SampleAdded
<1>5. Fits(m, OpenDoor(s), {s}, n)
  BY OpenFits
<1> QED
  BY <1>4, <1>5

(* ... or after the last row l, when no sample came in between.            *)
LEMMA NextArchived ==
    ASSUME NEW n \in Nat, NEW m \in Nat, NEW G \in SUBSET Point, NEW T \in SUBSET Point,
           Keyed(T), Bounded(m, G, T), NEW s \in Point, s.at = n,
           NEW l \in Point, l.at < s.at, T = {} \/ l \in T,
           \A x \in T : x.at <= l.at, \A a \in G : a.at <= l.at
    PROVE  /\ Bounded(m, G \cup {s}, Inserted(T, s))
           /\ Fits(m, OpenDoor(s), G \cup {s}, n)
<1> DEFINE U == Inserted(T, s)
<1>1. /\ l.at \in Nat /\ U \in SUBSET Point
      /\ \A x \in T : x.at \in Nat
      /\ \A a \in G : a.at \in Nat
  BY InsertedTable DEF Point
<1>2. /\ \A x \in T : x.at < s.at
      /\ \A a \in G : a.at <= s.at /\ ~(l.at < a.at) /\ a.at <= n
  BY <1>1
<1>3. U = T \cup {s}
  BY <1>2 DEF Inserted
<1>4. Bounded(m, G, U)
  BY <1>2, <1>3, RowAdded
<1>5. \A x \in U : x.at < s.at \/ x = s
  BY <1>2, <1>3
<1>6. Bounded(m, G \cup {s}, U)
  BY <1>1, <1>4, <1>5, SampleAdded
<1>7. Fits(m, OpenDoor(s), G \cup {s}, n)
  BY <1>2, OpenFits
<1> QED
  BY <1>6, <1>7

(* update(): whatever it does with a sample, all samples stay rebuilt.     *)
LEMMA SwingFits ==
    ASSUME NEW n, NEW sw, NEW c, NEW d, NEW st, NEW T, NEW D, NEW h, NEW p, NEW f,
           Typed(n, sw, c, d, st, T, D, h, p, f), Sound(n, sw, c, d, st, T, D, h, p, f),
           c.tolerance > 0, NEW s \in Point, s.at = n,
           NEW w, w = Swing(d, s, c),
           NEW T2, T2 = WithPoints(T, w.points),
           NEW G \in SUBSET Point, Fits(c.tolerance, d, G, n), Bounded(c.tolerance, G, T),
           NEW G2, G2 = IF w.door.pivot.at < n \/ w.door.pivot = s THEN G \cup {s} ELSE G
    PROVE  Fits(c.tolerance, w.door, G2, n) /\ Bounded(c.tolerance, G2, T2)
<1> DEFINE m == c.tolerance
<1>0. /\ n \in Nat /\ c \in Setting /\ d \in Door /\ st \in Points /\ T \in SUBSET Point
      /\ DoorSound(d) /\ StoredSound(n, sw, c, d, st, T) /\ TableSound(n, T)
      /\ m \in Nat /\ Exists(s) /\ Keyed(T)
      /\ Fits(m, d, G, n) /\ Bounded(m, G, T)
  BY Existing DEF Typed, Sound, Setting, Points, TableSound
<1>1. Exists(d.pivot) => /\ d.pivot \in Point /\ d.pivot.at \in Nat /\ d.pivot.at <= n
                         /\ T = {} \/ d.pivot \in T
                         /\ \A x \in T : x.at <= d.pivot.at
  BY <1>0, PivotIsLast DEF Point
<1>2. Exists(d.held) => LET U == Inserted(T, d.held)
                        IN  /\ d.held \in Point /\ d.held.at \in Nat /\ d.held \in G
                            /\ d.held \in U /\ U \in SUBSET Point /\ Keyed(U)
                            /\ \A x \in U : x.at <= d.held.at
                            /\ \A a \in G : a.at <= d.held.at
                            /\ Bounded(m, G, U) /\ d.held.at <= n
  <2>1. ASSUME Exists(d.held) PROVE d.held.at <= n /\ d.held \in G
    BY <1>0, <2>1 DEF StoredSound, Fits
  <2> QED
    BY <1>0, <2>1, HeldArchived DEF Point
<1> HIDE DEF m
<1>3. CASE Starts(d, s, w)
  <2>1. w.door = OpenDoor(s) /\ w.points = <<s>> /\ T2 = Inserted(T, s) /\ ~Exists(d.held)
    BY <1>3, FewPoints DEF Starts, Swung
  <2>2. G2 = G \cup {s}
    BY <1>0, <2>1, OpenDoorType DEF Points
  <2>3. CASE ~Exists(d.pivot)
    <3>1. G = {} /\ \A x \in T : x.at <= n
      BY <1>0, <2>3 DEF Fits, TableSound
    <3>2. Bounded(m, {s}, Inserted(T, s)) /\ Fits(m, OpenDoor(s), {s}, n)
      BY <1>0, <3>1, FirstArchived
    <3>3. G2 = {s}
      BY <2>2, <3>1
    <3> QED
      BY <2>1, <3>2, <3>3 DEF m
  <2>4. CASE Exists(d.pivot)
    <3>1. d.pivot.at < s.at /\ \A a \in G : a.at <= d.pivot.at
      BY <1>0, <1>3, <2>1, <2>4 DEF Starts, Fits
    <3>2. Bounded(m, G \cup {s}, Inserted(T, s)) /\ Fits(m, OpenDoor(s), G \cup {s}, n)
      BY <1>0, <1>1, <2>4, <3>1, NextArchived
    <3> QED
      BY <2>1, <2>2, <3>2 DEF m
  <2> QED
    BY <2>3, <2>4
<1>4. CASE Ignores(d, s, w)
  <2>1. w.door = d /\ T2 = T /\ Exists(d.pivot) /\ s.at <= d.pivot.at
    BY <1>4, FewPoints DEF Ignores, Swung
  <2>2. ~(d.pivot.at < n) /\ d.pivot \in G
    BY <1>0, <1>1, <2>1 DEF Fits
  <2>3. G2 = G
    BY <2>1, <2>2
  <2> QED
    BY <1>0, <2>1, <2>3 DEF m
<1>5. CASE Holds(d, s, c, w)
  <2>1. /\ w.door = Narrowed(d, s, m) /\ T2 = T
        /\ Exists(d.pivot) /\ d.pivot.at < s.at /\ ~Closed(d, s, m)
    BY <1>5, FewPoints DEF Holds, Swung, m
  <2>2. w.door.pivot = d.pivot
    BY <1>0, <1>1, <2>1, NarrowedType
  <2>3. G2 = G \cup {s}
    BY <1>1, <2>1, <2>2
  <2>4. Fits(m, w.door, G2, n)
    BY <1>0, <1>1, <2>1, <2>3, NarrowedFits
  <2>5. \A x \in T : x.at < s.at
    BY <1>0, <1>1, <2>1 DEF Point
  <2>6. Bounded(m, G2, T)
    BY <1>0, <2>3, <2>5, SampleAdded
  <2> QED
    BY <2>1, <2>4, <2>6 DEF m
<1>6. CASE Repeats(d, s, w)
  <2>1. /\ w.door = OpenDoor(d.held) /\ T2 = Inserted(T, d.held)
        /\ Exists(d.held) /\ s.at <= d.held.at
    BY <1>6, FewPoints DEF Repeats, Swung
  <2>2. w.door.pivot = d.held /\ d.held.at = n /\ d.held \in G
    BY <1>0, <1>2, <2>1, OpenDoorType DEF Points
  <2>3. G2 = G
    BY <1>0, <2>2
  <2>4. Fits(m, OpenDoor(d.held), G, n)
    BY <1>0, <1>2, <2>1, <2>2, OpenFits
  <2> QED
    BY <1>2, <2>1, <2>3, <2>4 DEF m
<1>7. CASE ArchivesBoth(d, s, w)
  <2> DEFINE U == Inserted(T, d.held)
  <2>1. /\ w.door = OpenDoor(s) /\ T2 = Inserted(U, s)
        /\ Exists(d.held) /\ d.held.at < s.at
    BY <1>7, FewPoints DEF ArchivesBoth, Swung
  <2>2. G2 = G \cup {s}
    BY <1>0, <2>1, OpenDoorType DEF Points
  <2>3. /\ d.held \in Point /\ d.held \in U /\ U \in SUBSET Point /\ Keyed(U)
        /\ \A x \in U : x.at <= d.held.at
        /\ \A a \in G : a.at <= d.held.at
        /\ Bounded(m, G, U)
    BY <1>2, <2>1
  <2> HIDE DEF U
  <2>4. Bounded(m, G \cup {s}, Inserted(U, s)) /\ Fits(m, OpenDoor(s), G \cup {s}, n)
    BY <1>0, <2>1, <2>3, NextArchived
  <2> QED
    BY <2>1, <2>2, <2>4 DEF m
<1>8. CASE ArchivesHeld(d, s, c, w)
  <2> DEFINE o == OpenDoor(d.held)
             U == Inserted(T, d.held)
  <2>1. /\ w.door = Narrowed(o, s, m) /\ T2 = U
        /\ Exists(d.held) /\ d.held.at < s.at
    BY <1>8, FewPoints DEF ArchivesHeld, Swung, m
  <2>2. /\ d.held \in Point /\ d.held.at \in Nat /\ d.held \in G /\ d.held \in U
        /\ U \in SUBSET Point /\ d.held.at <= n
        /\ \A x \in U : x.at <= d.held.at
        /\ \A a \in G : a.at <= d.held.at
        /\ Bounded(m, G, U)
    BY <1>2, <2>1
  <2>3. /\ o \in Door /\ o.pivot = d.held /\ o.upper = <<1, 0>> /\ o.lower = <<-1, 0>>
    BY <1>0, <2>2, OpenDoorType DEF Points
  <2>4. ~Closed(o, s, m)
    <3>1. s.value \in Int /\ s.at \in Nat /\ d.held.value \in Int
      BY <2>2 DEF Point
    <3> DEFINE x == s.value - d.held.value
               j == s.at - d.held.at
    <3>2. x \in Int /\ j \in Nat /\ j > 0
      BY <1>0, <2>1, <2>2, <3>1
    <3>3. SlopeTo(o, s, m) = <<x + m, j>> /\ SlopeTo(o, s, -m) = <<x - m, j>>
      BY <1>0, <2>3, <3>1 DEF SlopeTo
    <3> HIDE DEF x, j, o
    <3>4. NewUpper(o, s, m) = <<x + m, j>> /\ NewLower(o, s, m) = <<x - m, j>>
      BY <1>0, <2>3, <3>2, <3>3 DEF NewUpper, NewLower, LesserOf, GreaterOf, Below
    <3>5. (x - m) * j <= (x + m) * j
      BY <1>0, <3>2, ProductsOrdered
    <3>6. (x - m) * j \in Int /\ (x + m) * j \in Int
      BY <1>0, <3>2
    <3> QED
      BY <3>4, <3>5, <3>6 DEF Closed, Below
  <2>5. Fits(m, o, G, n)
    <3>1. \A a \in G : a.at <= n
      BY <1>0 DEF Fits
    <3> QED
      BY <1>0, <2>2, <3>1, OpenFits
  <2>6. w.door.pivot = d.held
    BY <1>0, <2>1, <2>2, <2>3, NarrowedType
  <2>7. G2 = G \cup {s}
    BY <2>1, <2>6
  <2> HIDE DEF o, U
  <2>8. Fits(m, w.door, G2, n)
    BY <1>0, <2>1, <2>2, <2>3, <2>4, <2>5, <2>7, NarrowedFits
  <2>9. \A x \in U : x.at < s.at
    BY <1>0, <2>1, <2>2 DEF Point
  <2>10. Bounded(m, G2, U)
    BY <1>0, <2>2, <2>7, <2>9, SampleAdded
  <2> QED
    BY <2>1, <2>8, <2>10 DEF m
<1> QED
  BY <1>0, <1>3, <1>4, <1>5, <1>6, <1>7, <1>8, SwingCases

(* flush(), of what a door holds back.                                     *)
LEMMA FlushFits ==
    ASSUME NEW n \in Nat, NEW sw, NEW c, NEW d \in Door, NEW st \in Points,
           NEW T \in SUBSET Point, NEW G \in SUBSET Point, NEW m \in Nat,
           DoorSound(d), StoredSound(n, sw, c, d, st, T), TableSound(n, T),
           Fits(m, d, G, n), Bounded(m, G, T), Exists(d.held)
    PROVE  Fits(m, OpenDoor(d.held), G, n) /\ Bounded(m, G, Inserted(T, d.held))
<1>1. /\ d.held \in Point /\ \A a \in G : a.at <= d.held.at
      /\ Bounded(m, G, Inserted(T, d.held))
  BY HeldArchived
<1>2. d.held \in G /\ d.held.at <= n /\ \A a \in G : a.at <= n
  BY DEF Fits, StoredSound
<1> QED
  BY <1>1, <1>2, OpenFits

(* The invariant that bounds the error.                                    *)
FitTag(t) ==
    /\ Fits(setting[t].tolerance, door[t], taken[t], now)
    /\ Bounded(setting[t].tolerance, taken[t], rows[t])

FitInv == \A t \in Tags : FitTag(t)

LEMMA NothingTaken ==
    ASSUME NEW m, NEW n, NEW T
    PROVE  Fits(m, OpenDoor(NoPoint), {}, n) /\ Bounded(m, {}, T)
<1>1. /\ OpenDoor(NoPoint).pivot = NoPoint /\ OpenDoor(NoPoint).held = NoPoint
      /\ OpenDoor(NoPoint).upper = <<1, 0>> /\ OpenDoor(NoPoint).lower = <<-1, 0>>
      /\ ~Exists(NoPoint)
  BY OpenDoorType, NoPointIsNone DEF Points
<1> QED
  BY <1>1 DEF Fits, Bounded

LEMMA FitLater ==
    ASSUME NEW m, NEW d, NEW G \in SUBSET Point, NEW n \in Nat, Fits(m, d, G, n)
    PROVE  Fits(m, d, G, n + 1)
<1>1. \A a \in G : a.at \in Nat
  BY DEF Point
<1> QED
  BY <1>1 DEF Fits

LEMMA FitStep ==
    ASSUME IInv, FitInv, [Next]_vars
    PROVE  FitInv'
<1>1. /\ TypeOK /\ now \in Nat
      /\ \A t \in Tags : TypedTag(t) /\ SoundTag(t) /\ FitTag(t)
      /\ \A t \in Tags : taken[t] \in SUBSET Point /\ setting[t] \in Setting
      /\ \A t \in Tags : setting[t].tolerance \in Nat
  BY TypedTags DEF IInv, FitInv, TypeOK, Setting
<1>2. ASSUME NEW t \in Tags, NEW v \in Values, RecordThroughDoor(t, v) PROVE FitInv'
  <2> DEFINE s == Sample(v)
             w == Swing(door[t], s, setting[t])
             T2 == WithPoints(rows[t], w.points)
             g2 == IF w.door.pivot.at < now \/ w.door.pivot = s
                   THEN taken[t] \cup {s} ELSE taken[t]
  <2>1. s \in Point /\ s.at = now
    BY <1>1, HistorianAssumption DEF Sample, Point
  <2>2. /\ rows' = [rows EXCEPT ![t] = T2] /\ door' = [door EXCEPT ![t] = w.door]
        /\ taken' = [taken EXCEPT ![t] = g2]
        /\ UNCHANGED <<now, setting>> /\ setting[t].tolerance > 0
    BY <1>2 DEF RecordThroughDoor
  <2>3. /\ Fits(setting[t].tolerance, w.door, g2, now)
        /\ Bounded(setting[t].tolerance, g2, T2)
    <3>1. /\ Typed(now, swept, setting[t], door[t], stored[t], rows[t], disk[t],
                    heard[t], passed[t], flushed[t])
          /\ Sound(now, swept, setting[t], door[t], stored[t], rows[t], disk[t],
                   heard[t], passed[t], flushed[t])
      BY <1>1 DEF TypedTag, SoundTag
    <3>2. /\ taken[t] \in SUBSET Point /\ setting[t].tolerance > 0
          /\ Fits(setting[t].tolerance, door[t], taken[t], now)
          /\ Bounded(setting[t].tolerance, taken[t], rows[t])
      BY <1>1, <2>2 DEF FitTag
    <3> HIDE DEF s
    <3> QED
      BY <2>1, <3>1, <3>2, SwingFits
  <2> HIDE DEF s, w, T2, g2
  <2>4. ASSUME NEW u \in Tags PROVE FitTag(u)'
    BY <1>1, <2>2, <2>3 DEF FitTag, TypeOK
  <2> QED
    BY <2>4 DEF FitInv
<1>3. ASSUME NEW t \in Tags, NEW v \in Values, RecordDirectly(t, v) PROVE FitInv'
  <2>1. ~Exists(door[t].pivot)
    BY <1>1, <1>3 DEF RecordDirectly, SoundTag, Sound, StoredSound
  <2>2. taken[t] = {}
    BY <1>1, <2>1 DEF FitTag, Fits
  <2>3. /\ rows' = [rows EXCEPT ![t] = Inserted(@, Sample(v))]
        /\ UNCHANGED <<now, setting, door, taken>>
    BY <1>3 DEF RecordDirectly
  <2>4. ASSUME NEW u \in Tags PROVE FitTag(u)'
    BY <1>1, <2>2, <2>3 DEF FitTag, TypeOK, Bounded
  <2> QED
    BY <2>4 DEF FitInv
<1>4. CASE Flush
  <2>1. UNCHANGED <<now, setting, taken>>
    BY <1>4 DEF Flush
  <2>2. ASSUME NEW u \in Tags PROVE FitTag(u)'
    <3>1. /\ rows'[u] = IF Pending(u) THEN Inserted(rows[u], door[u].held) ELSE rows[u]
          /\ door'[u] = IF Pending(u) THEN OpenDoor(door[u].held) ELSE door[u]
      BY <1>4 DEF Flush
    <3>2. Pending(u) => Exists(door[u].held)
      BY DEF Pending
    <3> QED
      BY <1>1, <2>1, <3>1, <3>2, FlushFits DEF FitTag, TypedTag, Typed, SoundTag, Sound
  <2> QED
    BY <2>2 DEF FitInv
<1>5. ASSUME NEW age \in Ages, ApplyRetention(age) PROVE FitInv'
  <2>1. UNCHANGED <<now, setting, taken, door>> /\ now - age \in Int
    BY <1>1, <1>5, HistorianAssumption DEF ApplyRetention, memory
  <2>2. ASSUME NEW u \in Tags PROVE FitTag(u)'
    <3>1. rows'[u] = {r \in rows[u] : r.at >= now - age} /\ rows[u] \in SUBSET Point
      BY <1>1, <1>5 DEF ApplyRetention, TypeOK
    <3>2. Bounded(setting[u].tolerance, taken[u], rows'[u])
      BY <1>1, <2>1, <3>1, RowsSwept DEF FitTag
    <3> QED
      BY <1>1, <2>1, <3>2 DEF FitTag
  <2> QED
    BY <2>2 DEF FitInv
<1>6. ASSUME NEW t \in Tags, NEW c \in Settings, ConfigureTag(t, c) PROVE FitInv'
  <2>1. /\ setting' = [setting EXCEPT ![t] = c]
        /\ door' = [door EXCEPT ![t] = OpenDoor(NoPoint)]
        /\ taken' = [taken EXCEPT ![t] = {}]
        /\ UNCHANGED <<now, rows>>
    BY <1>6 DEF ConfigureTag, tables
  <2>2. ASSUME NEW u \in Tags PROVE FitTag(u)'
    BY <1>1, <2>1, NothingTaken DEF FitTag, TypeOK
  <2> QED
    BY <2>2 DEF FitInv
<1>7. CASE Crash
  <2>1. ASSUME NEW u \in Tags PROVE FitTag(u)'
    BY <1>7, NothingTaken DEF FitTag, Crash
  <2> QED
    BY <2>1 DEF FitInv
<1>8. CASE Tick
  <2>1. ASSUME NEW u \in Tags PROVE FitTag(u)'
    BY <1>1, <1>8, FitLater DEF FitTag, Tick, memory, tables, ghosts
  <2> QED
    BY <2>1 DEF FitInv
<1>9. ASSUME UNCHANGED <<now, setting, door, rows, taken>> PROVE FitInv'
  BY <1>1, <1>9 DEF FitInv, FitTag
<1>10. ASSUME NEW t \in Tags, NEW v \in Values, RecordExcepted(t, v) PROVE FitInv'
  BY <1>9, <1>10 DEF RecordExcepted, memory, tables
<1>11. CASE Vacuum
  BY <1>9, <1>11 DEF Vacuum, memory, ghosts
<1>12. CASE UNCHANGED vars
  BY <1>9, <1>12 DEF vars, memory, tables, ghosts
<1> QED
  BY <1>2, <1>3, <1>4, <1>5, <1>6, <1>7, <1>8, <1>10, <1>11, <1>12 DEF Next, Record

-----------------------------------------------------------------------------
(* The theorems                                                            *)

(* The type invariant of the historian.                                    *)
THEOREM TypeCorrect == Spec => []TypeOK
<1>1. IInv => TypeOK
  BY DEF IInv
<1>2. QED
  BY <1>1, AlwaysSound, PTL

(* record()'s two uses of max_interval, in the deadband and in the door,   *)
(* together keep a row younger than it behind every sample.                *)
THEOREM HeartbeatIsKept == Spec => []HeartbeatKept
<1>1. IInv => HeartbeatKept
  <2>1. SUFFICES ASSUME IInv, NEW t \in Tags, heard[t] # None, setting[t].maxInterval # None
                 PROVE  \/ heard[t] - setting[t].maxInterval < swept
                        \/ \E r \in rows[t] : heard[t] - r.at < setting[t].maxInterval
    BY DEF HeartbeatKept
  <2>2. /\ heard[t] \in Nat /\ setting[t].maxInterval \in Nat /\ swept \in Nat
        /\ stored[t] \in Points
    BY <2>1 DEF IInv, TypeOK, Setting
  <2>3. /\ Exists(stored[t]) /\ heard[t] - stored[t].at < setting[t].maxInterval
        /\ stored[t] \in rows[t] \/ stored[t].at < swept
    BY <2>1 DEF IInv, SoundTag, Sound, SamplesSound, StoredSound
  <2>4. stored[t].at \in Nat
    BY <2>2, <2>3, Existing
  <2>5. QED
    BY <2>2, <2>3, <2>4
<1>2. QED
  BY <1>1, AlwaysSound, PTL

(* What a flush put on disk is there for good, or until retention.         *)
THEOREM FlushedStays == Spec => []FlushedIsSaved
<1>1. IInv => FlushedIsSaved
  BY DEF IInv, SoundTag, Sound, Saved, FlushedIsSaved
<1>2. QED
  BY <1>1, AlwaysSound, PTL

(* No archived point comes to be before one that is there.                 *)
THEOREM TrendsRunForward == Spec => TrendRunsForward
<1>1. ASSUME IInv, [Next]_vars
      PROVE  [\A t \in Tags : \A r \in rows'[t] \ (rows[t] \cup disk[t]), q \in rows[t] :
                q.at <= r.at]_vars
  BY <1>1, StepSound DEF Forward
<1>2. QED
  BY <1>1, AlwaysSound, PTL DEF TrendRunsForward, Spec

(* The trend rebuilt from the rows is within twice the tolerance of every  *)
(* sample the door has taken, for any tolerance, values and heartbeat, and *)
(* whatever was flushed, swept or late in between.                         *)
THEOREM TrendIsRebuilt == Spec => []ErrorIsBounded
<1>1. Init => FitInv
  <2> SUFFICES ASSUME Init, NEW t \in Tags PROVE FitTag(t)
    BY DEF FitInv
  <2>1. door[t] = OpenDoor(NoPoint) /\ taken[t] = {}
    BY DEF Init
  <2> QED
    BY <2>1, NothingTaken DEF FitTag
<1>2. IInv /\ FitInv /\ [Next]_vars => FitInv'
  BY FitStep
<1>3. FitInv => ErrorIsBounded
  BY DEF FitInv, FitTag, Bounded, Between, Around, ErrorIsBounded
<1> QED
  BY <1>1, <1>2, <1>3, AlwaysSound, PTL DEF Spec
=============================================================================
