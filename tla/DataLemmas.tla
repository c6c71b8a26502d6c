----------------------------- MODULE DataLemmas -----------------------------
(***************************************************************************)
(* Induction over the natural numbers, stated of sets, and what the deque  *)
(* operators leave: the end of a sequence, and which one.                  *)
(***************************************************************************)
EXTENDS Deques, SequenceTheorems, WellFoundedInduction, TLAPS

(* u is the newest part of s.                                              *)
IsEndOf(u, s) ==
    /\ Len(u) <= Len(s)
    /\ \A j \in 1 .. Len(u) : u[j] = s[Len(s) - Len(u) + j]

(* A nonempty set of numbers has a least element.                          *)
LEMMA LeastNumber ==
    ASSUME NEW S \in SUBSET Nat, S # {}
    PROVE  \E m \in S : \A n \in S : m <= n
<1> DEFINE Less == {p \in Nat \X Nat : p[1] < p[2]}
<1>1. IsWellFoundedOn(Less, Nat)
  BY NatLessThanWellFounded DEF OpToRel
<1> HIDE DEF Less
<1>2. PICK m \in S : \A n \in S : ~(<<n, m>> \in Less)
  BY <1>1, WFMin
<1>3. ASSUME NEW n \in S PROVE m <= n
  <2>1. n < m => <<n, m>> \in Less
    BY DEF Less
  <2>2. QED
    BY <1>2, <2>1
<1>4. QED
  BY <1>3

(* Induction.                                                              *)
LEMMA InductiveSet ==
    ASSUME NEW S, 0 \in S, \A n \in Nat : n \in S => n + 1 \in S
    PROVE  Nat \subseteq S
<1> SUFFICES ASSUME Nat \ S # {} PROVE FALSE
  OBVIOUS
<1>1. PICK m \in Nat \ S : \A n \in Nat \ S : m <= n
  BY LeastNumber
<1>2. m - 1 \in Nat /\ m = (m - 1) + 1
  OBVIOUS
<1>3. m - 1 \in S
  BY <1>1, <1>2
<1> QED
  BY <1>2, <1>3

LEMMA SuffixFrom ==
    ASSUME NEW S, NEW s \in Seq(S), NEW k \in 1 .. Len(s) + 1
    PROVE  /\ SubSeq(s, k, Len(s)) \in Seq(S)
           /\ Len(SubSeq(s, k, Len(s))) = Len(s) - k + 1
           /\ IsEndOf(SubSeq(s, k, Len(s)), s)
<1> DEFINE u == SubSeq(s, k, Len(s))
<1>1. /\ u \in Seq(S) /\ Len(u) = IF k <= Len(s) THEN Len(s) - k + 1 ELSE 0
      /\ \A i \in 1 .. Len(s) - k + 1 : u[i] = s[k + i - 1]
  BY SubSeqProperties
<1>2. Len(u) = Len(s) - k + 1
  BY <1>1
<1> HIDE DEF u
<1>3. \A j \in 1 .. Len(u) : u[j] = s[Len(s) - Len(u) + j]
  <2>1. ASSUME NEW j \in 1 .. Len(u) PROVE u[j] = s[Len(s) - Len(u) + j]
    <3>1. k + j - 1 = Len(s) - Len(u) + j
      BY <1>2
    <3>2. u[j] = s[k + j - 1]
      BY <1>1, <1>2
    <3>3. QED
      BY <3>1, <3>2
  <2>2. QED
    BY <2>1
<1>4. Len(u) <= Len(s)
  BY <1>2
<1>5. IsEndOf(u, s)
  BY <1>3, <1>4 DEF IsEndOf
<1>6. QED
  BY <1>1, <1>2, <1>5 DEF u

(* A bounded deque keeps its newest elements, and a nonempty one the last. *)
LEMMA NewestIsEndOf ==
    ASSUME NEW S, NEW s \in Seq(S), NEW n \in Nat
    PROVE  /\ Newest(s, n) \in Seq(S)
           /\ IsEndOf(Newest(s, n), s)
           /\ Len(Newest(s, n)) = IF Len(s) <= n THEN Len(s) ELSE n
<1>1. CASE Len(s) <= n
  BY <1>1 DEF Newest, IsEndOf
<1>2. CASE ~(Len(s) <= n)
  <2>1. Len(s) - n + 1 \in 1 .. Len(s) + 1
    BY <1>2
  <2>2. QED
    BY <1>2, <2>1, SuffixFrom DEF Newest
<1>3. QED
  BY <1>1, <1>2

(* u is what is left of the times s when those before horizon are dropped  *)
(* from its old end.                                                       *)
IsTrimmed(u, s, horizon) ==
    /\ u \in Seq(Nat)
    /\ IsEndOf(u, s)
    /\ \A j \in 1 .. Len(s) - Len(u) : s[j] < horizon
    /\ u # <<>> => u[1] >= horizon

LEMMA DroppedBeforeTrims ==
    ASSUME NEW s \in Seq(Nat), NEW horizon \in Int
    PROVE  IsTrimmed(DroppedBefore(s, horizon), s, horizon)
<1> DEFINE Stops == {k \in 1 .. Len(s) + 1 : k <= Len(s) => s[k] >= horizon}
           First(k) == /\ \A j \in 1 .. k - 1 : s[j] < horizon
                       /\ k <= Len(s) => s[k] >= horizon
           first == CHOOSE k \in 1 .. Len(s) + 1 : First(k)
           u == SubSeq(s, first, Len(s))
<1>1. \E k \in 1 .. Len(s) + 1 : First(k)
  <2>1. Len(s) + 1 \in Stops
    OBVIOUS
  <2>2. PICK m \in Stops : \A n \in Stops : m <= n
    <3>1. Stops \in SUBSET Nat /\ Stops # {}
      BY <2>1
    <3> HIDE DEF Stops
    <3>2. QED
      BY <3>1, LeastNumber
  <2>3. ASSUME NEW j \in 1 .. m - 1 PROVE s[j] < horizon
    <3>1. j \notin Stops /\ j \in 1 .. Len(s)
      BY <2>2
    <3>2. s[j] \in Int
      BY <3>1
    <3>3. QED
      BY <3>1, <3>2
  <2>4. QED
    BY <2>2, <2>3
<1>2. first \in 1 .. Len(s) + 1 /\ First(first)
  BY <1>1
<1>3. DroppedBefore(s, horizon) = u
  BY DEF DroppedBefore
<1> HIDE DEF first
<1>4. /\ u \in Seq(Nat) /\ IsEndOf(u, s) /\ Len(u) = Len(s) - first + 1
  BY <1>2, SuffixFrom
<1>5. u # <<>> => u[1] >= horizon
  <2>1. SUFFICES ASSUME u # <<>> PROVE u[1] >= horizon
    OBVIOUS
  <2>2. first <= Len(s)
    BY <1>2, <1>4, <2>1
  <2>3. u[1] = s[first]
    BY <1>2, <1>4, <2>2 DEF IsEndOf
  <2>4. QED
    BY <1>2, <2>2, <2>3
<1>6. QED
  BY <1>2, <1>3, <1>4, <1>5 DEF IsTrimmed
=============================================================================
