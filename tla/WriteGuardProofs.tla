-------------------------- MODULE WriteGuardProofs --------------------------
(***************************************************************************)
(* Theorems about the write guard, for every tag database, policy, window  *)
(* and bound.                                                              *)
(*                                                                         *)
(* RateHeld is about the writes ever accepted, and the code keeps a window *)
(* of their times only.  The invariant ties the two together: the window   *)
(* is the newest part of the accepted writes, and every accepted write it  *)
(* has forgotten is more than a window old.                                *)
(***************************************************************************)
EXTENDS WriteGuard, DataLemmas

(* The accepted writes of t are in the order of time.                      *)
InOrder(t) ==
    /\ \A i \in DOMAIN written[t] : written[t][i].at <= now
    /\ \A i, j \in DOMAIN written[t] : i <= j => written[t][i].at <= written[t][j].at

(* The times h are those of the newest accepted writes of t, and the       *)
(* others are behind the window.                                           *)
Remembers(h, t) ==
    /\ h \in Seq(Nat)
    /\ Len(h) <= Len(written[t])
    /\ \A j \in 1 .. Len(h) : h[j] = written[t][Len(written[t]) - Len(h) + j].at
    /\ \A i \in 1 .. Len(written[t]) - Len(h) : written[t][i].at + Window < now

RateInv ==
    \A t \in Tags : InOrder(t) /\ Remembers(history[t], t)

IInv ==
    /\ TypeOK
    /\ RateInv
    /\ RateHeld
    /\ ConfirmedOnce
    /\ NumbersAreClamped
    /\ AuditTellsAttempt

-----------------------------------------------------------------------------
(* The rate limit                                                          *)

(* What _check_rate forgets is behind the window; what it keeps is in it.  *)
LEMMA RecentRemembers ==
    ASSUME TypeOK, NEW t \in Tags, InOrder(t), Remembers(history[t], t)
    PROVE  /\ Remembers(Recent(t), t)
           /\ Recent(t) # <<>> => Recent(t)[1] >= now - Window
<1> DEFINE h == history[t]
           u == Recent(t)
           w == written[t]
<1>1. /\ now \in Nat /\ Window \in Nat /\ h \in Seq(Nat) /\ w \in Seq(AcceptedWrite)
  BY WriteGuardAssumption DEF TypeOK
<1>2. /\ u \in Seq(Nat)
      /\ IsEndOf(u, h)
      /\ \A j \in 1 .. Len(h) - Len(u) : h[j] < now - Window
      /\ u # <<>> => u[1] >= now - Window
  <2>1. IsTrimmed(u, h, now - Window)
    BY <1>1, DroppedBeforeTrims DEF Recent
  <2>2. QED
    BY <2>1 DEF IsTrimmed
<1>3. /\ Len(h) <= Len(w)
      /\ \A j \in 1 .. Len(h) : h[j] = w[Len(w) - Len(h) + j].at
      /\ \A i \in 1 .. Len(w) - Len(h) : w[i].at + Window < now
  BY DEF Remembers
<1> HIDE DEF h, u, w
<1>4. /\ Len(u) <= Len(h)
      /\ \A j \in 1 .. Len(u) : u[j] = h[Len(h) - Len(u) + j]
  BY <1>2 DEF IsEndOf
<1>5. Len(u) \in Nat /\ Len(h) \in Nat /\ Len(w) \in Nat
  BY <1>1, <1>2
<1>6. ASSUME NEW j \in 1 .. Len(u)
      PROVE  u[j] = w[Len(w) - Len(u) + j].at /\ u[j] \in Nat
  <2>1. Len(h) - Len(u) + j \in 1 .. Len(h)
    BY <1>4, <1>5
  <2>2. u[j] = h[Len(h) - Len(u) + j]
    BY <1>4
  <2>3. h[Len(h) - Len(u) + j] = w[Len(w) - Len(h) + (Len(h) - Len(u) + j)].at
    BY <1>3, <2>1
  <2>4. Len(w) - Len(h) + (Len(h) - Len(u) + j) = Len(w) - Len(u) + j
    BY <1>5
  <2>5. h[Len(h) - Len(u) + j] \in Nat
    BY <1>1, <2>1
  <2>6. QED
    BY <2>2, <2>3, <2>4, <2>5
<1>7. ASSUME NEW i \in 1 .. Len(w) - Len(u)
      PROVE  w[i].at + Window < now
  <2>1. CASE i <= Len(w) - Len(h)
    BY <1>3, <1>5, <2>1
  <2>2. CASE i > Len(w) - Len(h)
    <3> DEFINE j == i - (Len(w) - Len(h))
    <3>1. j \in 1 .. Len(h) - Len(u) /\ j \in 1 .. Len(h)
      BY <1>4, <1>5, <2>2
    <3>2. h[j] < now - Window /\ h[j] \in Nat
      BY <1>1, <1>2, <3>1, SMTT(30)
    <3>3. h[j] = w[Len(w) - Len(h) + j].at /\ Len(w) - Len(h) + j = i
      BY <1>3, <1>5, <3>1
    <3>4. QED
      BY <1>1, <3>2, <3>3
  <2>3. QED
    BY <1>5, <2>1, <2>2
<1>8. Remembers(u, t)
  BY <1>2, <1>3, <1>4, <1>5, <1>6, <1>7 DEF Remembers, w
<1>9. QED
  BY <1>2, <1>8 DEF u

(* A write accepted now, when the limit is not reached, is remembered, and *)
(* the one MaxWrites before it is more than a window old.                  *)
LEMMA AcceptedRate ==
    ASSUME TypeOK, NEW t \in Tags, InOrder(t), Remembers(history[t], t), UnderRate(t),
           \A i \in DOMAIN written[t] :
               i > MaxWrites => written[t][i].at > written[t][i - MaxWrites].at + Window,
           NEW e \in AcceptedWrite, e.at = now, now' = now,
           written'[t] = Append(written[t], e),
           history'[t] = Newest(Append(Recent(t), now), HistoryDepth)
    PROVE  /\ InOrder(t)'
           /\ Remembers(history[t], t)'
           /\ \A i \in DOMAIN written'[t] :
               i > MaxWrites => written'[t][i].at > written'[t][i - MaxWrites].at + Window
<1> DEFINE w == written[t]
           n == Len(w)
           v == written'[t]
           u == Recent(t)
           m == Len(u)
<1>1. /\ now \in Nat /\ Window \in Nat /\ MaxWrites \in Nat /\ HistoryDepth \in Nat
      /\ MaxWrites <= HistoryDepth /\ w \in Seq(AcceptedWrite)
  BY WriteGuardAssumption, HistoryHoldsTheLimit DEF TypeOK
<1>2. /\ u \in Seq(Nat) /\ m <= n /\ m < MaxWrites
      /\ \A j \in 1 .. m : u[j] = w[n - m + j].at
      /\ \A i \in 1 .. n - m : w[i].at + Window < now
  BY RecentRemembers DEF Remembers, UnderRate
<1>3. /\ v \in Seq(AcceptedWrite) /\ Len(v) = n + 1 /\ v[n + 1] = e
      /\ \A i \in 1 .. n : v[i] = w[i]
  BY <1>1
<1>4. /\ \A i \in DOMAIN w : w[i].at <= now
      /\ \A i, j \in DOMAIN w : i <= j => w[i].at <= w[j].at
  BY DEF InOrder
<1>5. /\ n \in Nat /\ m \in Nat /\ DOMAIN w = 1 .. n /\ DOMAIN v = 1 .. n + 1
  BY <1>1, <1>2, <1>3
<1>6. history'[t] = Append(u, now)
  <2>1. Len(Append(u, now)) = m + 1
    BY <1>1, <1>2
  <2>2. m + 1 <= HistoryDepth
    BY <1>1, <1>2, <1>5
  <2>3. QED
    BY <2>1, <2>2 DEF Newest
<1>7. /\ Append(u, now) \in Seq(Nat) /\ Len(Append(u, now)) = m + 1
      /\ Append(u, now)[m + 1] = now
      /\ \A j \in 1 .. m : Append(u, now)[j] = u[j]
  BY <1>1, <1>2
<1> HIDE DEF w, n, v, u, m
<1>8. InOrder(t)'
  <2>1. \A i \in 1 .. n + 1 : v[i].at <= now
    BY <1>1, <1>3, <1>4, <1>5
  <2>2. ASSUME NEW i \in 1 .. n + 1, NEW j \in 1 .. n + 1, i <= j
        PROVE  v[i].at <= v[j].at
    <3>1. CASE j = n + 1
      BY <1>3, <2>1, <3>1
    <3>2. CASE j # n + 1
      <4>1. i \in 1 .. n /\ j \in 1 .. n
        BY <1>5, <2>2, <3>2
      <4>2. QED
        BY <1>3, <1>4, <1>5, <2>2, <4>1
    <3>3. QED
      BY <3>1, <3>2
  <2>3. QED
    BY <1>5, <2>1, <2>2 DEF InOrder, v
<1>9. Remembers(history[t], t)'
  <2>1. ASSUME NEW j \in 1 .. m + 1
        PROVE  Append(u, now)[j] = v[(n + 1) - (m + 1) + j].at
    <3>1. CASE j = m + 1
      <4>1. (n + 1) - (m + 1) + j = n + 1
        BY <1>5, <3>1
      <4>2. QED
        BY <1>3, <1>7, <3>1, <4>1
    <3>2. CASE j # m + 1
      <4>1. j \in 1 .. m /\ (n + 1) - (m + 1) + j = n - m + j /\ n - m + j \in 1 .. n
        BY <1>2, <1>5, <3>2
      <4>2. QED
        BY <1>2, <1>3, <1>7, <4>1
    <3>3. QED
      BY <3>1, <3>2
  <2>2. \A i \in 1 .. (n + 1) - (m + 1) : v[i].at + Window < now
    BY <1>2, <1>3, <1>5
  <2>3. m + 1 <= n + 1
    BY <1>2, <1>5
  <2>4. QED
    BY <1>3, <1>6, <1>7, <2>1, <2>2, <2>3 DEF Remembers, v
<1>10. ASSUME NEW i \in 1 .. n + 1, i > MaxWrites
       PROVE  v[i].at > v[i - MaxWrites].at + Window
  <2>1. CASE i = n + 1
    <3>1. i - MaxWrites \in 1 .. n - m /\ i - MaxWrites \in 1 .. n
      BY <1>1, <1>2, <1>5, <1>10, <2>1
    <3>2. w[i - MaxWrites].at + Window < now
      BY <1>2, <3>1
    <3>3. w[i - MaxWrites].at \in Nat
      <4>1. w[i - MaxWrites] \in AcceptedWrite
        BY <1>1, <1>5, <3>1
      <4>2. QED
        BY <4>1 DEF AcceptedWrite
    <3>4. v[i] = e /\ v[i - MaxWrites] = w[i - MaxWrites]
      BY <1>3, <2>1, <3>1
    <3>5. QED
      BY <1>1, <3>2, <3>3, <3>4
  <2>2. CASE i # n + 1
    <3>1. i \in 1 .. n /\ (i - MaxWrites \in 1 .. n)
      BY <1>1, <1>5, <1>10, <2>2
    <3>2. w[i].at > w[i - MaxWrites].at + Window
      BY <1>5, <1>10, <3>1 DEF w
    <3>3. QED
      BY <1>3, <3>1, <3>2
  <2>3. QED
    BY <2>1, <2>2
<1>11. QED
  BY <1>5, <1>8, <1>9, <1>10 DEF v

(* A step that accepts nothing remembers the accepted writes as before.    *)
LEMMA RefusedRate ==
    ASSUME TypeOK, NEW t \in Tags, InOrder(t), Remembers(history[t], t),
           written' = written, now' \in Nat, now <= now',
           history'[t] = history[t] \/ history'[t] = Recent(t)
    PROVE  InOrder(t)' /\ Remembers(history[t], t)'
<1>1. Remembers(history'[t], t)
  BY RecentRemembers
<1>2. /\ now \in Nat /\ Window \in Nat /\ written[t] \in Seq(AcceptedWrite)
      /\ \A i \in DOMAIN written[t] : written[t][i].at \in Nat
  <2>1. written[t] \in Seq(AcceptedWrite) /\ now \in Nat /\ Window \in Nat
    BY WriteGuardAssumption DEF TypeOK
  <2>2. \A i \in DOMAIN written[t] : written[t][i] \in AcceptedWrite
    BY <2>1
  <2>3. QED
    BY <2>1, <2>2 DEF AcceptedWrite
<1>3. InOrder(t)'
  BY <1>2 DEF InOrder
<1>4. Remembers(history[t], t)'
  <2>1. \A i \in 1 .. Len(written[t]) - Len(history'[t]) : i \in DOMAIN written[t]
    BY <1>1, <1>2 DEF Remembers
  <2>2. \A i \in 1 .. Len(written[t]) - Len(history'[t]) : written[t][i].at + Window < now'
    BY <1>1, <1>2, <2>1 DEF Remembers
  <2>3. QED
    BY <1>1, <2>2 DEF Remembers
<1>5. QED
  BY <1>3, <1>4

-----------------------------------------------------------------------------
(* The steps                                                               *)

(* A step that accepts nothing.  Tokens are only issued or spent.          *)
Accepts == \E n \in Names, r \in Requests, k \in Presented : Accept(n, r, k)

AcceptsNothing ==
    /\ written' = written /\ register' = register
    /\ now' \in Nat /\ now <= now'
    /\ history' \in [Tags -> Seq(Nat)]
    /\ \A t \in Tags : history'[t] = history[t] \/ history'[t] = Recent(t)
    /\ policy' \in WritePolicy
    /\ issued' \in Seq(Token)
    /\ Len(issued) <= Len(issued')
    /\ \A i \in DOMAIN issued : issued'[i] = issued[i]
    /\ tokens' \subseteq DOMAIN issued'
    /\ tokens' \cap DOMAIN issued \subseteq tokens

LEMMA RecentType ==
    ASSUME TypeOK, NEW t \in Tags
    PROVE  Recent(t) \in Seq(Nat)
<1>1. history[t] \in Seq(Nat) /\ now - Window \in Int
  BY WriteGuardAssumption DEF TypeOK
<1>2. QED
  BY <1>1, DroppedBeforeTrims DEF Recent, IsTrimmed

LEMMA OtherSteps ==
    ASSUME TypeOK, [Next]_vars
    PROVE  Accepts \/ AcceptsNothing
<1> USE DEF AcceptsNothing
<1> USE WriteGuardAssumption
<1>0. /\ now \in Nat /\ policy \in WritePolicy /\ history \in [Tags -> Seq(Nat)]
      /\ issued \in Seq(Token)
      /\ tokens \subseteq DOMAIN issued
  BY DEF TypeOK
<1>1. ASSUME NEW t \in Tags, NEW r \in Requests, IssueToken(t, r) PROVE AcceptsNothing
  <2> DEFINE e == [tag |-> t, request |-> r, expiresAt |-> now + TokenTTL]
  <2>1. e \in Token
    BY <1>0 DEF Token
  <2>2. /\ issued' = Append(issued, e)
        /\ tokens' = tokens \cup {Len(issued) + 1}
        /\ UNCHANGED <<now, policy, history, audit, register, written, attempt>>
    BY <1>1 DEF IssueToken
  <2> HIDE DEF e
  <2>3. /\ issued' \in Seq(Token)
        /\ Len(issued') = Len(issued) + 1
        /\ \A i \in DOMAIN issued : issued'[i] = issued[i]
        /\ DOMAIN issued = 1 .. Len(issued) /\ DOMAIN issued' = 1 .. Len(issued) + 1
        /\ Len(issued) \in Nat
    BY <1>0, <2>1, <2>2
  <2>4. tokens' \subseteq DOMAIN issued' /\ tokens' \cap DOMAIN issued \subseteq tokens
    BY <1>0, <2>2, <2>3
  <2>5. QED
    BY <1>0, <2>2, <2>3, <2>4
<1>2. ASSUME NEW n \in Names, NEW r \in Requests, NEW k \in Presented, Check(n, r, k)
      PROVE  Accepts \/ AcceptsNothing
  <2>1. CASE Accept(n, r, k)
    BY <2>1 DEF Accepts
  <2>2. CASE RefuseUnlisted(n, r)
    BY <1>0, <2>2 DEF RefuseUnlisted
  <2>3. CASE FailUnknown(n, r)
    BY <1>0, <2>3 DEF FailUnknown
  <2>4. CASE RefuseReadOnlyTag(n, r)
    BY <1>0, <2>4 DEF RefuseReadOnlyTag
  <2>5. CASE RefuseUnconfirmed(n, r, k)
    BY <1>0, <2>5 DEF RefuseUnconfirmed, AfterRefusal
  <2>6. CASE RefuseByRate(n, r, k) \/ RefuseByRange(n, r, k)
    <3>1. /\ n \in Tags
          /\ tokens' = AfterUse(k, n)
          /\ history' = [history EXCEPT ![n] = Recent(n)]
          /\ UNCHANGED <<now, policy, issued, register, written>>
      BY <2>6 DEF RefuseByRate, RefuseByRange
    <3>2. Recent(n) \in Seq(Nat)
      BY <3>1, RecentType
    <3>3. tokens' \subseteq tokens
      BY <3>1 DEF AfterUse
    <3>4. QED
      BY <1>0, <3>1, <3>2, <3>3
  <2>7. QED
    BY <1>2, <2>1, <2>2, <2>3, <2>4, <2>5, <2>6 DEF Check
<1>3. ASSUME NEW A \in AllowLists, TurnOn(A) PROVE AcceptsNothing
  <2>1. A \in SUBSET Names
    OBVIOUS
  <2>2. [policy EXCEPT !.readOnly = FALSE, !.allowList = A] \in WritePolicy
    BY <1>0, <2>1 DEF WritePolicy
  <2>3. QED
    BY <1>0, <1>3, <2>2 DEF TurnOn
<1>4. CASE Tick
  BY <1>0, <1>4 DEF Tick
<1>5. CASE UNCHANGED vars
  BY <1>0, <1>5 DEF vars
<1>6. QED
  BY <1>1, <1>2, <1>3, <1>4, <1>5 DEF Next

(* What an accepted write is.                                              *)
AcceptEffect(t, e) ==
    /\ e \in AcceptedWrite
    /\ e.at = now
    /\ e.request \in Request
    /\ e.applied = Applied(t, e.request)
    /\ e.confirmed => e.token \in tokens /\ Confirms(e.token, t, e.request)
    /\ tokens' = IF e.confirmed THEN tokens \ {e.token} ELSE tokens
    /\ UnderRate(t) /\ Allowed(t, e.request)
    /\ written' = [written EXCEPT ![t] = Append(written[t], e)]
    /\ history' = [history EXCEPT ![t] = Newest(Append(Recent(t), now), HistoryDepth)]
    /\ register' \in [Tags -> Int]
    /\ UNCHANGED <<now, policy, issued>>

LEMMA AppliedIsNumber ==
    ASSUME NEW t \in Tags, NEW r \in Request
    PROVE  Applied(t, r) \in Int
  BY WriteGuardAssumption DEF Applied, Clamped, Request

LEMMA AcceptSteps ==
    ASSUME TypeOK, Accepts
    PROVE  \E t \in Tags, e \in AcceptedWrite : AcceptEffect(t, e)
<1>1. PICK n \in Names, r \in Requests, k \in Presented : Accept(n, r, k)
  BY DEF Accepts
<1>2. n \in Tags /\ r \in Request /\ now \in Nat /\ policy \in WritePolicy
      /\ issued \in Seq(Token) /\ register \in [Tags -> Int]
  BY <1>1, WriteGuardAssumption DEF Accept, TypeOK
<1>3. k \in Nat \cup {None}
  BY <1>2 DEF Presented
<1> DEFINE c == n \in policy.confirm
           spent == IF n \in policy.confirm THEN k ELSE None
           e == [at |-> now, request |-> r, applied |-> Applied(n, r),
                 confirmed |-> c, token |-> spent]
<1>4. Applied(n, r) \in Int
  BY <1>2, AppliedIsNumber
<1>5. /\ e \in AcceptedWrite /\ e.at = now /\ e.request = r /\ e.applied = Applied(n, r)
      /\ e.confirmed = c /\ e.token = spent
  <2>1. c \in BOOLEAN /\ spent \in Nat \cup {None}
    BY <1>3
  <2> HIDE DEF c, spent
  <2>2. QED
    BY <1>2, <1>3, <1>4, <2>1 DEF AcceptedWrite
<1>6. written' = [written EXCEPT ![n] = Append(written[n], e)]
  BY <1>1 DEF Accept
<1> HIDE DEF e
<1>7. /\ e.confirmed => e.token \in tokens /\ Confirms(e.token, n, e.request)
      /\ tokens' = IF e.confirmed THEN tokens \ {e.token} ELSE tokens
  BY <1>1, <1>5 DEF Accept, Confirmed, Confirms, AfterUse
<1>8. register' \in [Tags -> Int]
  BY <1>1, <1>2, <1>4 DEF Accept
<1>9. AcceptEffect(n, e)
  BY <1>1, <1>2, <1>5, <1>6, <1>7, <1>8 DEF Accept, AcceptEffect
<1>10. QED
  BY <1>2, <1>5, <1>9

-----------------------------------------------------------------------------
(* The audit trail                                                         *)

LEMMA AuditedEffect ==
    ASSUME TypeOK, NEW n \in Names, NEW r \in Request, NEW x \in Int \cup {None},
           NEW ok \in BOOLEAN, Audited(n, r, x, ok)
    PROVE  /\ audit' \in Seq(AuditEntry)
           /\ audit' # <<>>
           /\ audit'[Len(audit')].tag = n
           /\ audit'[Len(audit')].requested = r
           /\ audit'[Len(audit')].accepted = ok
<1> DEFINE e == [timestamp |-> now, tag |-> n, requested |-> r,
                 applied |-> x, accepted |-> ok]
           s == Append(audit, e)
<1>1. /\ e \in AuditEntry /\ e.tag = n /\ e.requested = r /\ e.accepted = ok
      /\ audit \in Seq(AuditEntry) /\ AuditLimit \in Nat \ {0}
  BY WriteGuardAssumption DEF TypeOK, AuditEntry
<1>2. audit' = Newest(s, AuditLimit)
  BY DEF Audited
<1> HIDE DEF e
<1>3. s \in Seq(AuditEntry) /\ Len(s) = Len(audit) + 1 /\ s[Len(s)] = e /\ Len(audit) \in Nat
  BY <1>1
<1> HIDE DEF s
<1>4. /\ audit' \in Seq(AuditEntry) /\ IsEndOf(audit', s)
      /\ Len(audit') = IF Len(s) <= AuditLimit THEN Len(s) ELSE AuditLimit
  BY <1>1, <1>2, <1>3, NewestIsEndOf
<1>5. Len(audit') \in Nat \ {0}
  BY <1>1, <1>3, <1>4
<1>6. audit'[Len(audit')] = s[Len(s)]
  <2>1. audit'[Len(audit')] = s[Len(s) - Len(audit') + Len(audit')]
    BY <1>4, <1>5 DEF IsEndOf
  <2>2. QED
    BY <1>3, <1>5, <2>1
<1>7. QED
  BY <1>1, <1>3, <1>4, <1>5, <1>6

LEMMA AuditStep ==
    ASSUME TypeOK, AuditTellsAttempt, [Next]_vars
    PROVE  audit' \in Seq(AuditEntry) /\ AuditTellsAttempt'
<1>1. ASSUME NEW n \in Names, NEW r \in Requests, NEW k \in Presented, Check(n, r, k)
      PROVE  audit' \in Seq(AuditEntry) /\ AuditTellsAttempt'
  <2>1. n \in Names /\ r \in Request /\ audit \in Seq(AuditEntry)
    BY WriteGuardAssumption DEF TypeOK
  <2>2. CASE FailUnknown(n, r)
    BY <2>1, <2>2 DEF FailUnknown, Attempted, AuditTellsAttempt
  <2>3. CASE Accept(n, r, k)
    <3>1. Applied(n, r) \in Int
      BY <2>1, <2>3, AppliedIsNumber, WriteGuardAssumption DEF Accept
    <3>2. Audited(n, r, Applied(n, r), TRUE) /\ Attempted(n, r, "accepted")
      BY <2>3 DEF Accept
    <3>3. QED
      BY <2>1, <3>1, <3>2, AuditedEffect DEF Attempted, AuditTellsAttempt
  <2>4. ASSUME NEW why \in {"unlisted", "not_writable", "unconfirmed", "rate_limited",
                            "out_of_range"},
               Audited(n, r, None, FALSE), Attempted(n, r, why)
        PROVE  audit' \in Seq(AuditEntry) /\ AuditTellsAttempt'
    BY <2>1, <2>4, AuditedEffect DEF Attempted, AuditTellsAttempt
  <2>5. QED
    BY <1>1, <2>2, <2>3, <2>4
       DEF Check, RefuseUnlisted, RefuseReadOnlyTag, RefuseUnconfirmed, RefuseByRate, RefuseByRange
<1>2. ASSUME UNCHANGED <<audit, attempt>>
      PROVE  audit' \in Seq(AuditEntry) /\ AuditTellsAttempt'
  BY <1>2 DEF TypeOK, AuditTellsAttempt
<1>3. QED
  BY <1>1, <1>2 DEF Next, IssueToken, TurnOn, Tick, vars

-----------------------------------------------------------------------------
(* The invariant                                                           *)

LEMMA InitSound == Init => IInv
<1> SUFFICES ASSUME Init PROVE IInv
  OBVIOUS
<1> USE WriteGuardAssumption DEF Init
<1>1. TypeOK
  BY DEF TypeOK
<1>2. RateInv
  BY DEF RateInv, InOrder, Remembers
<1>3. RateHeld /\ ConfirmedOnce /\ NumbersAreClamped
  BY DEF RateHeld, ConfirmedOnce, Confirmations, NumbersAreClamped
<1>4. AuditTellsAttempt
  BY DEF AuditTellsAttempt
<1>5. QED
  BY <1>1, <1>2, <1>3, <1>4 DEF IInv

(* A step that accepts nothing keeps what is said of the accepted writes.  *)
LEMMA NothingAccepted ==
    ASSUME IInv, AcceptsNothing, audit' \in Seq(AuditEntry), AuditTellsAttempt'
    PROVE  IInv'
<1> USE DEF IInv
<1>1. TypeOK'
  BY DEF TypeOK, AcceptsNothing
<1>2. RateInv'
  BY RefusedRate DEF RateInv, AcceptsNothing
<1>3. RateHeld' /\ NumbersAreClamped'
  BY DEF AcceptsNothing, RateHeld, NumbersAreClamped
<1>4. ConfirmedOnce'
  <2>1. /\ written' = written
        /\ \A k \in DOMAIN issued \ tokens :
              k \in DOMAIN issued' \ tokens' /\ issued'[k] = issued[k]
    BY DEF AcceptsNothing, TypeOK
  <2>2. QED
    BY <2>1 DEF ConfirmedOnce, Confirmations
<1>5. QED
  BY <1>1, <1>2, <1>3, <1>4

(* A value the range let through is in it, and no other is nearer.         *)
LEMMA ClampIsNearest ==
    ASSUME NEW t \in Tags \ Bits, NEW r \in Request, ~r.bool, Allowed(t, r)
    PROVE  /\ InRange(t, Applied(t, r))
           /\ \A x \in Lowest[t] .. Highest[t] :
                 Distance(Applied(t, r), r.value) <= Distance(x, r.value)
<1>1. /\ Lowest[t] \in Int /\ Highest[t] \in Int /\ Lowest[t] <= Highest[t] /\ r.value \in Int
  BY WriteGuardAssumption DEF Request
<1>2. Applied(t, r) = Clamped(t, r.value)
  BY DEF Applied
<1>3. QED
  BY <1>1, <1>2 DEF Clamped, InRange, Distance

LEMMA SomethingAccepted ==
    ASSUME IInv, NEW t \in Tags, NEW e, AcceptEffect(t, e),
           audit' \in Seq(AuditEntry), AuditTellsAttempt'
    PROVE  IInv'
<1> USE DEF IInv
<1>1. /\ written \in [Tags -> Seq(AcceptedWrite)] /\ e \in AcceptedWrite
      /\ history \in [Tags -> Seq(Nat)] /\ now \in Nat /\ now' = now
      /\ issued' = issued /\ issued \in Seq(Token) /\ tokens \subseteq DOMAIN issued
  BY DEF TypeOK, AcceptEffect
<1>2. /\ written'[t] = Append(written[t], e)
      /\ history'[t] = Newest(Append(Recent(t), now), HistoryDepth)
      /\ \A u \in Tags \ {t} : written'[u] = written[u] /\ history'[u] = history[u]
      /\ written[t] \in Seq(AcceptedWrite)
  BY <1>1 DEF AcceptEffect
<1>3. /\ Len(written'[t]) = Len(written[t]) + 1 /\ Len(written[t]) \in Nat
      /\ DOMAIN written[t] = 1 .. Len(written[t])
      /\ DOMAIN written'[t] = 1 .. Len(written[t]) + 1
      /\ written'[t][Len(written[t]) + 1] = e
      /\ \A i \in DOMAIN written[t] : written'[t][i] = written[t][i]
      /\ written'[t] \in Seq(AcceptedWrite)
  BY <1>1, <1>2
<1>4. TypeOK'
  <2>1. written' \in [Tags -> Seq(AcceptedWrite)]
    BY <1>1, <1>3 DEF AcceptEffect
  <2>2. history' \in [Tags -> Seq(Nat)]
    <3>1. Recent(t) \in Seq(Nat)
      BY RecentType
    <3>2. Append(Recent(t), now) \in Seq(Nat) /\ HistoryDepth \in Nat
      BY <1>1, <3>1, WriteGuardAssumption
    <3>3. Newest(Append(Recent(t), now), HistoryDepth) \in Seq(Nat)
      BY <3>2, NewestIsEndOf
    <3>4. QED
      BY <1>1, <3>3 DEF AcceptEffect
  <2>3. QED
    BY <1>1, <2>1, <2>2 DEF TypeOK, AcceptEffect
<1>5. RateInv' /\ RateHeld'
  <2>1. ASSUME NEW u \in Tags
        PROVE  /\ InOrder(u)' /\ Remembers(history[u], u)'
               /\ \A i \in DOMAIN written'[u] : i > MaxWrites =>
                     written'[u][i].at > written'[u][i - MaxWrites].at + Window
    <3>1. CASE u = t
      BY <1>1, <1>2, <3>1, AcceptedRate DEF RateInv, RateHeld, AcceptEffect
    <3>2. CASE u # t
      BY <1>1, <1>2, <3>2 DEF RateInv, RateHeld, InOrder, Remembers
    <3>3. QED
      BY <3>1, <3>2
  <2>2. QED
    BY <2>1 DEF RateInv, RateHeld
<1>6. ConfirmedOnce'
  <2>1. /\ tokens' \subseteq tokens
        /\ e.confirmed => /\ e.token \in tokens /\ e.token \notin tokens'
                          /\ e.token \in DOMAIN issued
                          /\ issued[e.token].tag = t
                          /\ issued[e.token].request = e.request
                          /\ e.at <= issued[e.token].expiresAt
    <3>1. e.confirmed => issued[e.token].expiresAt \in Nat
      <4>1. e.confirmed => e.token \in DOMAIN issued
        BY <1>1 DEF AcceptEffect
      <4>2. e.confirmed => issued[e.token] \in Token
        BY <1>1, <4>1
      <4>3. QED
        BY <4>2 DEF Token
    <3>2. QED
      BY <1>1, <3>1 DEF AcceptEffect, Confirms, Stale
  <2>2. \A u \in Tags : \A i \in Confirmations(u)' :
           \/ i \in Confirmations(u) /\ written'[u][i] = written[u][i]
           \/ u = t /\ i = Len(written[t]) + 1 /\ written'[u][i] = e /\ e.confirmed
    BY <1>2, <1>3, SMTT(30) DEF Confirmations
  <2>3. \A u \in Tags : \A i \in Confirmations(u) : written[u][i].token \notin tokens
    BY DEF ConfirmedOnce
  <2>4. ASSUME NEW u \in Tags, NEW i \in Confirmations(u)'
        PROVE  /\ written'[u][i].token \in DOMAIN issued' \ tokens'
               /\ issued'[written'[u][i].token].tag = u
               /\ issued'[written'[u][i].token].request = written'[u][i].request
               /\ written'[u][i].at <= issued'[written'[u][i].token].expiresAt
    BY <1>1, <2>1, <2>2, SMTT(30) DEF ConfirmedOnce
  <2>5. ASSUME NEW u \in Tags, NEW v \in Tags,
               NEW i \in Confirmations(u)', NEW j \in Confirmations(v)',
               written'[u][i].token = written'[v][j].token
        PROVE  u = v /\ i = j
    BY <2>1, <2>2, <2>3, <2>5 DEF ConfirmedOnce
  <2>6. QED
    BY <2>4, <2>5 DEF ConfirmedOnce
<1>7. NumbersAreClamped'
  <2>1. ASSUME NEW u \in Tags \ Bits, NEW i \in DOMAIN written'[u], ~written'[u][i].request.bool
        PROVE  /\ InRange(u, written'[u][i].applied)
               /\ \A x \in Lowest[u] .. Highest[u] :
                     Distance(written'[u][i].applied, written'[u][i].request.value)
                        <= Distance(x, written'[u][i].request.value)
    <3>1. CASE u = t /\ i = Len(written[t]) + 1
      <4>1. written'[u][i] = e
        BY <1>3, <3>1
      <4>2. QED
        BY <2>1, <3>1, <4>1, ClampIsNearest DEF AcceptEffect
    <3>2. CASE ~(u = t /\ i = Len(written[t]) + 1)
      <4>1. i \in DOMAIN written[u] /\ written'[u][i] = written[u][i]
        BY <1>2, <1>3, <3>2, SMTT(30)
      <4>2. QED
        BY <2>1, <4>1 DEF NumbersAreClamped
    <3>3. QED
      BY <3>1, <3>2
  <2>2. QED
    BY <2>1 DEF NumbersAreClamped, InRange
<1>8. QED
  BY <1>4, <1>5, <1>6, <1>7

LEMMA NextSound == IInv /\ [Next]_vars => IInv'
<1> SUFFICES ASSUME IInv, [Next]_vars PROVE IInv'
  OBVIOUS
<1>1. TypeOK /\ AuditTellsAttempt
  BY DEF IInv
<1>2. audit' \in Seq(AuditEntry) /\ AuditTellsAttempt'
  BY <1>1, AuditStep
<1>3. CASE Accepts
  <2>1. PICK t \in Tags, e \in AcceptedWrite : AcceptEffect(t, e)
    BY <1>1, <1>3, AcceptSteps
  <2>2. QED
    BY <1>2, <2>1, SomethingAccepted
<1>4. CASE AcceptsNothing
  BY <1>2, <1>4, NothingAccepted
<1>5. QED
  BY <1>1, <1>3, <1>4, OtherSteps

LEMMA Invariance == Spec => []IInv
  BY InitSound, NextSound, PTL DEF Spec

-----------------------------------------------------------------------------
(* The theorems                                                            *)

(* Every variable of the guard has its type in every reachable state.      *)
THEOREM TypeCorrect == Spec => []TypeOK
<1>1. IInv => TypeOK
  BY DEF IInv
<1>2. QED
  BY Invariance, <1>1, PTL

(* No stretch of time as long as the window ever holds more accepted       *)
(* writes of a tag than the policy allows.                                 *)
THEOREM RateIsHeld == Spec => []RateHeld
<1>1. IInv => RateHeld
  BY DEF IInv
<1>2. QED
  BY Invariance, <1>1, PTL

(* A tag is refused by the rate limit only while its window is full.       *)
THEOREM RefusalHasCause == Spec => []RefusedOnlyWhenFull
<1>1. IInv => RefusedOnlyWhenFull
  <2>1. SUFFICES ASSUME IInv, NEW t \in Tags, ~UnderRate(t)
                 PROVE  /\ Len(written[t]) >= MaxWrites
                        /\ \A i \in DOMAIN written[t] : i > Len(written[t]) - MaxWrites
                              => written[t][i].at >= now - Window
    BY DEF RefusedOnlyWhenFull
  <2> DEFINE w == written[t]
             u == Recent(t)
  <2>2. /\ u \in Seq(Nat) /\ Len(u) <= Len(w) /\ w \in Seq(AcceptedWrite)
        /\ \A j \in 1 .. Len(u) : u[j] = w[Len(w) - Len(u) + j].at
        /\ u # <<>> => u[1] >= now - Window
    BY <2>1, RecentRemembers DEF IInv, RateInv, Remembers, TypeOK
  <2>3. /\ MaxWrites \in Nat /\ now \in Nat /\ Window \in Nat /\ Len(u) >= MaxWrites
    BY <2>1, <2>2, WriteGuardAssumption DEF UnderRate, IInv, TypeOK
  <2>4. \A i, j \in DOMAIN w : i <= j => w[i].at <= w[j].at
    BY <2>1 DEF IInv, RateInv, InOrder
  <2>5. \A i \in DOMAIN w : w[i].at \in Nat
    <3>1. \A i \in DOMAIN w : w[i] \in AcceptedWrite
      BY <2>2
    <3>2. QED
      BY <3>1 DEF AcceptedWrite
  <2> HIDE DEF w, u
  <2>6. Len(w) \in Nat /\ Len(u) \in Nat /\ DOMAIN w = 1 .. Len(w)
    BY <2>2
  <2>7. ASSUME NEW i \in DOMAIN w, i > Len(w) - MaxWrites
        PROVE  w[i].at >= now - Window
    <3>1. Len(u) > 0 /\ Len(w) - Len(u) + 1 \in DOMAIN w /\ Len(w) - Len(u) + 1 <= i
      BY <2>2, <2>3, <2>6, <2>7
    <3>2. u # <<>> /\ u[1] = w[Len(w) - Len(u) + 1].at
      BY <2>2, <2>6, <3>1
    <3>3. QED
      BY <2>2, <2>3, <2>4, <2>5, <3>1, <3>2
  <2>8. QED
    BY <2>2, <2>3, <2>6, <2>7 DEF w
<1>2. QED
  BY Invariance, <1>1, PTL

(* Every accepted write of a critical tag spent a token of its own.        *)
THEOREM ConfirmationIsSingleUse == Spec => []ConfirmedOnce
<1>1. IInv => ConfirmedOnce
  BY DEF IInv
<1>2. QED
  BY Invariance, <1>1, PTL

(* Every accepted number is in the range, as near to what was asked as the *)
(* range allows.                                                           *)
THEOREM RangeIsHeld == Spec => []NumbersAreClamped
<1>1. IInv => NumbersAreClamped
  BY DEF IInv
<1>2. QED
  BY Invariance, <1>1, PTL

(* Every attempt on a known tag is the newest entry of the audit trail.    *)
THEOREM AuditIsComplete == Spec => []AuditTellsAttempt
<1>1. IInv => AuditTellsAttempt
  BY DEF IInv
<1>2. QED
  BY Invariance, <1>1, PTL
=============================================================================
