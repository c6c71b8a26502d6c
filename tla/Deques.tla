------------------------------- MODULE Deques -------------------------------
(***************************************************************************)
(* The two things this system does with collections.deque: a deque with a  *)
(* maxlen forgets its oldest elements, and a window of timestamps is       *)
(* trimmed from its old end.                                               *)
(***************************************************************************)
EXTENDS Integers, Sequences

(* deque(maxlen=n): the newest n elements of s.                            *)
Newest(s, n) == IF Len(s) <= n THEN s ELSE SubSeq(s, Len(s) - n + 1, Len(s))

(* while s and s[0] < horizon: s.popleft()                                 *)
DroppedBefore(s, horizon) ==
    LET first == CHOOSE k \in 1 .. Len(s) + 1 :
                    /\ \A j \in 1 .. k - 1 : s[j] < horizon
                    /\ k <= Len(s) => s[k] >= horizon
    IN  SubSeq(s, first, Len(s))
=============================================================================
