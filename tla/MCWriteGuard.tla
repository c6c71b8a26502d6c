---------------------------- MODULE MCWriteGuard ----------------------------
(***************************************************************************)
(* A small instance of WriteGuard: a critical setpoint and a critical bit, *)
(* a tag the database marks read-only and a name it does not have.         *)
(***************************************************************************)
EXTENDS WriteGuard

CONSTANTS speed, start, level, ghost

Numeric(x) == [value |-> x, bool |-> FALSE]

MCRequests == {Numeric(4), [value |-> 1, bool |-> TRUE]}

MCNames == {speed, start, level, ghost}
MCTags == {speed, start, level}
MCWritable == {speed, start}
MCBits == {start}

ReadOnly == [readOnly |-> TRUE, allowList |-> {}, confirm |-> {speed}, clamp |-> TRUE]
Open == [readOnly |-> FALSE, allowList |-> MCNames, confirm |-> MCWritable, clamp |-> FALSE]

MCPolicies == {ReadOnly, Open}
MCAllowLists == {{speed, start, ghost}}
MCLowest == [t \in MCTags |-> IF t = start THEN 0 ELSE 2]
MCHighest == [t \in MCTags |-> IF t = start THEN 1 ELSE 3]
=============================================================================
