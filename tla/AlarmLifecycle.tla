--------------------------- MODULE AlarmLifecycle ---------------------------
(***************************************************************************)
(* What the alarm list promises its operator, with no limits, timers or    *)
(* samples in it: the ISA-18.2 states of alarms.py, who may move an alarm  *)
(* between them, and what is told of each move.  A scan and an operator    *)
(* are different actors with different rights; the promises worth having   *)
(* are that no alarm moves unannounced, and that a scan never takes an     *)
(* unacknowledged latched alarm off the list.                              *)
(***************************************************************************)
CONSTANT Alarms

VARIABLES
    annunciation,   \* the state of each alarm
    told,           \* the kind of the latest event about each alarm
    latched         \* the alarms that must be acknowledged to leave the list

vars == <<annunciation, told, latched>>

States == {"NORMAL", "ACTIVE_UNACK", "ACTIVE_ACK", "RTN_UNACK", "SHELVED"}

Kinds == {"none", "raised", "cleared", "acked", "shelved", "unshelved"}

TypeOK ==
    /\ annunciation \in [Alarms -> States]
    /\ told \in [Alarms -> Kinds]
    /\ latched \subseteq Alarms

Init ==
    /\ annunciation = [a \in Alarms |-> "NORMAL"]
    /\ told = [a \in Alarms |-> "none"]
    /\ latched \subseteq Alarms

-----------------------------------------------------------------------------

(* Where one scan may take an alarm, and what it has to tell then.  A shelf *)
(* that has expired puts the alarm back in service, and the same scan may  *)
(* then raise it.                                                          *)
ScanMoves(a, state, event) ==
    \/ /\ event = "raised"
       /\ annunciation[a] \in {"NORMAL", "RTN_UNACK", "SHELVED"}
       /\ state = "ACTIVE_UNACK"
    \/ /\ event = "cleared" /\ annunciation[a] = "ACTIVE_UNACK"
       /\ state = IF a \in latched THEN "RTN_UNACK" ELSE "NORMAL"
    \/ /\ event = "cleared" /\ annunciation[a] = "ACTIVE_ACK"
       /\ state = "NORMAL"
    \/ /\ event = "unshelved" /\ annunciation[a] = "SHELVED"
       /\ state = "NORMAL"

(* The process moves any number of alarms at once.                         *)
Scan ==
    /\ annunciation' \in [Alarms -> States]
    /\ told' \in [Alarms -> Kinds]
    /\ \A a \in Alarms :
          \/ annunciation'[a] = annunciation[a] /\ told'[a] = told[a]
          \/ ScanMoves(a, annunciation'[a], told'[a])
    /\ UNCHANGED latched

(* Acknowledgement needs no condition: it moves what is unacknowledged and *)
(* leaves the rest.                                                        *)
Acknowledged(s) ==
    CASE s = "ACTIVE_UNACK" -> "ACTIVE_ACK"
      [] s = "RTN_UNACK"    -> "NORMAL"
      [] OTHER              -> s

Acknowledge ==
    \E A \in SUBSET Alarms :
        /\ annunciation' = [a \in Alarms |-> IF a \in A THEN Acknowledged(annunciation[a])
                                                        ELSE annunciation[a]]
        /\ told' = [a \in Alarms |-> IF a \in A THEN "acked" ELSE told[a]]
        /\ UNCHANGED latched

(* An operator silences one alarm, or puts it back in service.             *)
Shelve ==
    \E a \in Alarms :
        /\ \/ /\ annunciation' = [annunciation EXCEPT ![a] = "SHELVED"]
              /\ told' = [told EXCEPT ![a] = "shelved"]
           \/ /\ annunciation' = [annunciation EXCEPT ![a] = "NORMAL"]
              /\ told' = [told EXCEPT ![a] = "unshelved"]
        /\ UNCHANGED latched

Next == Scan \/ Acknowledge \/ Shelve

Spec == Init /\ [][Next]_vars
=============================================================================
