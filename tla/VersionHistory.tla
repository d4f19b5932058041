--------------------------- MODULE VersionHistory ---------------------------
(***************************************************************************)
(* What a campaign's content promises when nothing disturbs its versions:  *)
(* in each slot they are numbered 1, 2, 3, ... as they are made, each new  *)
(* one is the current one instead of all before it, and only versions that *)
(* are not current are deleted.  Numbers are never changed or used again.  *)
(* Once disturbed, nothing is promised.                                    *)
(***************************************************************************)
EXTENDS Naturals, FiniteSets

CONSTANTS
    Contents,
    Slots

VARIABLES
    number,    \* the numbers of the versions in each slot
    current,   \* the versions each slot shows as current
    deleted,   \* the versions deleted since
    disturbed

historyVars == <<number, current, deleted, disturbed>>

versionsMade(s) == DOMAIN number[s]

HistoryInit ==
    /\ number = [s \in Slots |-> [c \in {} |-> 0]]
    /\ current = [s \in Slots |-> {}]
    /\ deleted = {}
    /\ disturbed = FALSE

Make(s, c) ==
    /\ \A t \in Slots : c \notin versionsMade(t)
    /\ number' = [number EXCEPT ![s] =
          [d \in versionsMade(s) \cup {c} |->
              IF d = c THEN Cardinality(versionsMade(s)) + 1 ELSE number[s][d]]]
    /\ current' = [current EXCEPT ![s] = {c}]
    /\ UNCHANGED deleted

Delete(s, c) ==
    /\ c \in versionsMade(s) \ (current[s] \cup deleted)
    /\ deleted' = deleted \cup {c}
    /\ UNCHANGED <<number, current>>

Step ==
    /\ ~disturbed /\ ~disturbed'
    /\ \E s \in Slots, c \in Contents : Make(s, c) \/ Delete(s, c)

\* Anything may have happened.
Disturb == disturbed' = TRUE

HistorySpec == HistoryInit /\ [][Step \/ Disturb]_historyVars

=============================================================================
