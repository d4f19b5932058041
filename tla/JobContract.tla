---------------------------- MODULE JobContract ----------------------------
(***************************************************************************)
(* What a job_executions row promises its reader, for a job nobody cancels *)
(* and no fault touches: it is run at most MaxAttempts + Extra times, a    *)
(* failed run is counted once and shows RETRYING while attempts are left   *)
(* and FAILED from then on, COMPLETED is final, and every job settles.     *)
(* Extra is how often Celery still runs a job whose row is already FAILED. *)
(***************************************************************************)
EXTENDS Integers

CONSTANTS Jobs, MaxAttempts, Extra

VARIABLES status, attempts

contractVars == <<status, attempts>>

Init ==
    /\ status = [j \in Jobs |-> "ABSENT"]
    /\ attempts = [j \in Jobs |-> 0]

Submit(j) ==
    /\ status[j] = "ABSENT"
    /\ status' = [status EXCEPT ![j] = "QUEUED"]
    /\ UNCHANGED attempts

Run(j) ==
    /\ status[j] \in {"QUEUED", "RETRYING", "FAILED"}
    /\ attempts[j] < MaxAttempts + Extra
    /\ status' = [status EXCEPT ![j] = "RUNNING"]
    /\ UNCHANGED attempts

Succeed(j) ==
    /\ status[j] = "RUNNING"
    /\ status' = [status EXCEPT ![j] = "COMPLETED"]
    /\ UNCHANGED attempts

Fail(j) ==
    /\ status[j] = "RUNNING"
    /\ attempts' = [attempts EXCEPT ![j] = @ + 1]
    /\ status' = [status EXCEPT ![j] =
                    IF attempts'[j] < MaxAttempts THEN "RETRYING" ELSE "FAILED"]

Next == \E j \in Jobs : Submit(j) \/ Run(j) \/ Succeed(j) \/ Fail(j)

ContractSteps == Init /\ [][Next]_contractVars

ContractSpec ==
    /\ ContractSteps
    /\ \A j \in Jobs : WF_contractVars(Run(j)) /\ WF_contractVars(Succeed(j) \/ Fail(j))

=============================================================================
