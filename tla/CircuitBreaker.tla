--------------------------- MODULE CircuitBreaker ---------------------------
(***************************************************************************)
(* The in-memory circuit breaker one API process keeps for one provider.   *)
(* CircuitBreaker.call reads `state` and starts the wrapped call without   *)
(* an await in between (Admit, Refuse); the call's end is another step, and *)
(* by then other callers may have opened, half-opened or closed the        *)
(* breaker.  Time is reduced to what `state` asks of it: whether           *)
(* recovery_timeout has passed since the last recorded failure (cooled).   *)
(***************************************************************************)
EXTENDS Integers, FiniteSets

CONSTANTS
    Callers,     \* the calls that may be in progress at once
    Threshold,   \* failure_threshold
    MaxCoolings  \* bound: recovery timeouts that may pass while not CLOSED

ASSUME BreakerAssumption ==
    /\ IsFiniteSet(Callers)
    /\ Threshold \in Nat \ {0}
    /\ MaxCoolings \in Nat

VARIABLES
    state,         \* _state
    failure_count, \* _failure_count
    cooled,        \* time.time() - _last_failure_time >= recovery_timeout
    inflight,      \* the callers inside the wrapped call
    coolings       \* history: recovery timeouts passed since the last close

breakerVars == <<state, failure_count, cooled, inflight, coolings>>

BreakerTypeOK ==
    /\ state \in {"CLOSED", "OPEN", "HALF_OPEN"}
    /\ failure_count \in Nat
    /\ cooled \in BOOLEAN
    /\ inflight \subseteq Callers
    /\ coolings \in 0 .. MaxCoolings

BreakerInit ==
    /\ state = "CLOSED"
    /\ failure_count = 0
    /\ cooled = TRUE
    /\ inflight = {}
    /\ coolings = 0

\* The state property: reading it is what turns OPEN into HALF_OPEN.
read_state == IF state = "OPEN" /\ cooled THEN "HALF_OPEN" ELSE state

Admit(c) ==
    /\ c \notin inflight
    /\ read_state # "OPEN"
    /\ state' = read_state
    /\ inflight' = inflight \cup {c}
    /\ UNCHANGED <<failure_count, cooled, coolings>>

Refuse(c) ==
    /\ c \notin inflight
    /\ read_state = "OPEN"
    /\ UNCHANGED breakerVars

\* _last_failure_time is not set: it keeps the 0.0 it started with.
record_failureBug(c) ==
    /\ c \in inflight
    /\ inflight' = inflight \ {c}
    /\ failure_count' = failure_count + 1
    /\ state' = IF state = "HALF_OPEN" \/ failure_count' >= Threshold
                THEN "OPEN" ELSE state
    /\ UNCHANGED <<cooled, coolings>>

record_failure(c) ==
    /\ c \in inflight
    /\ inflight' = inflight \ {c}
    /\ failure_count' = failure_count + 1
    /\ cooled' = FALSE
    /\ state' = IF state = "HALF_OPEN" \/ failure_count' >= Threshold
                THEN "OPEN" ELSE state
    /\ UNCHANGED coolings

\* Closing the breaker leaves the old failures counted.
record_successBug(c) ==
    /\ c \in inflight
    /\ inflight' = inflight \ {c}
    /\ state' = "CLOSED"
    /\ coolings' = 0
    /\ UNCHANGED <<failure_count, cooled>>

\* Whatever the state has become meanwhile, a success closes the breaker.
record_success(c) ==
    /\ c \in inflight
    /\ inflight' = inflight \ {c}
    /\ failure_count' = 0
    /\ state' = "CLOSED"
    /\ coolings' = 0
    /\ UNCHANGED cooled

Cool ==
    /\ state = "OPEN"
    /\ ~cooled
    /\ coolings < MaxCoolings
    /\ cooled' = TRUE
    /\ coolings' = coolings + 1
    /\ UNCHANGED <<state, failure_count, inflight>>

\* The process restarts: its breakers and the calls it was making are gone.
Forget ==
    /\ state' = "CLOSED"
    /\ failure_count' = 0
    /\ cooled' = TRUE
    /\ inflight' = {}
    /\ coolings' = 0

BreakerNext ==
    \/ \E c \in Callers :
          Admit(c) \/ Refuse(c) \/ record_failure(c) \/ record_success(c)
    \/ Cool
    \/ Forget

BreakerSpec == BreakerInit /\ [][BreakerNext]_breakerVars

\* How much of a dead provider the breaker lets through.  Callers already
\* admitted when it opens are not recalled and every caller may probe a
\* HALF_OPEN breaker at once, so a recovery period costs up to one failure per
\* caller; beyond that and the Threshold - 1 failures a CLOSED breaker
\* tolerates, no call of an unbroken run of failures reaches the provider.
FailuresBounded ==
    failure_count + Cardinality(inflight)
        <= Threshold - 1 + Cardinality(Callers) * (1 + coolings)

\* The breaker is CLOSED exactly while the run of failures is below the
\* threshold, however late the results of overlapping calls come in.
ClosedBelowThreshold == state = "CLOSED" <=> failure_count < Threshold

=============================================================================
