------------------------------ MODULE JobQueue ------------------------------
(***************************************************************************)
(* Background jobs: QueueService.enqueue writes a JobExecution row and     *)
(* publishes a Celery message; a worker delivered the message moves the    *)
(* row through RUNNING to COMPLETED, RETRYING or FAILED; Celery's own      *)
(* autoretry publishes the next message; an administrator may cancel.      *)
(*                                                                         *)
(* The row's life (max_attempts) and the message's life (max_retries, late *)
(* acknowledgement, redelivery) are kept by two systems that never read    *)
(* each other.  Each database session is one atomic step unless the code   *)
(* uses, after another await, something it read earlier: `attempts`, read  *)
(* by mark_started and kept in the session's identity map until            *)
(* mark_failed, or read by mark_failed itself when enqueue reports that it *)
(* could not publish, and the status an administrator's request saw.       *)
(***************************************************************************)
EXTENDS Integers, FiniteSets

CONSTANTS
    Jobs,        \* JobExecution rows that may be created
    Workers,     \* Celery worker processes
    NoJob,       \* the job of an idle worker
    MaxAttempts, \* JobExecution.max_attempts
    MaxRetries,  \* BaseTask.retry_kwargs["max_retries"]
    JobKinds,    \* which sorts of job the callers enqueue
    Cancellable, \* the jobs an administrator asks to cancel
    MaxFaults    \* bound: how many faults the environment may inject

ASSUME JobQueueAssumption ==
    /\ NoJob \notin Jobs
    /\ MaxAttempts \in Nat \ {0}
    /\ MaxRetries \in Nat
    /\ MaxAttempts <= MaxRetries + 1
    /\ JobKinds \subseteq {"registered", "unregistered", "unconsumed"}
    /\ Cancellable \subseteq Jobs
    /\ MaxFaults \in Nat

VARIABLES
    row,       \* the committed job_executions table
    kind,      \* the sort of job each row was created for
    enq,       \* how far each QueueService.enqueue call has got
    loaded,    \* attempts, as the report of a failed publish has read it
    ready,     \* ready[j][r]: messages in the broker, on their r-th retry
    exec,      \* what each worker is executing
    cancelling,\* jobs a cancel request has read as QUEUED and not yet written
    cancelled, \* history: jobs a cancel request has written
    returned,  \* history: jobs one of whose executions returned
    failures,  \* history: mark_failed commits per job
    faulted,   \* history: jobs a fault of the environment has touched
    faults     \* faults injected so far

vars == <<row, kind, enq, loaded, ready, exec, cancelling, cancelled, returned,
          failures, faulted, faults>>

Retries == 0 .. MaxRetries
Live == {"QUEUED", "RUNNING", "RETRYING"}
Status == Live \cup {"ABSENT", "COMPLETED", "FAILED"}

EnqueueState == {"new", "committed", "sent", "unsent", "reporting", "reported",
                 "crashed"}

Row == [status : Status, attempts : Nat, failed_at : BOOLEAN]
NoRow == [status |-> "ABSENT", attempts |-> 0, failed_at |-> FALSE]

Execution == [pc : {"idle", "received", "running", "returned", "raised"},
              job : Jobs \cup {NoJob}, retries : Retries,
              attempts : Nat, held : BOOLEAN]
Idle == [pc |-> "idle", job |-> NoJob, retries |-> 0,
         attempts |-> 0, held |-> FALSE]

(***************************************************************************)
(* JobExecutionRepository: what each method writes.  A name ending in Bug  *)
(* is a mutation of the definition it is named after: a slip the code      *)
(* could have, which the property it is paired with must detect.           *)
(***************************************************************************)
mark_startedBug(j) == [row EXCEPT ![j].status = "RUNNING", ![j].attempts = 0]

mark_failedUncountedBug(j, seen) ==
    LET exhausted == seen >= MaxAttempts
    IN  [row EXCEPT ![j] =
            [status    |-> IF exhausted THEN "FAILED" ELSE "RETRYING",
             attempts  |-> seen,
             failed_at |-> exhausted]]

mark_failedOffByOneBug(j, seen) ==
    LET exhausted == seen + 1 > MaxAttempts
    IN  [row EXCEPT ![j] =
            [status    |-> IF exhausted THEN "FAILED" ELSE "RETRYING",
             attempts  |-> seen + 1,
             failed_at |-> exhausted]]

create_job == [status |-> "QUEUED", attempts |-> 0, failed_at |-> FALSE]

mark_started(j) == [row EXCEPT ![j].status = "RUNNING"]

mark_completed(j) == [row EXCEPT ![j].status = "COMPLETED"]

\* `seen` is the attempts value the session holds, however old it is.
mark_failed(j, seen) ==
    LET exhausted == seen + 1 >= MaxAttempts
    IN  [row EXCEPT ![j] =
            [status    |-> IF exhausted THEN "FAILED" ELSE "RETRYING",
             attempts  |-> seen + 1,
             failed_at |-> exhausted]]

Init ==
    /\ row = [j \in Jobs |-> NoRow]
    /\ kind = [j \in Jobs |-> "none"]
    /\ enq = [j \in Jobs |-> "new"]
    /\ loaded = [j \in Jobs |-> 0]
    /\ ready = [j \in Jobs |-> [r \in Retries |-> 0]]
    /\ exec = [w \in Workers |-> Idle]
    /\ cancelling = {}
    /\ cancelled = {}
    /\ returned = {}
    /\ failures = [j \in Jobs |-> 0]
    /\ faulted = {}
    /\ faults = 0

publish(j, r) == [ready EXCEPT ![j][r] = @ + 1]
consume(j, r) == [ready EXCEPT ![j][r] = @ - 1]

Fault(j) ==
    /\ faults < MaxFaults
    /\ faults' = faults + 1
    /\ faulted' = faulted \cup {j}

NoFault == UNCHANGED <<faults, faulted>>

-----------------------------------------------------------------------------
(***************************************************************************)
(* QueueService.enqueue: commit the row, then publish, then (if the broker *)
(* refused) report the failure on the row.                                 *)
(***************************************************************************)
EnqueueCommit(j) ==
    /\ enq[j] = "new"
    /\ \E k \in JobKinds : kind' = [kind EXCEPT ![j] = k]
    /\ row' = [row EXCEPT ![j] = create_job]
    /\ enq' = [enq EXCEPT ![j] = "committed"]
    /\ NoFault
    /\ UNCHANGED <<loaded, ready, exec, cancelling, cancelled, returned,
                   failures>>

EnqueuePublish(j) ==
    /\ enq[j] = "committed"
    /\ ready' = publish(j, 0)
    /\ enq' = [enq EXCEPT ![j] = "sent"]
    /\ NoFault
    /\ UNCHANGED <<row, kind, loaded, exec, cancelling, cancelled,
                   returned, failures>>

\* send_task raises; a connection lost after the write leaves a message behind.
EnqueuePublishFails(j) ==
    /\ enq[j] = "committed"
    /\ Fault(j)
    /\ ready' \in {ready, publish(j, 0)}
    /\ enq' = [enq EXCEPT ![j] = "unsent"]
    /\ UNCHANGED <<row, kind, loaded, exec, cancelling, cancelled,
                   returned, failures>>

\* mark_failed in a session of its own: the row is read, then the UPDATE sent.
EnqueueReport(j) ==
    /\ enq[j] = "unsent"
    /\ loaded' = [loaded EXCEPT ![j] = row[j].attempts]
    /\ enq' = [enq EXCEPT ![j] = "reporting"]
    /\ NoFault
    /\ UNCHANGED <<row, kind, ready, exec, cancelling, cancelled, returned,
                   failures>>

EnqueueMarkFailed(j) ==
    /\ enq[j] = "reporting"
    /\ row' = mark_failed(j, loaded[j])
    /\ failures' = [failures EXCEPT ![j] = @ + 1]
    /\ enq' = [enq EXCEPT ![j] = "reported"]
    /\ NoFault
    /\ UNCHANGED <<kind, loaded, ready, exec, cancelling, cancelled, returned>>

\* The API process dies between the commit and the publish (or the report).
EnqueueCrash(j) ==
    /\ enq[j] \in {"committed", "unsent", "reporting"}
    /\ Fault(j)
    /\ enq' = [enq EXCEPT ![j] = "crashed"]
    /\ UNCHANGED <<row, kind, loaded, ready, exec, cancelling, cancelled,
                   returned, failures>>

-----------------------------------------------------------------------------
(***************************************************************************)
(* WorkerBase.execute_job, inside a Celery task with late acknowledgement. *)
(***************************************************************************)
\* The message is acknowledged neither now nor later.
ReceiveBug(w, j, r) ==
    /\ exec[w].pc = "idle"
    /\ kind[j] = "registered"
    /\ ready[j][r] > 0
    /\ exec' = [exec EXCEPT ![w] = [pc |-> "received", job |-> j, retries |-> r,
                                    attempts |-> 0, held |-> TRUE]]
    /\ NoFault
    /\ UNCHANGED <<row, kind, enq, loaded, ready, cancelling, cancelled,
                   returned, failures>>

Receive(w, j, r) ==
    /\ exec[w].pc = "idle"
    /\ kind[j] = "registered"
    /\ ready[j][r] > 0
    /\ ready' = consume(j, r)
    /\ exec' = [exec EXCEPT ![w] = [pc |-> "received", job |-> j, retries |-> r,
                                    attempts |-> 0, held |-> TRUE]]
    /\ NoFault
    /\ UNCHANGED <<row, kind, enq, loaded, cancelling, cancelled, returned,
                   failures>>

\* A message on a consumed queue whose task name no imported module registers.
DiscardUnknown(j, r) ==
    /\ kind[j] = "unregistered"
    /\ ready[j][r] > 0
    /\ ready' = consume(j, r)
    /\ NoFault
    /\ UNCHANGED <<row, kind, enq, loaded, exec, cancelling, cancelled,
                   returned, failures>>

Start(w) ==
    LET j == exec[w].job IN
    /\ exec[w].pc = "received"
    /\ row' = mark_started(j)
    /\ exec' = [exec EXCEPT ![w].pc = "running", ![w].attempts = row[j].attempts]
    /\ NoFault
    /\ UNCHANGED <<kind, enq, loaded, ready, cancelling, cancelled,
                   returned, failures>>

Complete(w) ==
    LET j == exec[w].job IN
    /\ exec[w].pc = "running"
    /\ row' = mark_completed(j)
    /\ returned' = returned \cup {j}
    /\ exec' = [exec EXCEPT ![w].pc = "returned"]
    /\ NoFault
    /\ UNCHANGED <<kind, enq, loaded, ready, cancelling, cancelled, failures>>

Fail(w) ==
    LET j == exec[w].job IN
    /\ exec[w].pc = "running"
    /\ row' = mark_failed(j, exec[w].attempts)
    /\ failures' = [failures EXCEPT ![j] = @ + 1]
    /\ exec' = [exec EXCEPT ![w].pc = "raised"]
    /\ NoFault
    /\ UNCHANGED <<kind, enq, loaded, ready, cancelling, cancelled, returned>>

\* A session of execute_job raises: nothing is written, the task raises.
SessionFails(w) ==
    /\ exec[w].pc \in {"received", "running"}
    /\ Fault(exec[w].job)
    /\ exec' = [exec EXCEPT ![w].pc = "raised"]
    /\ UNCHANGED <<row, kind, enq, loaded, ready, cancelling, cancelled,
                   returned, failures>>

\* A finished execution hands its message back instead of acknowledging it.
AcknowledgeBug(w) ==
    /\ exec[w].pc = "returned"
    /\ ready' = publish(exec[w].job, exec[w].retries)
    /\ exec' = [exec EXCEPT ![w] = Idle]
    /\ NoFault
    /\ UNCHANGED <<row, kind, enq, loaded, cancelling, cancelled, returned,
                   failures>>

Acknowledge(w) ==
    /\ exec[w].pc = "returned"
    /\ exec' = [exec EXCEPT ![w] = Idle]
    /\ NoFault
    /\ UNCHANGED <<row, kind, enq, loaded, ready, cancelling, cancelled,
                   returned, failures>>

\* The retry is published while the failed execution keeps its own message.
AutoRetryBug(w) ==
    /\ exec[w].pc = "raised"
    /\ exec[w].retries < MaxRetries
    /\ ready' = publish(exec[w].job, exec[w].retries + 1)
    /\ NoFault
    /\ UNCHANGED <<row, kind, enq, loaded, exec, cancelling, cancelled,
                   returned, failures>>

\* autoretry_for: publish the next message, then acknowledge this one.
AutoRetry(w) ==
    /\ exec[w].pc = "raised"
    /\ exec[w].retries < MaxRetries
    /\ ready' = publish(exec[w].job, exec[w].retries + 1)
    /\ exec' = [exec EXCEPT ![w] = Idle]
    /\ NoFault
    /\ UNCHANGED <<row, kind, enq, loaded, cancelling, cancelled, returned,
                   failures>>

\* The retry cannot be published: Celery rejects the message without requeue.
AutoRetryFails(w) ==
    /\ exec[w].pc = "raised"
    /\ exec[w].retries < MaxRetries
    /\ Fault(exec[w].job)
    /\ exec' = [exec EXCEPT ![w] = Idle]
    /\ UNCHANGED <<row, kind, enq, loaded, ready, cancelling, cancelled,
                   returned, failures>>

GiveUp(w) ==
    /\ exec[w].pc = "raised"
    /\ exec[w].retries = MaxRetries
    /\ exec' = [exec EXCEPT ![w] = Idle]
    /\ NoFault
    /\ UNCHANGED <<row, kind, enq, loaded, ready, cancelling, cancelled,
                   returned, failures>>

-----------------------------------------------------------------------------
(***************************************************************************)
(* What late acknowledgement exposes: the visibility timeout of the Redis  *)
(* broker, the loss of a worker node, the loss of one pool process.        *)
(***************************************************************************)
Redeliver(w) ==
    /\ exec[w].held
    /\ Fault(exec[w].job)
    /\ ready' = publish(exec[w].job, exec[w].retries)
    /\ exec' = [exec EXCEPT ![w].held = FALSE]
    /\ UNCHANGED <<row, kind, enq, loaded, cancelling, cancelled, returned,
                   failures>>

NodeCrash(w) ==
    /\ exec[w].pc # "idle"
    /\ Fault(exec[w].job)
    /\ ready' = IF exec[w].held THEN publish(exec[w].job, exec[w].retries) ELSE ready
    /\ exec' = [exec EXCEPT ![w] = Idle]
    /\ UNCHANGED <<row, kind, enq, loaded, cancelling, cancelled, returned,
                   failures>>

\* task_reject_on_worker_lost is unset: the node acknowledges for its lost child.
ProcessLost(w) ==
    /\ exec[w].pc # "idle"
    /\ Fault(exec[w].job)
    /\ exec' = [exec EXCEPT ![w] = Idle]
    /\ UNCHANGED <<row, kind, enq, loaded, ready, cancelling, cancelled,
                   returned, failures>>

-----------------------------------------------------------------------------
(***************************************************************************)
(* AdminOperationsService.cancel_job: the status is read, then written.    *)
(* The broker's message is not revoked and failed_at is not set.           *)
(***************************************************************************)
CancelRead(j) ==
    /\ j \in Cancellable \ cancelling
    /\ row[j].status = "QUEUED"
    /\ cancelling' = cancelling \cup {j}
    /\ NoFault
    /\ UNCHANGED <<row, kind, enq, loaded, ready, exec, cancelled,
                   returned, failures>>

\* The cancel writes the enum's CANCELLED, which no reader of a row handles.
CancelWriteBug(j) ==
    /\ j \in cancelling
    /\ row' = [row EXCEPT ![j].status = "CANCELLED"]
    /\ cancelling' = cancelling \ {j}
    /\ cancelled' = cancelled \cup {j}
    /\ NoFault
    /\ UNCHANGED <<kind, enq, loaded, ready, exec, returned, failures>>

CancelWrite(j) ==
    /\ j \in cancelling
    /\ row' = [row EXCEPT ![j].status = "FAILED"]
    /\ cancelling' = cancelling \ {j}
    /\ cancelled' = cancelled \cup {j}
    /\ NoFault
    /\ UNCHANGED <<kind, enq, loaded, ready, exec, returned, failures>>

-----------------------------------------------------------------------------
EnqueueStep(j) == \/ EnqueueCommit(j)  \/ EnqueuePublish(j)
                  \/ EnqueueReport(j)  \/ EnqueueMarkFailed(j)
BrokerStep(j) == \E r \in Retries : DiscardUnknown(j, r)
CancelStep(j) == CancelRead(j) \/ CancelWrite(j)
WorkerStep(w) ==
    \/ \E j \in Jobs, r \in Retries : Receive(w, j, r)
    \/ Start(w)
    \/ Complete(w)
    \/ Fail(w)
    \/ Acknowledge(w)
    \/ AutoRetry(w)
    \/ GiveUp(w)
EnqueueFault(j) == EnqueuePublishFails(j) \/ EnqueueCrash(j)
WorkerFault(w) ==
    \/ SessionFails(w)
    \/ AutoRetryFails(w)
    \/ Redeliver(w)
    \/ NodeCrash(w)
    \/ ProcessLost(w)

Next ==
    \/ \E j \in Jobs : EnqueueStep(j)
    \/ \E j \in Jobs : BrokerStep(j)
    \/ \E j \in Jobs : CancelStep(j)
    \/ \E j \in Jobs : EnqueueFault(j)
    \/ \E w \in Workers : WorkerStep(w)
    \/ \E w \in Workers : WorkerFault(w)

Spec == Init /\ [][Next]_vars

\* An enqueue call that has begun runs on, workers consume and execute.  No
\* fairness for a call that has not begun, for cancels or for faults.
FairSpec ==
    /\ Spec
    /\ \A j \in Jobs : WF_vars(EnqueuePublish(j) \/ EnqueueReport(j)
                                 \/ EnqueueMarkFailed(j))
    /\ \A w \in Workers : WF_vars(WorkerStep(w))

-----------------------------------------------------------------------------
TypeOK ==
    /\ row \in [Jobs -> Row]
    /\ kind \in [Jobs -> JobKinds \cup {"none"}]
    /\ enq \in [Jobs -> EnqueueState]
    /\ loaded \in [Jobs -> Nat]
    /\ ready \in [Jobs -> [Retries -> Nat]]
    /\ exec \in [Workers -> Execution]
    /\ cancelling \subseteq Cancellable
    /\ cancelled \subseteq Cancellable
    /\ returned \subseteq Jobs
    /\ failures \in [Jobs -> Nat]
    /\ faulted \subseteq Jobs
    /\ faults \in 0 .. MaxFaults

InBroker(j) == \E r \in Retries : ready[j][r] > 0
OnWorker(j) == \E w \in Workers : exec[w].job = j
Carried(j) == enq[j] = "committed" \/ InBroker(j) \/ OnWorker(j)

\* A job no fault has touched, whose row still promises work, always has a
\* carrier for that work: the enqueue call about to publish, a message, or an
\* execution.  This is where max_attempts and Celery's max_retries must agree.
NoStalledJob ==
    \A j \in Jobs \ faulted :
        kind[j] = "registered" /\ row[j].status \in Live => Carried(j)

\* A job no fault has touched is never carried twice: no two executions of it
\* run at once, and none runs while a message for another is queued.
SingleCarrier ==
    \A j \in Jobs \ faulted :
        /\ \A w1, w2 \in Workers : exec[w1].job = j /\ exec[w2].job = j => w1 = w2
        /\ OnWorker(j) => ~InBroker(j)
        /\ \A r1, r2 \in Retries : ready[j][r1] > 0 /\ ready[j][r2] > 0 => r1 = r2
        /\ \A r \in Retries : ready[j][r] <= 1

\* attempts never counts a failure that did not happen, and counts each one
\* exactly, within Celery's limit, unless a redelivery let two executions, or a
\* publish that only seemed to fail let an execution and the report of the
\* failure, increment the same value.
AttemptsCountFailures ==
    \A j \in Jobs :
        /\ row[j].attempts <= failures[j]
        /\ j \notin faulted => /\ row[j].attempts = failures[j]
                               /\ failures[j] <= MaxRetries + 1

\* Whatever overlaps, the row's status has a cause: COMPLETED only if an
\* execution returned, FAILED only on exhausted attempts or a cancel, and
\* RETRYING only with attempts left.
OutcomeHasCause ==
    \A j \in Jobs :
        /\ row[j].status = "COMPLETED" => j \in returned
        /\ row[j].status = "FAILED" => \/ row[j].attempts >= MaxAttempts
                                       \/ j \in cancelled
        /\ row[j].status = "RETRYING" => row[j].attempts \in 1 .. (MaxAttempts - 1)
        /\ row[j].failed_at <=> row[j].attempts >= MaxAttempts

\* A COMPLETED row changes only after a fault, or under a cancel request that
\* had read it as QUEUED.
CompletedIsFinal ==
    [][\A j \in Jobs :
          row[j].status = "COMPLETED" /\ row'[j].status # "COMPLETED"
              => j \in faulted \cup cancelling]_vars

\* Every registered job whose enqueue call has begun reaches, for good, a row
\* that promises no more work, unless a fault hit it.
JobsSettle ==
    \A j \in Jobs :
        kind[j] = "registered" ~> [](row[j].status \notin Live \/ j \in faulted)

\* With finitely many faults every registered message is in the end consumed:
\* retries and redeliveries do not circulate for ever.
MessagesDrain ==
    <>[](\A j \in Jobs : kind[j] = "registered" => ~InBroker(j) /\ ~OnWorker(j))

\* What the cancel endpoint promises ("Cancel a pending/queued job."): once a
\* cancel has been written the job is not run any more.
CancelledIsNotRun ==
    [][\A j \in cancelled : row'[j].status = "RUNNING" => row[j].status = "RUNNING"]_vars

=============================================================================
