--------------------------- MODULE JobQueueProofs ---------------------------
(***************************************************************************)
(* For every set of jobs and workers, every max_attempts up to             *)
(* max_retries + 1 and every number of faults: the types, the cause of     *)
(* each outcome, and, for a job no fault has touched, that it has one      *)
(* carrier, that its failures are counted and that it never stalls.        *)
(***************************************************************************)
EXTENDS JobQueue, TLAPS

\* What ties an execution and a request to the row they are about.
Identified ==
    /\ \A j \in Jobs : enq[j] = "new" => /\ kind[j] = "none"
                                       /\ row[j].status = "ABSENT"
                                       /\ j \notin cancelling
    /\ \A j \in Jobs : enq[j] = "reporting" => loaded[j] <= failures[j]
    /\ \A w \in Workers :
        /\ exec[w].pc = "idle" <=> exec[w].job = NoJob
        /\ exec[w].held => exec[w].pc # "idle"
        /\ exec[w].job # NoJob => /\ kind[exec[w].job] = "registered"
                                  /\ exec[w].attempts <= failures[exec[w].job]

Counted == \A j \in Jobs : row[j].attempts <= failures[j]

\* Where an execution of an untouched job stands against its row.
InStep(w, j) ==
    /\ exec[w].pc \in {"received", "running"} => row[j].attempts = exec[w].retries
    /\ exec[w].pc = "running" => exec[w].attempts = row[j].attempts
    /\ exec[w].pc = "returned" => row[j].status \notin Live
    /\ exec[w].pc = "raised" => /\ row[j].attempts = exec[w].retries + 1
                                /\ row[j].status \notin Live \/ row[j].attempts < MaxAttempts

\* The chain of deliveries of an untouched job: one carrier at a time, whose
\* retry number is the number of attempts counted on the row.  Without it
\* nothing says that the last retry finds the row's attempts exhausted.
Chain(j) ==
    /\ enq[j] \in {"new", "committed", "sent"}
    /\ enq[j] \in {"new", "committed"} =>
          row[j].attempts = 0 /\ ~InBroker(j) /\ ~OnWorker(j)
    /\ row[j].attempts = failures[j]
    /\ failures[j] <= MaxRetries + 1
    /\ OnWorker(j) => ~InBroker(j)
    /\ \A r \in Retries : ready[j][r] > 0 => ready[j][r] = 1 /\ row[j].attempts = r
    /\ \A w1, w2 \in Workers : exec[w1].job = j /\ exec[w2].job = j => w1 = w2
    /\ \A w \in Workers : exec[w].job = j => InStep(w, j)
    /\ kind[j] = "registered" /\ row[j].status \in Live => Carried(j)

IInv ==
    /\ TypeOK
    /\ Identified
    /\ Counted
    /\ OutcomeHasCause
    /\ \A j \in Jobs \ faulted : Chain(j)

USE JobQueueAssumption DEF Retries

LEMMA InitIInv == Init => IInv
<1> SUFFICES ASSUME Init PROVE IInv
  OBVIOUS
<1>1. TypeOK
  BY DEF Init, TypeOK, NoRow, Row, Status, Live, Idle, Execution, EnqueueState
<1>2. Identified /\ Counted /\ OutcomeHasCause
  BY DEF Init, Identified, Counted, OutcomeHasCause, NoRow, Idle
<1>3. ASSUME NEW j \in Jobs PROVE Chain(j)
  BY <1>3 DEF Init, Chain, InBroker, OnWorker, InStep, NoRow, Idle, Live
<1> QED BY <1>1, <1>2, <1>3 DEF IInv

-----------------------------------------------------------------------------
(***************************************************************************)
(* Types: what each write returns, then each action.                       *)
(***************************************************************************)
LEMMA WritesTyped ==
    ASSUME row \in [Jobs -> Row], NEW j \in Jobs, NEW n \in Nat
    PROVE  /\ create_job \in Row
           /\ [row EXCEPT ![j] = create_job] \in [Jobs -> Row]
           /\ mark_started(j) \in [Jobs -> Row]
           /\ mark_completed(j) \in [Jobs -> Row]
           /\ mark_failed(j, n) \in [Jobs -> Row]
           /\ [row EXCEPT ![j].status = "FAILED"] \in [Jobs -> Row]
<1>1. create_job \in Row
  BY DEF create_job, Row, Status, Live
<1>2. \A s \in Status : [row EXCEPT ![j].status = s] \in [Jobs -> Row]
  BY DEF Row
<1>3. mark_failed(j, n) \in [Jobs -> Row]
  <2> DEFINE rec == [status    |-> IF n + 1 >= MaxAttempts THEN "FAILED" ELSE "RETRYING",
                     attempts  |-> n + 1, failed_at |-> n + 1 >= MaxAttempts]
  <2>1. rec \in Row
    BY DEF Row, Status, Live
  <2>2. mark_failed(j, n) = [row EXCEPT ![j] = rec]
    BY DEF mark_failed
  <2> QED BY <2>1, <2>2
<1> QED BY <1>1, <1>2, <1>3 DEF mark_started, mark_completed, Status, Live

LEMMA MessagesTyped ==
    ASSUME ready \in [Jobs -> [Retries -> Nat]], NEW j \in Jobs, NEW r \in Retries
    PROVE  /\ publish(j, r) \in [Jobs -> [Retries -> Nat]]
           /\ ready[j][r] > 0 => consume(j, r) \in [Jobs -> [Retries -> Nat]]
BY DEF publish, consume

LEMMA IdleTyped ==
    ASSUME exec \in [Workers -> Execution], NEW w \in Workers
    PROVE  /\ [exec EXCEPT ![w] = Idle] \in [Workers -> Execution]
           /\ [exec EXCEPT ![w].held = FALSE] \in [Workers -> Execution]
<1>1. Idle \in Execution
  BY DEF Idle, Execution
<1>2. [exec EXCEPT ![w].held = FALSE] \in [Workers -> Execution]
  BY DEF Execution
<1> QED BY <1>1, <1>2

LEMMA MovedTyped ==
    ASSUME exec \in [Workers -> Execution], NEW w \in Workers, NEW n \in Nat,
           NEW p \in {"running", "returned", "raised"}
    PROVE  /\ [exec EXCEPT ![w].pc = p] \in [Workers -> Execution]
           /\ [exec EXCEPT ![w].pc = p, ![w].attempts = n] \in [Workers -> Execution]
<1>1. [exec EXCEPT ![w].pc = p] \in [Workers -> Execution]
  BY DEF Execution
<1>2. [exec EXCEPT ![w].pc = p, ![w].attempts = n] \in [Workers -> Execution]
  <2> DEFINE e == [exec[w] EXCEPT !.pc = p, !.attempts = n]
  <2>1. exec[w] \in Execution
    OBVIOUS
  <2>2. e \in Execution
    BY <2>1 DEF Execution
  <2>3. [exec EXCEPT ![w].pc = p, ![w].attempts = n] = [exec EXCEPT ![w] = e]
    OBVIOUS
  <2> HIDE DEF e
  <2> QED BY <2>2, <2>3
<1> QED BY <1>1, <1>2

LEMMA ReceivedTyped ==
    ASSUME exec \in [Workers -> Execution], NEW w \in Workers, NEW j \in Jobs,
           NEW r \in Retries
    PROVE  [exec EXCEPT ![w] = [pc |-> "received", job |-> j, retries |-> r,
                                attempts |-> 0, held |-> TRUE]]
             \in [Workers -> Execution]
<1>1. [pc |-> "received", job |-> j, retries |-> r, attempts |-> 0, held |-> TRUE]
        \in Execution
  BY DEF Execution
<1> QED BY <1>1

LEMMA FaultTyped ==
    ASSUME TypeOK, NEW j \in Jobs, Fault(j)
    PROVE  faulted' \subseteq Jobs /\ faults' \in 0 .. MaxFaults
BY DEF TypeOK, Fault

LEMMA RecordFields ==
    ASSUME TypeOK
    PROVE  /\ \A j \in Jobs : /\ row[j].attempts \in Nat
                              /\ row[j].status \in Status
                              /\ row[j].failed_at \in BOOLEAN
           /\ \A w \in Workers : /\ exec[w].attempts \in Nat
                                 /\ exec[w].retries \in Retries
                                 /\ exec[w].job \in Jobs \cup {NoJob}
                                 /\ exec[w].held \in BOOLEAN
BY DEF TypeOK, Row, Execution

LEMMA TypeStep == TypeOK /\ Identified /\ [Next]_vars => TypeOK'
<1> SUFFICES ASSUME TypeOK, Identified, [Next]_vars PROVE TypeOK'
  OBVIOUS
<1>0. \A w \in Workers : exec[w].pc # "idle" => exec[w].job \in Jobs
  BY RecordFields DEF Identified
<1>1. ASSUME NEW j \in Jobs, EnqueueStep(j) PROVE TypeOK'
  <2>1. CASE EnqueueCommit(j)
    <3>1. row' \in [Jobs -> Row]
      BY <2>1, WritesTyped DEF EnqueueCommit, TypeOK
    <3>2. kind' \in [Jobs -> JobKinds \cup {"none"}]
      BY <2>1 DEF EnqueueCommit, TypeOK
    <3>3. enq' \in [Jobs -> EnqueueState]
      BY <2>1 DEF EnqueueCommit, EnqueueState, TypeOK
    <3> QED BY <2>1, <3>1, <3>2, <3>3 DEF EnqueueCommit, NoFault, TypeOK
  <2>2. CASE EnqueuePublish(j)
    <3>1. ready' \in [Jobs -> [Retries -> Nat]]
      BY <2>2, MessagesTyped, 0 \in Retries DEF EnqueuePublish, TypeOK
    <3>2. enq' \in [Jobs -> EnqueueState]
      BY <2>2 DEF EnqueuePublish, EnqueueState, TypeOK
    <3> QED BY <2>2, <3>1, <3>2 DEF EnqueuePublish, NoFault, TypeOK
  <2>3. CASE EnqueueMarkFailed(j)
    <3>1. row' \in [Jobs -> Row]
      BY <2>3, WritesTyped DEF EnqueueMarkFailed, TypeOK
    <3>2. enq' \in [Jobs -> EnqueueState]
      BY <2>3 DEF EnqueueMarkFailed, EnqueueState, TypeOK
    <3>3. failures' \in [Jobs -> Nat]
      BY <2>3 DEF EnqueueMarkFailed, TypeOK
    <3> QED BY <2>3, <3>1, <3>2, <3>3 DEF EnqueueMarkFailed, NoFault, TypeOK
  <2>4. CASE EnqueueReport(j)
    <3>1. enq' \in [Jobs -> EnqueueState]
      BY <2>4 DEF EnqueueReport, EnqueueState, TypeOK
    <3>2. loaded' \in [Jobs -> Nat]
      BY <2>4, RecordFields DEF EnqueueReport, TypeOK
    <3> QED BY <2>4, <3>1, <3>2 DEF EnqueueReport, NoFault, TypeOK
  <2> QED BY <1>1, <2>1, <2>2, <2>3, <2>4 DEF EnqueueStep
<1>2. ASSUME NEW j \in Jobs, BrokerStep(j) PROVE TypeOK'
  <2>1. PICK r \in Retries : DiscardUnknown(j, r)
    BY <1>2 DEF BrokerStep
  <2>2. ready' \in [Jobs -> [Retries -> Nat]]
    BY <2>1, MessagesTyped DEF DiscardUnknown, TypeOK
  <2> QED BY <2>1, <2>2 DEF DiscardUnknown, NoFault, TypeOK
<1>3. ASSUME NEW j \in Jobs, CancelStep(j) PROVE TypeOK'
  <2>1. CASE CancelRead(j)
    BY <2>1 DEF CancelRead, NoFault, TypeOK
  <2>2. CASE CancelWrite(j)
    <3>1. row' \in [Jobs -> Row]
      BY <2>2, WritesTyped DEF CancelWrite, TypeOK
    <3> QED BY <2>2, <3>1 DEF CancelWrite, NoFault, TypeOK
  <2> QED BY <1>3, <2>1, <2>2 DEF CancelStep
<1>4. ASSUME NEW j \in Jobs, EnqueueFault(j) PROVE TypeOK'
  <2>1. CASE EnqueuePublishFails(j)
    <3>1. ready' \in [Jobs -> [Retries -> Nat]]
      <4>1. 0 \in Retries /\ ready \in [Jobs -> [Retries -> Nat]]
        BY DEF TypeOK
      <4>2. publish(j, 0) \in [Jobs -> [Retries -> Nat]]
        BY <4>1, MessagesTyped
      <4>3. ready' = ready \/ ready' = publish(j, 0)
        BY <2>1 DEF EnqueuePublishFails
      <4> QED BY <4>1, <4>2, <4>3
    <3>2. enq' \in [Jobs -> EnqueueState]
      BY <2>1 DEF EnqueuePublishFails, EnqueueState, TypeOK
    <3>3. faulted' \subseteq Jobs /\ faults' \in 0 .. MaxFaults
      BY <2>1, FaultTyped DEF EnqueuePublishFails, TypeOK
    <3> QED BY <2>1, <3>1, <3>2, <3>3 DEF EnqueuePublishFails, NoFault, TypeOK
  <2>2. CASE EnqueueCrash(j)
    <3>1. enq' \in [Jobs -> EnqueueState]
      BY <2>2 DEF EnqueueCrash, EnqueueState, TypeOK
    <3>2. faulted' \subseteq Jobs /\ faults' \in 0 .. MaxFaults
      BY <2>2, FaultTyped DEF EnqueueCrash, TypeOK
    <3> QED BY <2>2, <3>1, <3>2 DEF EnqueueCrash, NoFault, TypeOK
  <2> QED BY <1>4, <2>1, <2>2 DEF EnqueueFault
<1>5. ASSUME NEW w \in Workers, WorkerStep(w) PROVE TypeOK'
  <2>1. ASSUME NEW j \in Jobs, NEW r \in Retries, Receive(w, j, r) PROVE TypeOK'
    <3>1. ready' \in [Jobs -> [Retries -> Nat]]
      BY <2>1, MessagesTyped DEF Receive, TypeOK
    <3>2. exec' \in [Workers -> Execution]
      BY <2>1, ReceivedTyped DEF Receive, TypeOK
    <3> QED BY <2>1, <3>1, <3>2 DEF Receive, NoFault, TypeOK
  <2>2. CASE Start(w)
    <3>1. row' \in [Jobs -> Row]
      BY <2>2, <1>0, WritesTyped DEF Start, TypeOK
    <3>2. exec' \in [Workers -> Execution]
      BY <2>2, MovedTyped, RecordFields, <1>0 DEF Start, TypeOK
    <3> QED BY <2>2, <3>1, <3>2 DEF Start, NoFault, TypeOK
  <2>3. CASE Complete(w)
    <3>1. row' \in [Jobs -> Row]
      BY <2>3, <1>0, WritesTyped DEF Complete, TypeOK
    <3>2. exec' \in [Workers -> Execution]
      BY <2>3, MovedTyped, <1>0 DEF Complete, TypeOK
    <3>3. returned' \subseteq Jobs
      BY <2>3, <1>0 DEF Complete, TypeOK
    <3> QED BY <2>3, <3>1, <3>2, <3>3 DEF Complete, NoFault, TypeOK
  <2>4. CASE Fail(w)
    <3>1. row' \in [Jobs -> Row]
      BY <2>4, <1>0, WritesTyped, RecordFields DEF Fail, TypeOK
    <3>2. exec' \in [Workers -> Execution]
      BY <2>4, MovedTyped, <1>0 DEF Fail, TypeOK
    <3>3. failures' \in [Jobs -> Nat]
      BY <2>4, <1>0 DEF Fail, TypeOK
    <3> QED BY <2>4, <3>1, <3>2, <3>3 DEF Fail, NoFault, TypeOK
  <2>5. CASE Acknowledge(w)
    <3>1. exec' \in [Workers -> Execution]
      BY <2>5, IdleTyped DEF Acknowledge, TypeOK
    <3> QED BY <2>5, <3>1 DEF Acknowledge, NoFault, TypeOK
  <2>6. CASE GiveUp(w)
    <3>1. exec' \in [Workers -> Execution]
      BY <2>6, IdleTyped DEF GiveUp, TypeOK
    <3> QED BY <2>6, <3>1 DEF GiveUp, NoFault, TypeOK
  <2>7. CASE AutoRetry(w)
    <3>1. exec[w].job \in Jobs /\ exec[w].retries + 1 \in Retries
      BY <2>7, <1>0, RecordFields DEF AutoRetry, TypeOK
    <3>2. ready' \in [Jobs -> [Retries -> Nat]]
      BY <2>7, <3>1, MessagesTyped DEF AutoRetry, TypeOK
    <3>3. exec' \in [Workers -> Execution]
      BY <2>7, <3>1, IdleTyped DEF AutoRetry, TypeOK
    <3> QED BY <2>7, <3>1, <3>2, <3>3 DEF AutoRetry, NoFault, TypeOK
  <2> QED BY <1>5, <2>1, <2>2, <2>3, <2>4, <2>5, <2>6, <2>7 DEF WorkerStep
<1>6. ASSUME NEW w \in Workers, WorkerFault(w) PROVE TypeOK'
  <2>0. exec[w].job \in Jobs
    BY <1>6, <1>0 DEF WorkerFault, SessionFails, AutoRetryFails, Redeliver,
                      NodeCrash, ProcessLost, Identified
  <2>1. CASE SessionFails(w)
    <3>1. exec' \in [Workers -> Execution]
      BY <2>1, <2>0, MovedTyped DEF SessionFails, TypeOK
    <3>2. faulted' \subseteq Jobs /\ faults' \in 0 .. MaxFaults
      BY <2>1, <2>0, FaultTyped DEF SessionFails, TypeOK
    <3> QED BY <2>1, <3>1, <3>2 DEF SessionFails, NoFault, TypeOK
  <2>2. CASE AutoRetryFails(w)
    <3>1. exec' \in [Workers -> Execution]
      BY <2>2, <2>0, IdleTyped DEF AutoRetryFails, TypeOK
    <3>2. faulted' \subseteq Jobs /\ faults' \in 0 .. MaxFaults
      BY <2>2, <2>0, FaultTyped DEF AutoRetryFails, TypeOK
    <3> QED BY <2>2, <3>1, <3>2 DEF AutoRetryFails, NoFault, TypeOK
  <2>3. CASE Redeliver(w)
    <3>1. exec' \in [Workers -> Execution]
      BY <2>3, <2>0, IdleTyped DEF Redeliver, TypeOK
    <3>2. faulted' \subseteq Jobs /\ faults' \in 0 .. MaxFaults
      BY <2>3, <2>0, FaultTyped DEF Redeliver, TypeOK
    <3>3. ready' \in [Jobs -> [Retries -> Nat]]
      BY <2>3, <2>0, MessagesTyped, RecordFields DEF Redeliver, TypeOK
    <3> QED BY <2>3, <3>1, <3>2, <3>3 DEF Redeliver, NoFault, TypeOK
  <2>4. CASE NodeCrash(w)
    <3>1. exec' \in [Workers -> Execution]
      BY <2>4, <2>0, IdleTyped DEF NodeCrash, TypeOK
    <3>2. faulted' \subseteq Jobs /\ faults' \in 0 .. MaxFaults
      BY <2>4, <2>0, FaultTyped DEF NodeCrash, TypeOK
    <3>3. ready' \in [Jobs -> [Retries -> Nat]]
      BY <2>4, <2>0, MessagesTyped, RecordFields DEF NodeCrash, TypeOK
    <3> QED BY <2>4, <3>1, <3>2, <3>3 DEF NodeCrash, NoFault, TypeOK
  <2>5. CASE ProcessLost(w)
    <3>1. exec' \in [Workers -> Execution]
      BY <2>5, <2>0, IdleTyped DEF ProcessLost, TypeOK
    <3>2. faulted' \subseteq Jobs /\ faults' \in 0 .. MaxFaults
      BY <2>5, <2>0, FaultTyped DEF ProcessLost, TypeOK
    <3> QED BY <2>5, <3>1, <3>2 DEF ProcessLost, NoFault, TypeOK
  <2> QED BY <1>6, <2>1, <2>2, <2>3, <2>4, <2>5 DEF WorkerFault
<1>7. CASE UNCHANGED vars
  BY <1>7 DEF vars, TypeOK
<1> QED BY <1>1, <1>2, <1>3, <1>4, <1>5, <1>6, <1>7 DEF Next

-----------------------------------------------------------------------------
(***************************************************************************)
(* What the rows and executions of every job satisfy, faults or not.       *)
(***************************************************************************)
LEMMA ChainFrame ==
    ASSUME TypeOK, NEW i \in Jobs, Chain(i),
           row'[i] = row[i], failures'[i] = failures[i], kind'[i] = kind[i],
           enq'[i] = enq[i], ready'[i] = ready[i],
           \A w \in Workers : exec[w].job = i \/ exec'[w].job = i => exec'[w] = exec[w]
    PROVE  Chain(i)'
<1>1. OnWorker(i)' <=> OnWorker(i)
  BY DEF OnWorker
<1>2. InBroker(i)' <=> InBroker(i)
  BY DEF InBroker
<1>3. \A w \in Workers : exec'[w].job = i => InStep(w, i)'
  BY DEF Chain, InStep
<1>4. \A w1, w2 \in Workers : exec'[w1].job = i /\ exec'[w2].job = i => w1 = w2
  BY DEF Chain
<1> QED BY <1>1, <1>2, <1>3, <1>4 DEF Chain, Carried

LEMMA IdentifiedStep == TypeOK /\ Identified /\ Counted /\ [Next]_vars => Identified'
<1> SUFFICES ASSUME TypeOK, Identified, Counted, [Next]_vars PROVE Identified'
  OBVIOUS
<1> USE DEF Identified
<1>0. /\ exec \in [Workers -> Execution] /\ failures \in [Jobs -> Nat]
      /\ kind \in [Jobs -> JobKinds \cup {"none"}]
      /\ enq \in [Jobs -> EnqueueState] /\ loaded \in [Jobs -> Nat]
      /\ row \in [Jobs -> Row]
  BY DEF TypeOK
<1>1. ASSUME NEW j \in Jobs, EnqueueStep(j) PROVE Identified'
  <2>1. CASE EnqueueCommit(j)
    BY <2>1, <1>0, RecordFields DEF EnqueueCommit, NoFault, create_job, Row
  <2>2. CASE EnqueuePublish(j)
    BY <2>2, <1>0 DEF EnqueuePublish, NoFault
  <2>3. CASE EnqueueMarkFailed(j)
    BY <2>3, <1>0, RecordFields DEF EnqueueMarkFailed, NoFault, mark_failed
  <2>4. CASE EnqueueReport(j)
    BY <2>4, <1>0, RecordFields DEF EnqueueReport, NoFault, Counted
  <2> QED BY <1>1, <2>1, <2>2, <2>3, <2>4 DEF EnqueueStep
<1>2. ASSUME NEW j \in Jobs, BrokerStep(j) PROVE Identified'
  BY <1>2 DEF BrokerStep, DiscardUnknown, NoFault
<1>3. ASSUME NEW j \in Jobs, CancelStep(j) PROVE Identified'
  <2>1. CASE CancelRead(j)
    BY <2>1, <1>0 DEF CancelRead, NoFault
  <2>2. CASE CancelWrite(j)
    BY <2>2, <1>0 DEF CancelWrite, NoFault, Row
  <2> QED BY <1>3, <2>1, <2>2 DEF CancelStep
<1>4. ASSUME NEW j \in Jobs, EnqueueFault(j) PROVE Identified'
  BY <1>4, <1>0 DEF EnqueueFault, EnqueuePublishFails, EnqueueCrash
<1>5. ASSUME NEW w \in Workers, WorkerStep(w) PROVE Identified'
  <2>1. ASSUME NEW j \in Jobs, NEW r \in Retries, Receive(w, j, r) PROVE Identified'
    BY <2>1, <1>0 DEF Receive, NoFault
  <2>2. CASE Start(w)
    BY <2>2, <1>0, RecordFields DEF Start, NoFault, mark_started, Row, Counted
  <2>3. CASE Complete(w)
    BY <2>3, <1>0 DEF Complete, NoFault, mark_completed, Row
  <2>4. CASE Fail(w)
    BY <2>4, <1>0, RecordFields DEF Fail, NoFault, mark_failed, Row
  <2>5. CASE Acknowledge(w) \/ GiveUp(w) \/ AutoRetry(w)
    BY <2>5, <1>0 DEF Acknowledge, GiveUp, AutoRetry, Idle, NoFault
  <2> QED BY <1>5, <2>1, <2>2, <2>3, <2>4, <2>5 DEF WorkerStep
<1>6. ASSUME NEW w \in Workers, WorkerFault(w) PROVE Identified'
  <2>1. CASE SessionFails(w)
    BY <2>1, <1>0 DEF SessionFails
  <2>2. CASE AutoRetryFails(w) \/ ProcessLost(w) \/ NodeCrash(w)
    BY <2>2, <1>0 DEF AutoRetryFails, ProcessLost, NodeCrash, Idle
  <2>3. CASE Redeliver(w)
    BY <2>3, <1>0 DEF Redeliver
  <2> QED BY <1>6, <2>1, <2>2, <2>3 DEF WorkerFault
<1>7. CASE UNCHANGED vars
  BY <1>7 DEF vars
<1> QED BY <1>1, <1>2, <1>3, <1>4, <1>5, <1>6, <1>7 DEF Next

\* A step that writes no row and forgets no cause.
LEMMA CausesFrame ==
    ASSUME Counted, OutcomeHasCause,
           UNCHANGED <<row, failures>>,
           returned \subseteq returned', cancelled \subseteq cancelled'
    PROVE  Counted' /\ OutcomeHasCause'
BY DEF Counted, OutcomeHasCause

LEMMA MarkFailedCauses ==
    ASSUME TypeOK, Counted, OutcomeHasCause, NEW j \in Jobs, NEW n \in Nat,
           n <= failures[j], row' = mark_failed(j, n),
           failures' = [failures EXCEPT ![j] = @ + 1],
           UNCHANGED <<returned, cancelled>>
    PROVE  Counted' /\ OutcomeHasCause'
<1>1. /\ row'[j].attempts = n + 1
      /\ row'[j].failed_at <=> n + 1 >= MaxAttempts
      /\ row'[j].status = IF n + 1 >= MaxAttempts THEN "FAILED" ELSE "RETRYING"
      /\ \A i \in Jobs \ {j} : row'[i] = row[i]
  BY DEF mark_failed, TypeOK, Row
<1>2. /\ failures'[j] = failures[j] + 1
      /\ \A i \in Jobs \ {j} : failures'[i] = failures[i]
  BY DEF TypeOK
<1>3. failures[j] \in Nat
  BY DEF TypeOK
<1> QED BY <1>1, <1>2, <1>3 DEF Counted, OutcomeHasCause

LEMMA CausesStep ==
    TypeOK /\ Identified /\ Counted /\ OutcomeHasCause /\ [Next]_vars
        => Counted' /\ OutcomeHasCause'
<1> SUFFICES ASSUME TypeOK, Identified, Counted, OutcomeHasCause, [Next]_vars
             PROVE  Counted' /\ OutcomeHasCause'
  OBVIOUS
<1>0. \A w \in Workers : exec[w].pc # "idle" => exec[w].job \in Jobs
  BY RecordFields DEF Identified
<1>1. ASSUME NEW j \in Jobs, EnqueueStep(j) PROVE Counted' /\ OutcomeHasCause'
  <2>1. CASE EnqueueCommit(j)
    <3>1. /\ row'[j] = create_job /\ \A i \in Jobs : i # j => row'[i] = row[i]
          /\ UNCHANGED <<failures, returned, cancelled>>
      BY <2>1 DEF EnqueueCommit, TypeOK
    <3>2. failures[j] \in Nat /\ create_job.attempts = 0 /\ create_job.status = "QUEUED"
          /\ create_job.failed_at = FALSE
      BY DEF TypeOK, create_job
    <3> QED BY <3>1, <3>2 DEF Counted, OutcomeHasCause
  <2>2. CASE EnqueuePublish(j)
    BY <2>2, CausesFrame DEF EnqueuePublish
  <2>3. CASE EnqueueMarkFailed(j)
    <3>1. loaded[j] \in Nat /\ loaded[j] <= failures[j]
      BY <2>3 DEF EnqueueMarkFailed, Identified, TypeOK
    <3> QED BY <2>3, <3>1, MarkFailedCauses DEF EnqueueMarkFailed
  <2>4. CASE EnqueueReport(j)
    BY <2>4, CausesFrame DEF EnqueueReport
  <2> QED BY <1>1, <2>1, <2>2, <2>3, <2>4 DEF EnqueueStep
<1>2. ASSUME NEW j \in Jobs, BrokerStep(j) PROVE Counted' /\ OutcomeHasCause'
  BY <1>2, CausesFrame DEF BrokerStep, DiscardUnknown
<1>3. ASSUME NEW j \in Jobs, CancelStep(j) PROVE Counted' /\ OutcomeHasCause'
  <2>1. CASE CancelRead(j)
    BY <2>1, CausesFrame DEF CancelRead
  <2>2. CASE CancelWrite(j)
    BY <2>2, RecordFields DEF CancelWrite, TypeOK, Row, Counted, OutcomeHasCause
  <2> QED BY <1>3, <2>1, <2>2 DEF CancelStep
<1>4. ASSUME NEW j \in Jobs, EnqueueFault(j) PROVE Counted' /\ OutcomeHasCause'
  BY <1>4, CausesFrame DEF EnqueueFault, EnqueuePublishFails, EnqueueCrash
<1>5. ASSUME NEW w \in Workers, WorkerStep(w) PROVE Counted' /\ OutcomeHasCause'
  <2>1. ASSUME NEW j \in Jobs, NEW r \in Retries, Receive(w, j, r)
        PROVE  Counted' /\ OutcomeHasCause'
    BY <2>1, CausesFrame DEF Receive
  <2>2. CASE Start(w)
    BY <2>2, <1>0, RecordFields
    DEF Start, mark_started, TypeOK, Row, Counted, OutcomeHasCause
  <2>3. CASE Complete(w)
    BY <2>3, <1>0, RecordFields
    DEF Complete, mark_completed, TypeOK, Row, Counted, OutcomeHasCause
  <2>4. CASE Fail(w)
    <3>1. /\ exec[w].job \in Jobs /\ exec[w].attempts \in Nat
          /\ exec[w].attempts <= failures[exec[w].job]
      BY <2>4, <1>0, RecordFields DEF Fail, Identified
    <3> QED BY <2>4, <3>1, MarkFailedCauses DEF Fail
  <2>5. CASE Acknowledge(w) \/ GiveUp(w) \/ AutoRetry(w)
    BY <2>5, CausesFrame DEF Acknowledge, GiveUp, AutoRetry
  <2> QED BY <1>5, <2>1, <2>2, <2>3, <2>4, <2>5 DEF WorkerStep
<1>6. ASSUME NEW w \in Workers, WorkerFault(w) PROVE Counted' /\ OutcomeHasCause'
  BY <1>6, CausesFrame
  DEF WorkerFault, SessionFails, AutoRetryFails, Redeliver, NodeCrash, ProcessLost
<1>7. CASE UNCHANGED vars
  BY <1>7, CausesFrame DEF vars
<1> QED BY <1>1, <1>2, <1>3, <1>4, <1>5, <1>6, <1>7 DEF Next

-----------------------------------------------------------------------------
(***************************************************************************)
(* The chain of deliveries of an untouched job i, one lemma per actor.     *)
(***************************************************************************)
Before(i) == TypeOK /\ Identified /\ OutcomeHasCause /\ Chain(i)

LEMMA EnqueueKeepsChain ==
    ASSUME NEW i \in Jobs, Before(i), NEW j \in Jobs, EnqueueStep(j)
    PROVE  Chain(i)'
<1> USE DEF Before
<1>1. CASE j # i
  <2>1. /\ row'[i] = row[i] /\ failures'[i] = failures[i] /\ kind'[i] = kind[i]
        /\ enq'[i] = enq[i] /\ ready'[i] = ready[i] /\ exec' = exec
    BY <1>1 DEF EnqueueStep, EnqueueCommit, EnqueuePublish, EnqueueReport,
                EnqueueMarkFailed, mark_failed, publish, TypeOK
  <2> QED BY <2>1, ChainFrame
<1>2. CASE j = i /\ EnqueueCommit(i)
  <2>1. /\ row'[i] = create_job /\ enq'[i] = "committed"
        /\ UNCHANGED <<ready, exec, failures>>
    BY <1>2 DEF EnqueueCommit, TypeOK
  <2>2. ~InBroker(i)' /\ ~OnWorker(i)'
    BY <1>2, <2>1 DEF EnqueueCommit, Chain, InBroker, OnWorker
  <2> QED BY <1>2, <2>1, <2>2
          DEF EnqueueCommit, Chain, create_job, Carried, InBroker, OnWorker, TypeOK
<1>3. CASE j = i /\ EnqueuePublish(i)
  <2>1. /\ UNCHANGED <<row, exec, failures, kind>> /\ enq'[i] = "sent"
        /\ ready'[i] = [ready[i] EXCEPT ![0] = @ + 1]
    BY <1>3 DEF EnqueuePublish, publish, TypeOK
  <2>2. row[i].attempts = 0 /\ \A r \in Retries : ready[i][r] = 0
    BY <1>3 DEF EnqueuePublish, Chain, InBroker, TypeOK
  <2>3. ready'[i][0] = 1 /\ \A r \in Retries : r # 0 => ready'[i][r] = 0
    <3>1. DOMAIN ready[i] = Retries /\ 0 \in Retries
      BY DEF TypeOK
    <3> QED BY <2>1, <2>2, <3>1
  <2>4. InBroker(i)' /\ ~OnWorker(i)'
    BY <1>3, <2>1, <2>3 DEF EnqueuePublish, Chain, InBroker, OnWorker
  <2> QED BY <2>1, <2>2, <2>3, <2>4 DEF Chain, Carried, OnWorker
<1>4. CASE j = i /\ (EnqueueReport(i) \/ EnqueueMarkFailed(i))
  BY <1>4 DEF EnqueueReport, EnqueueMarkFailed, Chain
<1> QED BY <1>1, <1>2, <1>3, <1>4 DEF EnqueueStep

LEMMA BrokerKeepsChain ==
    ASSUME NEW i \in Jobs, Before(i), NEW j \in Jobs, BrokerStep(j)
    PROVE  Chain(i)'
<1> USE DEF Before
<1>0. PICK r \in Retries : DiscardUnknown(j, r)
  BY DEF BrokerStep
<1>1. UNCHANGED <<row, kind, enq, exec, failures>>
  BY <1>0 DEF DiscardUnknown
<1>2. CASE j # i
  <2>1. ready'[i] = ready[i]
    BY <1>0, <1>2 DEF DiscardUnknown, consume, TypeOK
  <2> QED BY <1>1, <2>1, ChainFrame
<1>3. CASE j = i
  <2>1. kind[i] = "unregistered" /\ ready'[i] = [ready[i] EXCEPT ![r] = @ - 1]
    BY <1>0, <1>3 DEF DiscardUnknown, consume, TypeOK
  <2>2. ready[i][r] > 0 /\ \A q \in Retries : ready[i][q] \in Nat
    BY <1>0, <1>3 DEF DiscardUnknown, TypeOK
  <2>3. \A q \in Retries : ready'[i][q] > 0 => ready[i][q] > 0 /\ ready'[i][q] = ready[i][q]
    BY <2>1, <2>2 DEF TypeOK, Chain
  <2>4. InBroker(i)' => InBroker(i)
    BY <2>3 DEF InBroker
  <2>5. ~OnWorker(i) /\ ~OnWorker(i)'
    BY <1>1, <2>1, <2>2 DEF Chain, OnWorker, InBroker
  <2> QED BY <1>1, <2>1, <2>3, <2>4, <2>5 DEF Chain, OnWorker
<1> QED BY <1>2, <1>3

LEMMA CancelKeepsChain ==
    ASSUME NEW i \in Jobs, Before(i), NEW j \in Jobs, CancelStep(j)
    PROVE  Chain(i)'
<1> USE DEF Before
<1>1. UNCHANGED <<kind, enq, ready, exec, failures>>
  BY DEF CancelStep, CancelRead, CancelWrite
<1>2. CASE row'[i] = row[i]
  BY <1>1, <1>2, ChainFrame
<1>3. CASE row'[i] # row[i]
  <2>1. row'[i] = [row[i] EXCEPT !.status = "FAILED"]
    BY <1>3 DEF CancelStep, CancelRead, CancelWrite, TypeOK
  <2>2. row'[i].status = "FAILED" /\ row'[i].attempts = row[i].attempts
    BY <2>1 DEF TypeOK, Row
  <2>3. \A w \in Workers : InStep(w, i) => InStep(w, i)'
    BY <1>1, <2>2 DEF InStep, Live
  <2> QED BY <1>1, <2>2, <2>3 DEF Chain, InBroker, OnWorker, Live
<1> QED BY <1>2, <1>3

\* A worker's step touches the job it executes and the one it receives.
LEMMA OthersKeepChain ==
    ASSUME NEW i \in Jobs, Before(i), NEW w \in Workers, WorkerStep(w),
           exec[w].job # i, exec'[w].job # i
    PROVE  Chain(i)'
<1> USE DEF Before
<1>1. UNCHANGED <<kind, enq>> /\ \A v \in Workers \ {w} : exec'[v] = exec[v]
  BY DEF WorkerStep, Receive, Start, Complete, Fail, Acknowledge, AutoRetry, GiveUp, TypeOK
<1>2. row'[i] = row[i] /\ failures'[i] = failures[i]
  BY DEF WorkerStep, Receive, Start, Complete, Fail, Acknowledge, AutoRetry, GiveUp,
         mark_started, mark_completed, mark_failed, TypeOK
<1>3. ready'[i] = ready[i]
  <2>1. ASSUME NEW j \in Jobs, NEW r \in Retries, Receive(w, j, r) PROVE ready'[i] = ready[i]
    <3>1. exec'[w].job = j
      BY <2>1 DEF Receive, TypeOK
    <3> QED BY <2>1, <3>1 DEF Receive, consume, TypeOK
  <2> QED BY <2>1 DEF WorkerStep, Start, Complete, Fail, Acknowledge, AutoRetry, GiveUp,
                      publish, TypeOK
<1> QED BY <1>1, <1>2, <1>3, ChainFrame

LEMMA ReceiveKeepsChain ==
    ASSUME NEW i \in Jobs, Before(i), NEW w \in Workers, NEW r \in Retries,
           Receive(w, i, r)
    PROVE  Chain(i)'
<1> USE DEF Before
<1>1. /\ UNCHANGED <<row, kind, enq, failures>>
      /\ ready[i][r] = 1 /\ row[i].attempts = r
      /\ ~OnWorker(i)
  BY DEF Receive, Chain, InBroker
<1>2. /\ exec'[w] = [pc |-> "received", job |-> i, retries |-> r,
                     attempts |-> 0, held |-> TRUE]
      /\ \A v \in Workers \ {w} : exec'[v] = exec[v]
  BY DEF Receive, TypeOK
<1>3. ready'[i] = [ready[i] EXCEPT ![r] = 0]
  BY <1>1 DEF Receive, consume, TypeOK
<1>4. \A q \in Retries : ready'[i][q] = 0
  <2>1. \A q \in Retries : ready[i][q] \in Nat /\ (ready[i][q] > 0 => row[i].attempts = q)
    BY DEF Chain, TypeOK
  <2>2. DOMAIN ready[i] = Retries
    BY DEF TypeOK
  <2> QED BY <1>1, <1>3, <2>1, <2>2
<1>5. ~InBroker(i)' /\ OnWorker(i)'
  BY <1>2, <1>4 DEF InBroker, OnWorker
<1>6. \A v \in Workers : exec'[v].job = i => v = w
  BY <1>1, <1>2 DEF OnWorker
<1>7. InStep(w, i)'
  BY <1>1, <1>2 DEF InStep
<1>8. enq[i] = "sent"
  BY DEF Receive, Chain, InBroker
<1> QED BY <1>1, <1>4, <1>5, <1>6, <1>7, <1>8 DEF Chain, Carried

\* Start, Complete and Fail move the execution of i along and keep its message.
LEMMA ExecuteKeepsChain ==
    ASSUME NEW i \in Jobs, Before(i), NEW w \in Workers, exec[w].job = i,
           Start(w) \/ Complete(w) \/ Fail(w)
    PROVE  Chain(i)'
<1> USE DEF Before
<1>1. /\ UNCHANGED <<kind, enq, ready>>
      /\ \A v \in Workers \ {w} : exec'[v] = exec[v]
      /\ exec'[w].job = i /\ exec'[w].retries = exec[w].retries
  BY DEF Start, Complete, Fail, TypeOK, Execution
<1>2. \A v \in Workers : exec'[v].job = exec[v].job
  BY <1>1
<1>3. (InBroker(i)' <=> InBroker(i)) /\ (OnWorker(i)' <=> OnWorker(i)) /\ OnWorker(i)
  BY <1>1, <1>2 DEF InBroker, OnWorker
<1>4. ~InBroker(i) /\ InStep(w, i) /\ exec[w].retries \in Retries
      /\ row[i].attempts \in Nat /\ failures[i] = row[i].attempts
  BY <1>3, RecordFields DEF Chain
<1>5. /\ row'[i].attempts = failures'[i] /\ failures'[i] <= MaxRetries + 1
      /\ InStep(w, i)'
  <2>1. CASE Start(w)
    <3>1. /\ row'[i].attempts = row[i].attempts /\ failures' = failures
          /\ exec'[w].pc = "running" /\ exec'[w].attempts = row[i].attempts
      BY <2>1 DEF Start, mark_started, TypeOK, Row, Execution
    <3>2. row[i].attempts = exec[w].retries
      BY <2>1, <1>4 DEF Start, InStep
    <3> QED BY <1>1, <1>4, <3>1, <3>2 DEF InStep
  <2>2. CASE Complete(w)
    <3>1. /\ row'[i].attempts = row[i].attempts /\ failures' = failures
          /\ exec'[w].pc = "returned" /\ row'[i].status = "COMPLETED"
      BY <2>2 DEF Complete, mark_completed, TypeOK, Row, Execution
    <3>2. row[i].attempts = exec[w].retries
      BY <2>2, <1>4 DEF Complete, InStep
    <3> QED BY <1>1, <1>4, <3>1, <3>2 DEF InStep, Live
  <2>3. CASE Fail(w)
    <3>1. /\ row'[i].attempts = exec[w].attempts + 1
          /\ row'[i].status = IF exec[w].attempts + 1 >= MaxAttempts
                              THEN "FAILED" ELSE "RETRYING"
          /\ failures'[i] = failures[i] + 1 /\ exec'[w].pc = "raised"
      BY <2>3 DEF Fail, mark_failed, TypeOK, Row, Execution
    <3>2. row[i].attempts = exec[w].retries /\ exec[w].attempts = row[i].attempts
      BY <2>3, <1>4 DEF Fail, InStep
    <3> QED BY <1>1, <1>4, <3>1, <3>2 DEF InStep, Live
  <2> QED BY <2>1, <2>2, <2>3
<1>6. \A r \in Retries : ready'[i][r] <= 0
  BY <1>1, <1>4 DEF InBroker, TypeOK
<1>7. enq[i] = "sent"
  BY <1>3 DEF Chain
<1>8. \A v \in Workers : exec'[v].job = i => v = w
  BY <1>2, <1>1 DEF Chain
<1> QED BY <1>1, <1>2, <1>3, <1>4, <1>5, <1>6, <1>7, <1>8 DEF Chain, Carried

\* An execution that ends leaves either its successor or a settled row.
LEMMA EndKeepsChain ==
    ASSUME NEW i \in Jobs, Before(i), NEW w \in Workers, exec[w].job = i,
           Acknowledge(w) \/ AutoRetry(w) \/ GiveUp(w)
    PROVE  Chain(i)'
<1> USE DEF Before
<1>1. /\ UNCHANGED <<row, kind, enq, failures>>
      /\ \A v \in Workers \ {w} : exec'[v] = exec[v]
      /\ exec'[w] = Idle
  BY DEF Acknowledge, AutoRetry, GiveUp, TypeOK
<1>2. ~OnWorker(i)'
  BY <1>1 DEF OnWorker, Chain, Idle
<1>3. OnWorker(i) /\ ~InBroker(i) /\ InStep(w, i) /\ enq[i] = "sent"
      /\ \A r \in Retries : ready[i][r] = 0
  BY DEF OnWorker, Chain, InBroker, TypeOK
<1>4. CASE AutoRetry(w)
  <2>1. exec[w].retries + 1 \in Retries /\ row[i].attempts = exec[w].retries + 1
    BY <1>3, <1>4, RecordFields DEF AutoRetry, InStep
  <2>2. ready'[i] = [ready[i] EXCEPT ![exec[w].retries + 1] = @ + 1]
    BY <1>4 DEF AutoRetry, publish, TypeOK
  <2>3. \A r \in Retries : ready'[i][r] = IF r = exec[w].retries + 1 THEN 1 ELSE 0
    BY <1>3, <2>1, <2>2 DEF TypeOK
  <2>4. InBroker(i)'
    BY <2>1, <2>3 DEF InBroker
  <2> QED BY <1>1, <1>2, <1>3, <2>1, <2>3, <2>4 DEF Chain, Carried, OnWorker
<1>5. CASE Acknowledge(w) \/ GiveUp(w)
  <2>1. row[i].status \notin Live
    BY <1>3, <1>5, RecordFields DEF Acknowledge, GiveUp, InStep
  <2>2. ready' = ready
    BY <1>5 DEF Acknowledge, GiveUp
  <2> QED BY <1>1, <1>2, <1>3, <2>1, <2>2 DEF Chain, InBroker, OnWorker
<1> QED BY <1>4, <1>5

LEMMA WorkerKeepsChain ==
    ASSUME NEW i \in Jobs, Before(i), NEW w \in Workers, WorkerStep(w)
    PROVE  Chain(i)'
<1> USE DEF Before
<1>1. CASE \E j \in Jobs, r \in Retries : Receive(w, j, r)
  <2>1. PICK j \in Jobs, r \in Retries : Receive(w, j, r)
    BY <1>1
  <2>2. exec[w].job # i /\ exec'[w].job = j
    BY <2>1 DEF Receive, Identified, TypeOK
  <2> QED BY <2>1, <2>2, OthersKeepChain, ReceiveKeepsChain
<1>2. CASE Start(w) \/ Complete(w) \/ Fail(w)
  <2>1. exec'[w].job = exec[w].job
    BY <1>2 DEF Start, Complete, Fail, TypeOK, Execution
  <2> QED BY <1>2, <2>1, OthersKeepChain, ExecuteKeepsChain
<1>3. CASE Acknowledge(w) \/ AutoRetry(w) \/ GiveUp(w)
  <2>1. exec'[w].job = NoJob
    BY <1>3 DEF Acknowledge, AutoRetry, GiveUp, Idle, TypeOK
  <2> QED BY <1>3, <2>1, OthersKeepChain, EndKeepsChain
<1> QED BY <1>1, <1>2, <1>3 DEF WorkerStep

LEMMA FaultKeepsChain ==
    ASSUME NEW i \in Jobs, Before(i), i \notin faulted',
           \/ \E j \in Jobs : EnqueueFault(j)
           \/ \E w \in Workers : WorkerFault(w)
    PROVE  Chain(i)'
<1> USE DEF Before
<1>1. ASSUME NEW j \in Jobs, EnqueueFault(j) PROVE Chain(i)'
  <2>1. j # i
    BY <1>1 DEF EnqueueFault, EnqueuePublishFails, EnqueueCrash, Fault
  <2>2. /\ UNCHANGED <<row, kind, exec, failures>>
        /\ enq'[i] = enq[i] /\ ready'[i] = ready[i]
    BY <1>1, <2>1 DEF EnqueueFault, EnqueuePublishFails, EnqueueCrash, publish, TypeOK
  <2> QED BY <2>2, ChainFrame
<1>2. ASSUME NEW w \in Workers, WorkerFault(w) PROVE Chain(i)'
  <2>1. exec[w].job # i
    BY <1>2 DEF WorkerFault, SessionFails, AutoRetryFails, Redeliver, NodeCrash,
                ProcessLost, Fault
  <2>2. UNCHANGED <<row, kind, enq, failures>> /\ \A v \in Workers \ {w} : exec'[v] = exec[v]
    BY <1>2 DEF WorkerFault, SessionFails, AutoRetryFails, Redeliver, NodeCrash,
                ProcessLost, TypeOK
  <2>3. ready'[i] = ready[i]
    BY <1>2, <2>1 DEF WorkerFault, SessionFails, AutoRetryFails, Redeliver, NodeCrash,
                      ProcessLost, publish, TypeOK
  <2>4. exec'[w].job # i
    <3>1. CASE SessionFails(w) \/ Redeliver(w)
      BY <2>1, <3>1 DEF SessionFails, Redeliver, TypeOK, Execution
    <3>2. CASE AutoRetryFails(w) \/ NodeCrash(w) \/ ProcessLost(w)
      BY <3>2 DEF AutoRetryFails, NodeCrash, ProcessLost, Idle, TypeOK
    <3> QED BY <1>2, <3>1, <3>2 DEF WorkerFault
  <2> QED BY <2>1, <2>2, <2>3, <2>4, ChainFrame
<1> QED BY <1>1, <1>2

LEMMA ChainStep == IInv /\ [Next]_vars => (\A i \in Jobs \ faulted : Chain(i))'
<1> SUFFICES ASSUME IInv, [Next]_vars, NEW i \in Jobs, i \notin faulted'
             PROVE  Chain(i)'
  BY DEF IInv
<1>1. faulted \subseteq faulted'
  BY DEF Next, vars, EnqueueStep, EnqueueCommit, EnqueuePublish, EnqueueReport,
         EnqueueMarkFailed, BrokerStep, DiscardUnknown, CancelStep, CancelRead, CancelWrite,
         EnqueueFault, EnqueuePublishFails, EnqueueCrash, WorkerStep, Receive, Start,
         Complete, Fail, Acknowledge, AutoRetry, GiveUp, WorkerFault, SessionFails,
         AutoRetryFails, Redeliver, NodeCrash, ProcessLost, Fault, NoFault
<1>2. Before(i)
  BY <1>1 DEF IInv, Before
<1>3. CASE UNCHANGED vars
  <2>1. TypeOK /\ Chain(i)
    BY <1>2 DEF Before
  <2> QED BY <1>3, <2>1, ChainFrame DEF vars
<1>4. CASE Next
  BY <1>2, <1>4, EnqueueKeepsChain, BrokerKeepsChain, CancelKeepsChain,
     WorkerKeepsChain, FaultKeepsChain DEF Next
<1> QED BY <1>3, <1>4

-----------------------------------------------------------------------------
LEMMA IInvStep == IInv /\ [Next]_vars => IInv'
BY TypeStep, IdentifiedStep, CausesStep, ChainStep DEF IInv

LEMMA SpecIInv == Spec => []IInv
<1>1. Init => IInv
  BY InitIInv
<1>2. IInv /\ [Next]_vars => IInv'
  BY IInvStep
<1> QED BY <1>1, <1>2, PTL DEF Spec

\* Type correctness of job rows, messages and executions.
THEOREM JobQueueTypes == Spec => []TypeOK
BY SpecIInv, PTL DEF IInv

\* Every outcome on a row has its cause, whatever faults and cancels overlap.
THEOREM OutcomesHaveCause == Spec => []OutcomeHasCause
BY SpecIInv, PTL DEF IInv

\* A job no fault has touched never stalls: when its last message is consumed
\* its row promises no more work, because max_attempts is within Celery's
\* max_retries + 1.
THEOREM UntouchedJobsNeverStall == Spec => []NoStalledJob
<1>1. IInv => NoStalledJob
  BY DEF IInv, NoStalledJob, Chain
<1> QED BY <1>1, SpecIInv, PTL

\* A job no fault has touched is carried by one message or one execution.
THEOREM UntouchedJobsRunAlone == Spec => []SingleCarrier
<1>1. ASSUME IInv, NEW j \in Jobs \ faulted
      PROVE  \A r \in Retries : ready[j][r] <= 1
  <2>1. \A r \in Retries : ready[j][r] \in Nat
    BY <1>1 DEF IInv, TypeOK
  <2> QED BY <1>1, <2>1 DEF IInv, Chain
<1>2. IInv => SingleCarrier
  BY <1>1 DEF IInv, SingleCarrier, Chain
<1> QED BY <1>2, SpecIInv, PTL

\* attempts counts the failures of an untouched job, and never more than the
\* failures of any job.
THEOREM AttemptsAreCounted == Spec => []AttemptsCountFailures
<1>1. IInv => AttemptsCountFailures
  BY DEF IInv, AttemptsCountFailures, Counted, Chain
<1> QED BY <1>1, SpecIInv, PTL

-----------------------------------------------------------------------------
(***************************************************************************)
(* What is over stays over: when the row of an untouched job says          *)
(* COMPLETED, nothing is left that could run the job again.                *)
(***************************************************************************)
Over(j) ==
    row[j].status = "COMPLETED" =>
        /\ enq[j] = "sent" /\ ~InBroker(j)
        /\ \A w \in Workers : exec[w].job = j => exec[w].pc = "returned"

\* Who writes the row of i is i's own.
OverKept(i) == Over(i)' /\ (row[i].status = "COMPLETED" /\ i \notin cancelling
                             => row'[i].status = "COMPLETED")

LEMMA EnqueueKeepsOver ==
    ASSUME IInv, NEW i \in Jobs, Chain(i), Over(i), NEW j \in Jobs,
           EnqueueStep(j) \/ BrokerStep(j) \/ CancelStep(j), i \notin faulted'
    PROVE  OverKept(i)
<1> USE DEF OverKept, Over, InBroker, IInv
<1>0. TypeOK /\ Identified
  OBVIOUS
<1>1. CASE EnqueueCommit(j)
  BY <1>0, <1>1, RecordFields DEF EnqueueCommit, create_job, TypeOK, Identified
<1>2. CASE EnqueuePublish(j)
  BY <1>0, <1>2 DEF EnqueuePublish, publish, TypeOK
<1>3. CASE EnqueueMarkFailed(j)
  <2>1. i # j
    BY <1>3 DEF EnqueueMarkFailed, Chain
  <2> QED
    BY <1>0, <1>3, <2>1 DEF EnqueueMarkFailed, mark_failed, TypeOK
<1>4. CASE BrokerStep(j)
  BY <1>0, <1>4 DEF BrokerStep, DiscardUnknown, consume, TypeOK
<1>5. CASE CancelRead(j)
  BY <1>5 DEF CancelRead
<1>6. CASE CancelWrite(j)
  BY <1>0, <1>6 DEF CancelWrite, TypeOK, Row
<1>7. CASE EnqueueReport(j)
  BY <1>0, <1>7 DEF EnqueueReport, TypeOK
<1> QED
  BY <1>1, <1>2, <1>3, <1>4, <1>5, <1>6, <1>7 DEF EnqueueStep, CancelStep

LEMMA WorkerKeepsOver ==
    ASSUME IInv, NEW i \in Jobs, Chain(i), Over(i), NEW w \in Workers, WorkerStep(w)
    PROVE  OverKept(i)
<1> USE DEF OverKept, Over, InBroker, IInv
<1>0. TypeOK /\ Identified
  OBVIOUS
<1>1. ASSUME NEW j \in Jobs, NEW r \in Retries, Receive(w, j, r) PROVE OverKept(i)
  <2>1. row[i].status = "COMPLETED" => i # j
    BY <1>1 DEF Receive
  <2> QED
    BY <1>0, <1>1, <2>1 DEF Receive, consume, TypeOK
<1>2. CASE Start(w)
  BY <1>0, <1>2, RecordFields DEF Start, mark_started, TypeOK, Row
<1>3. CASE Complete(w)
  <2>1. CASE exec[w].job = i
    <3>1. OnWorker(i) /\ exec[w].pc = "running"
      BY <1>3, <2>1 DEF OnWorker, Complete
    <3>2. /\ enq[i] = "sent" /\ ~InBroker(i)
          /\ \A v \in Workers : exec[v].job = i => v = w
      BY <2>1, <3>1 DEF Chain
    <3> QED
      BY <1>0, <1>3, <2>1, <3>2 DEF Complete, mark_completed, TypeOK, Row, Execution
  <2>2. CASE exec[w].job # i
    BY <1>0, <1>3, <2>2 DEF Complete, mark_completed, TypeOK, Row, Execution
  <2> QED
    BY <2>1, <2>2
<1>4. CASE Fail(w)
  <2>1. CASE exec[w].job = i
    BY <1>0, <1>4, <2>1 DEF Fail, mark_failed, TypeOK
  <2>2. CASE exec[w].job # i
    BY <1>0, <1>4, <2>2 DEF Fail, mark_failed, TypeOK, Execution
  <2> QED
    BY <2>1, <2>2
<1>5. CASE Acknowledge(w) \/ GiveUp(w)
  <2>1. exec' = [exec EXCEPT ![w] = Idle] /\ UNCHANGED <<row, enq, ready, cancelling>>
    BY <1>5 DEF Acknowledge, GiveUp
  <2>2. Idle.job # i
    BY DEF Idle
  <2>3. \A v \in Workers : exec'[v].job = i => exec'[v] = exec[v]
    BY <1>0, <2>1, <2>2 DEF TypeOK
  <2> QED
    BY <2>1, <2>3
<1>6. CASE AutoRetry(w)
  <2>1. row[i].status = "COMPLETED" => exec[w].job # i
    BY <1>6 DEF AutoRetry
  <2>2. exec[w].job \in Jobs
    BY <1>0, <1>6, RecordFields DEF AutoRetry, Identified
  <2> QED
    BY <1>0, <1>6, <2>1, <2>2 DEF AutoRetry, publish, TypeOK, Idle
<1> QED
  BY <1>1, <1>2, <1>3, <1>4, <1>5, <1>6 DEF WorkerStep

\* A fault touches the job it hits; the others it leaves alone.
LEMMA FaultKeepsOver ==
    ASSUME IInv, NEW i \in Jobs, Over(i), i \notin faulted',
           \/ \E j \in Jobs : EnqueueFault(j)
           \/ \E w \in Workers : WorkerFault(w)
    PROVE  OverKept(i)
<1> USE DEF OverKept, Over, InBroker, Fault
<1>0. TypeOK /\ Identified
  BY DEF IInv
<1>1. ASSUME NEW j \in Jobs, EnqueueFault(j) PROVE OverKept(i)
  <2>1. i # j
    BY <1>1 DEF EnqueueFault, EnqueuePublishFails, EnqueueCrash
  <2> QED
    BY <1>0, <1>1, <2>1 DEF EnqueueFault, EnqueuePublishFails, EnqueueCrash, publish, TypeOK
<1>2. ASSUME NEW w \in Workers, WorkerFault(w) PROVE OverKept(i)
  <2>1. exec[w].job # i /\ row' = row /\ enq' = enq /\ cancelling' = cancelling
    BY <1>2 DEF WorkerFault, SessionFails, AutoRetryFails, Redeliver, NodeCrash, ProcessLost
  <2>2. ready' = ready \/ ready' = publish(exec[w].job, exec[w].retries)
    BY <1>2 DEF WorkerFault, SessionFails, AutoRetryFails, Redeliver, NodeCrash, ProcessLost
  <2>3. \A r \in Retries : ready'[i][r] = ready[i][r]
    BY <1>0, <2>1, <2>2 DEF publish, TypeOK
  <2>4. \A v \in Workers : exec'[v].job = i => exec'[v] = exec[v]
    <3>1. CASE SessionFails(w) \/ Redeliver(w)
      BY <1>0, <2>1, <3>1 DEF SessionFails, Redeliver, TypeOK, Execution
    <3>2. CASE AutoRetryFails(w) \/ NodeCrash(w) \/ ProcessLost(w)
      BY <1>0, <2>1, <3>2 DEF AutoRetryFails, NodeCrash, ProcessLost, TypeOK, Idle
    <3> QED
      BY <1>2, <3>1, <3>2 DEF WorkerFault
  <2> QED
    BY <2>1, <2>3, <2>4
<1> QED
  BY <1>1, <1>2

Finished == \A i \in Jobs \ faulted : Over(i)

\* A step that changes a row is no fault.
LEMMA FaultsWriteNothing ==
    ASSUME [Next]_vars
    PROVE  faulted \subseteq faulted' /\ (row' = row \/ faulted' = faulted)
<1> USE DEF NoFault, Fault
<1>1. ASSUME NEW j \in Jobs, EnqueueStep(j) \/ BrokerStep(j) \/ CancelStep(j)
      PROVE  faulted' = faulted
  BY <1>1 DEF EnqueueStep, EnqueueCommit, EnqueuePublish, EnqueueReport,
              EnqueueMarkFailed, BrokerStep, DiscardUnknown, CancelStep, CancelRead, CancelWrite
<1>2. ASSUME NEW w \in Workers, WorkerStep(w) PROVE faulted' = faulted
  BY <1>2 DEF WorkerStep, Receive, Start, Complete, Fail, Acknowledge, AutoRetry, GiveUp
<1>3. ASSUME NEW j \in Jobs, EnqueueFault(j)
      PROVE  faulted \subseteq faulted' /\ row' = row
  BY <1>3 DEF EnqueueFault, EnqueuePublishFails, EnqueueCrash
<1>4. ASSUME NEW w \in Workers, WorkerFault(w)
      PROVE  faulted \subseteq faulted' /\ row' = row
  BY <1>4 DEF WorkerFault, SessionFails, AutoRetryFails, Redeliver, NodeCrash, ProcessLost
<1>5. CASE UNCHANGED vars
  BY <1>5 DEF vars
<1> QED
  BY <1>1, <1>2, <1>3, <1>4, <1>5 DEF Next

LEMMA FinishedStep ==
    ASSUME IInv, Finished, [Next]_vars
    PROVE  /\ Finished'
           /\ \A i \in Jobs : row[i].status = "COMPLETED" /\ row'[i].status # "COMPLETED"
                 => i \in faulted \cup cancelling
<1>1. ASSUME NEW i \in Jobs, i \notin faulted' PROVE OverKept(i)
  <2>1. i \notin faulted /\ Chain(i) /\ Over(i)
    BY <1>1, FaultsWriteNothing DEF IInv, Finished
  <2>2. CASE UNCHANGED vars
    BY <2>1, <2>2 DEF vars, OverKept, Over, InBroker
  <2>3. CASE \/ \E j \in Jobs : EnqueueStep(j) \/ BrokerStep(j) \/ CancelStep(j)
             \/ \E w \in Workers : WorkerStep(w)
    BY <1>1, <2>1, <2>3, EnqueueKeepsOver, WorkerKeepsOver
  <2>4. CASE \/ \E j \in Jobs : EnqueueFault(j)
             \/ \E w \in Workers : WorkerFault(w)
    BY <1>1, <2>1, <2>4, FaultKeepsOver
  <2> QED
    BY <2>2, <2>3, <2>4 DEF Next
<1>2. ASSUME NEW i \in Jobs, row[i].status = "COMPLETED", row'[i].status # "COMPLETED"
      PROVE  i \in faulted \cup cancelling
  <2>1. faulted' = faulted
    BY <1>2, FaultsWriteNothing
  <2> QED
    BY <1>1, <1>2, <2>1 DEF OverKept
<1> QED
  BY <1>1 , <1>2 DEF OverKept, Finished

\* A COMPLETED row changes only after a fault has hit its job, or under a
\* cancel request that had read it as QUEUED.
THEOREM CompletionsAreFinal == Spec => CompletedIsFinal
<1>1. Init => Finished
  BY DEF Init, Finished, Over, NoRow
<1>2. IInv /\ Finished /\ [Next]_vars =>
        [\A j \in Jobs :
          row[j].status = "COMPLETED" /\ row'[j].status # "COMPLETED"
              => j \in faulted \cup cancelling]_vars
  BY FinishedStep
<1>3. IInv /\ Finished /\ [Next]_vars => Finished'
  BY FinishedStep
<1> QED
  BY <1>1, <1>2, <1>3, SpecIInv, PTL DEF Spec, CompletedIsFinal

-----------------------------------------------------------------------------
(***************************************************************************)
(* What the rows promise: without faults and cancels, every step of the    *)
(* sessions, the broker and the workers is a step of JobContract or leaves *)
(* the rows as they are.                                                   *)
(***************************************************************************)
Contract == INSTANCE JobContract WITH
    Extra    <- MaxRetries + 1 - MaxAttempts,
    status   <- [j \in Jobs |-> row[j].status],
    attempts <- [j \in Jobs |-> row[j].attempts]

\* The row says RUNNING while, and only while, an execution runs the job.
Truthful(j) ==
    /\ row[j].status = "ABSENT" <=> enq[j] = "new"
    /\ row[j].status = "RUNNING" => OnWorker(j)
    /\ \A w \in Workers : exec[w].job = j =>
          (exec[w].pc = "running" <=> row[j].status = "RUNNING")

Quiet ==
    /\ faulted = {}
    /\ cancelling = {}
    /\ \A j \in Jobs : Truthful(j)

Undisturbed == Cancellable = {} /\ MaxFaults = 0

\* The rows, where a step writes only one of them.
LEMMA RowWritten ==
    ASSUME row \in [Jobs -> Row], NEW j \in Jobs, NEW new, row' = [row EXCEPT ![j] = new]
    PROVE  /\ [i \in Jobs |-> row'[i].status] =
                 [[i \in Jobs |-> row[i].status] EXCEPT ![j] = new.status]
           /\ [i \in Jobs |-> row'[i].attempts] =
                 [[i \in Jobs |-> row[i].attempts] EXCEPT ![j] = new.attempts]
  OBVIOUS

LEMMA UntouchedStep ==
    ASSUME Quiet, row' = row, faulted' = faulted, cancelling' = cancelling,
           \A j \in Jobs : enq'[j] = "new" <=> enq[j] = "new",
           \A v \in Workers : \/ exec'[v] = exec[v]
                              \/ exec'[v].pc # "running" /\ exec[v].pc # "running"
                                 /\ (exec'[v].job \in Jobs => row[exec'[v].job].status # "RUNNING")
    PROVE  Quiet' /\ UNCHANGED Contract!contractVars
<1>1. ASSUME NEW j \in Jobs PROVE Truthful(j)'
  <2>1. Truthful(j)
    BY DEF Quiet
  <2>2. row[j].status = "RUNNING" => OnWorker(j)'
    BY <2>1 DEF Truthful, OnWorker
  <2> QED
    BY <2>1, <2>2 DEF Truthful
<1>2. UNCHANGED Contract!contractVars
  BY DEF Contract!contractVars
<1> QED
  BY <1>1, <1>2 DEF Quiet

\* The one execution of a job moves on, and its row with it.
LEMMA WorkStep ==
    ASSUME IInv, Quiet, NEW w \in Workers, NEW j \in Jobs, exec[w].job = j,
           NEW new \in Row, row' = [row EXCEPT ![j] = new], new.status # "ABSENT",
           UNCHANGED <<enq, faulted, cancelling>>, exec'[w].job = j,
           exec'[w].pc = "running" <=> new.status = "RUNNING",
           \A v \in Workers : v # w => exec'[v] = exec[v]
    PROVE  Quiet'
<1>1. /\ row \in [Jobs -> Row] /\ Chain(j)
      /\ row'[j] = new /\ \A i \in Jobs : i # j => row'[i] = row[i]
  BY DEF IInv, TypeOK, Quiet
<1>2. \A v \in Workers : exec[v].job = j => v = w
  BY <1>1 DEF Chain
<1>3. enq[j] # "new"
  BY <1>1 DEF Chain, OnWorker
<1>4. ASSUME NEW i \in Jobs PROVE Truthful(i)'
  <2>1. CASE i = j
    BY <1>1, <1>2, <1>3, <2>1 DEF Truthful, OnWorker
  <2>2. CASE i # j
    <3>1. Truthful(i) /\ row'[i] = row[i]
      BY <1>1, <2>2 DEF Quiet
    <3>2. \A v \in Workers : exec'[v].job = i \/ exec[v].job = i => exec'[v] = exec[v]
      BY <2>2
    <3>3. OnWorker(i) => OnWorker(i)'
      BY <3>2 DEF OnWorker
    <3> QED
      BY <3>1, <3>2, <3>3 DEF Truthful
  <2> QED
    BY <2>1, <2>2
<1> QED
  BY <1>4 DEF Quiet

LEMMA ContractWork ==
    ASSUME IInv, Finished, Quiet, NEW w \in Workers, Start(w) \/ Complete(w) \/ Fail(w)
    PROVE  Quiet' /\ Contract!Next
<1>1. /\ row \in [Jobs -> Row] /\ exec \in [Workers -> Execution] /\ exec[w] \in Execution
      /\ TypeOK /\ exec[w].pc \in {"received", "running"}
  BY DEF IInv, TypeOK, Start, Complete, Fail
<1>2. PICK j \in Jobs : exec[w].job = j
  BY <1>1, RecordFields DEF IInv, Identified
<1>3. Chain(j) /\ Truthful(j) /\ Over(j) /\ InStep(w, j)
  BY <1>2 DEF IInv, Quiet, Finished, Chain
<1>4. row[j] \in Row /\ row[j].attempts \in Nat /\ row[j].status # "ABSENT"
  BY <1>1, <1>2, <1>3, RecordFields DEF Truthful, Chain, OnWorker
<1>5. CASE Start(w)
  <2> DEFINE new == [row[j] EXCEPT !.status = "RUNNING"]
  <2>1. new \in Row /\ new.status = "RUNNING" /\ new.attempts = row[j].attempts
    BY <1>4 DEF Row, Status, Live
  <2>2. /\ row' = [row EXCEPT ![j] = new] /\ exec[w].pc = "received"
        /\ UNCHANGED <<enq, faulted, cancelling>>
        /\ exec' = [exec EXCEPT ![w].pc = "running", ![w].attempts = row[j].attempts]
    BY <1>2, <1>5 DEF Start, mark_started, NoFault
  <2>3. exec'[w].job = j /\ exec'[w].pc = "running"
        /\ \A v \in Workers : v # w => exec'[v] = exec[v]
    BY <1>1, <1>2, <2>2 DEF Execution
  <2>4. row[j].status \in {"QUEUED", "RETRYING", "FAILED"}
    BY <1>2, <1>3, <1>4, <2>2 DEF Truthful, Over, Row, Status, Live
  <2>5. row[j].attempts < MaxAttempts + (MaxRetries + 1 - MaxAttempts)
    <3>1. row[j].attempts = exec[w].retries /\ exec[w].retries \in 0 .. MaxRetries
      BY <1>1, <1>3, <2>2, RecordFields, <1>2 DEF InStep
    <3> QED
      BY <1>4, <3>1
  <2> HIDE DEF new
  <2>6. Quiet'
    BY <1>2, <2>1, <2>2, <2>3, WorkStep
  <2>7. /\ [i \in Jobs |-> row'[i].status] =
              [[i \in Jobs |-> row[i].status] EXCEPT ![j] = "RUNNING"]
        /\ [i \in Jobs |-> row'[i].attempts] = [i \in Jobs |-> row[i].attempts]
    BY <1>1, <1>2, <2>1, <2>2
  <2>8. Contract!Run(j)
    BY <1>2, <2>4, <2>5, <2>7 DEF Contract!Run
  <2> QED
    BY <1>2, <2>6, <2>8 DEF Contract!Next
<1>6. CASE Complete(w)
  <2> DEFINE new == [row[j] EXCEPT !.status = "COMPLETED"]
  <2>1. new \in Row /\ new.status = "COMPLETED" /\ new.attempts = row[j].attempts
    BY <1>4 DEF Row, Status, Live
  <2>2. /\ row' = [row EXCEPT ![j] = new] /\ exec[w].pc = "running"
        /\ UNCHANGED <<enq, faulted, cancelling>>
        /\ exec' = [exec EXCEPT ![w].pc = "returned"]
    BY <1>2, <1>6 DEF Complete, mark_completed, NoFault
  <2>3. exec'[w].job = j /\ exec'[w].pc = "returned"
        /\ \A v \in Workers : v # w => exec'[v] = exec[v]
    BY <1>1, <1>2, <2>2 DEF Execution
  <2>4. row[j].status = "RUNNING"
    BY <1>2, <1>3, <2>2 DEF Truthful
  <2> HIDE DEF new
  <2>5. Quiet'
    BY <1>2, <2>1, <2>2, <2>3, WorkStep
  <2>6. /\ [i \in Jobs |-> row'[i].status] =
              [[i \in Jobs |-> row[i].status] EXCEPT ![j] = "COMPLETED"]
        /\ [i \in Jobs |-> row'[i].attempts] = [i \in Jobs |-> row[i].attempts]
    BY <1>1, <1>2, <2>1, <2>2
  <2>7. Contract!Succeed(j)
    BY <1>2, <2>4, <2>6 DEF Contract!Succeed
  <2> QED
    BY <1>2, <2>5, <2>7 DEF Contract!Next
<1>7. CASE Fail(w)
  <2> DEFINE n == row[j].attempts + 1
             exhausted == n >= MaxAttempts
             new == [status    |-> IF exhausted THEN "FAILED" ELSE "RETRYING",
                     attempts  |-> n,
                     failed_at |-> exhausted]
  <2>1. /\ new \in Row /\ new.attempts = row[j].attempts + 1
        /\ new.status = IF row[j].attempts + 1 < MaxAttempts THEN "RETRYING" ELSE "FAILED"
    BY <1>4 DEF Row, Status, Live
  <2>2. /\ exec[w].pc = "running" /\ UNCHANGED <<enq, faulted, cancelling>>
        /\ exec' = [exec EXCEPT ![w].pc = "raised"]
        /\ row' = mark_failed(j, exec[w].attempts)
    BY <1>2, <1>7 DEF Fail, NoFault
  <2>3. exec[w].attempts = row[j].attempts
    BY <1>2, <1>3, <2>2 DEF InStep
  <2>4. row' = [row EXCEPT ![j] = new]
    BY <2>2, <2>3 DEF mark_failed
  <2>5. exec'[w].job = j /\ exec'[w].pc = "raised"
        /\ \A v \in Workers : v # w => exec'[v] = exec[v]
    BY <1>1, <1>2, <2>2 DEF Execution
  <2>6. row[j].status = "RUNNING"
    BY <1>2, <1>3, <2>2 DEF Truthful
  <2> HIDE DEF new, n, exhausted
  <2>7. Quiet'
    BY <1>2, <2>1, <2>2, <2>4, <2>5, WorkStep
  <2>8. /\ [i \in Jobs |-> row'[i].status] =
              [[i \in Jobs |-> row[i].status] EXCEPT ![j] =
                 IF row[j].attempts + 1 < MaxAttempts THEN "RETRYING" ELSE "FAILED"]
        /\ [i \in Jobs |-> row'[i].attempts] =
              [[i \in Jobs |-> row[i].attempts] EXCEPT ![j] = row[j].attempts + 1]
    BY <1>1, <1>2, <2>1, <2>4
  <2>9. row'[j].attempts = row[j].attempts + 1
    BY <1>1, <1>2, <2>1, <2>4
  <2>10. Contract!Fail(j)
    BY <1>2, <2>6, <2>8, <2>9 DEF Contract!Fail
  <2> QED
    BY <1>2, <2>7, <2>10 DEF Contract!Next
<1> QED
  BY <1>5, <1>6, <1>7

LEMMA ContractSubmit ==
    ASSUME IInv, Quiet, NEW j \in Jobs, EnqueueCommit(j)
    PROVE  Quiet' /\ Contract!Next
<1>1. /\ row \in [Jobs -> Row] /\ enq[j] = "new" /\ row' = [row EXCEPT ![j] = create_job]
      /\ enq' = [enq EXCEPT ![j] = "committed"] /\ UNCHANGED <<exec, faulted, cancelling>>
      /\ DOMAIN enq = Jobs /\ Identified
  BY DEF EnqueueCommit, NoFault, IInv, TypeOK
<1>2. row[j].status = "ABSENT" /\ row[j].attempts = 0 /\ ~OnWorker(j) /\ Chain(j)
  BY <1>1 DEF Identified, IInv, Quiet, Chain
<1>3. create_job.status = "QUEUED" /\ create_job.attempts = 0
  BY DEF create_job
<1>4. /\ row'[j] = create_job /\ \A i \in Jobs : i # j => row'[i] = row[i] /\ enq'[i] = enq[i]
      /\ enq'[j] = "committed"
  BY <1>1
<1>5. ASSUME NEW i \in Jobs PROVE Truthful(i)'
  <2>1. CASE i = j
    BY <1>1, <1>2, <1>3, <1>4, <2>1 DEF Truthful, OnWorker
  <2>2. CASE i # j
    BY <1>1, <1>4, <2>2 DEF Quiet, Truthful, OnWorker
  <2> QED
    BY <2>1, <2>2
<1>6. Quiet'
  BY <1>1, <1>5 DEF Quiet
<1>7. /\ [i \in Jobs |-> row'[i].status] =
            [[i \in Jobs |-> row[i].status] EXCEPT ![j] = "QUEUED"]
      /\ [i \in Jobs |-> row'[i].attempts] = [i \in Jobs |-> row[i].attempts]
  BY <1>1, <1>2, <1>3
<1>8. Contract!Submit(j)
  BY <1>2, <1>7 DEF Contract!Submit
<1> QED
  BY <1>6, <1>8 DEF Contract!Next

LEMMA ContractSilent ==
    ASSUME IInv, Quiet,
           \/ \E j \in Jobs : EnqueuePublish(j) \/ BrokerStep(j)
           \/ \E w \in Workers : \/ \E j \in Jobs, r \in Retries : Receive(w, j, r)
                                 \/ Acknowledge(w) \/ AutoRetry(w) \/ GiveUp(w)
           \/ UNCHANGED vars
    PROVE  Quiet' /\ UNCHANGED Contract!contractVars
<1>1. exec \in [Workers -> Execution] /\ DOMAIN enq = Jobs
  BY DEF IInv, TypeOK
<1>2. ASSUME NEW j \in Jobs, EnqueuePublish(j)
      PROVE  Quiet' /\ UNCHANGED Contract!contractVars
  <2>1. /\ UNCHANGED <<row, exec, faulted, cancelling>> /\ enq[j] = "committed"
        /\ enq' = [enq EXCEPT ![j] = "sent"]
    BY <1>2 DEF EnqueuePublish, NoFault
  <2>2. \A i \in Jobs : enq'[i] = "new" <=> enq[i] = "new"
    BY <1>1, <2>1
  <2> QED
    BY <2>1, <2>2, UntouchedStep
<1>3. CASE (\E j \in Jobs : BrokerStep(j)) \/ UNCHANGED vars
  <2>1. UNCHANGED <<row, enq, exec, faulted, cancelling>>
    BY <1>3 DEF BrokerStep, DiscardUnknown, NoFault, vars
  <2> QED
    BY <2>1, UntouchedStep
<1>4. ASSUME NEW w \in Workers, NEW j \in Jobs, NEW r \in Retries, Receive(w, j, r)
      PROVE  Quiet' /\ UNCHANGED Contract!contractVars
  <2>1. /\ UNCHANGED <<row, enq, faulted, cancelling>> /\ exec[w].pc = "idle"
        /\ exec' = [exec EXCEPT ![w] = [pc |-> "received", job |-> j, retries |-> r,
                                       attempts |-> 0, held |-> TRUE]]
        /\ InBroker(j)
    BY <1>4 DEF Receive, NoFault, InBroker
  <2>2. row[j].status # "RUNNING"
    BY <2>1 DEF IInv, Quiet, Chain, Truthful
  <2>3. /\ exec'[w].pc = "received" /\ exec'[w].job = j
        /\ \A v \in Workers : v # w => exec'[v] = exec[v]
    BY <1>1, <2>1
  <2> QED
    BY <2>1, <2>2, <2>3, UntouchedStep
<1>5. ASSUME NEW w \in Workers, Acknowledge(w) \/ AutoRetry(w) \/ GiveUp(w)
      PROVE  Quiet' /\ UNCHANGED Contract!contractVars
  <2>1. /\ UNCHANGED <<row, enq, faulted, cancelling>> /\ exec[w].pc # "running"
        /\ exec' = [exec EXCEPT ![w] = Idle]
    BY <1>5 DEF Acknowledge, AutoRetry, GiveUp, NoFault
  <2>2. Idle.pc = "idle" /\ Idle.job \notin Jobs
    BY DEF Idle
  <2>3. exec'[w] = Idle /\ \A v \in Workers : v # w => exec'[v] = exec[v]
    BY <1>1, <2>1
  <2> QED
    BY <2>1, <2>2, <2>3, UntouchedStep
<1> QED
  BY <1>2, <1>3, <1>4, <1>5

\* Without faults and cancels the other steps do not happen.
LEMMA ContractStep ==
    ASSUME Undisturbed, IInv, Finished, Quiet, [Next]_vars
    PROVE  Quiet' /\ [Contract!Next]_(Contract!contractVars)
<1>1. /\ Cancellable = {} /\ MaxFaults = 0 /\ faults \in 0 .. MaxFaults
      /\ faulted = {} /\ cancelling = {}
  BY DEF Undisturbed, IInv, TypeOK, Quiet
<1>2. ~(faults < MaxFaults)
  BY <1>1
<1>3. ASSUME NEW j \in Jobs
      PROVE  /\ ~CancelStep(j) /\ ~EnqueueFault(j)
             /\ ~EnqueueReport(j) /\ ~EnqueueMarkFailed(j)
  <2>1. enq[j] \notin {"unsent", "reporting"}
    BY <1>1 DEF IInv, Chain
  <2> QED
    BY <1>1, <1>2, <2>1 DEF CancelStep, CancelRead, CancelWrite, EnqueueFault,
       EnqueuePublishFails, EnqueueCrash, Fault, EnqueueReport, EnqueueMarkFailed
<1>4. ASSUME NEW w \in Workers PROVE ~WorkerFault(w)
  BY <1>2 DEF WorkerFault, SessionFails, AutoRetryFails, Redeliver, NodeCrash,
     ProcessLost, Fault
<1>5. CASE \E j \in Jobs : EnqueueCommit(j)
  BY <1>5, ContractSubmit
<1>6. CASE \E w \in Workers : Start(w) \/ Complete(w) \/ Fail(w)
  BY <1>6, ContractWork
<1>7. CASE \/ \E j \in Jobs : EnqueuePublish(j) \/ BrokerStep(j)
           \/ \E w \in Workers : \/ \E j \in Jobs, r \in Retries : Receive(w, j, r)
                                 \/ Acknowledge(w) \/ AutoRetry(w) \/ GiveUp(w)
           \/ UNCHANGED vars
  BY <1>7, ContractSilent
<1> QED
  BY <1>3, <1>4, <1>5, <1>6, <1>7 DEF Next, EnqueueStep, WorkerStep

LEMMA ContractInit == Init => Finished /\ Quiet /\ Contract!Init
<1> SUFFICES ASSUME Init PROVE Finished /\ Quiet /\ Contract!Init
  OBVIOUS
<1>1. /\ row = [j \in Jobs |-> NoRow] /\ enq = [j \in Jobs |-> "new"]
      /\ exec = [w \in Workers |-> Idle] /\ faulted = {} /\ cancelling = {}
  BY DEF Init
<1>2. NoRow.status = "ABSENT" /\ NoRow.attempts = 0 /\ Idle.job \notin Jobs
  BY DEF NoRow, Idle
<1> QED
  BY <1>1, <1>2 DEF Finished, Over, Quiet, Truthful, Contract!Init

\* As long as nobody cancels and no fault occurs, the rows of any number of
\* jobs, executed by any number of workers, change only as the contract says.
THEOREM RowsKeepTheContract ==
    ASSUME Undisturbed
    PROVE  Spec => Contract!ContractSteps
<1>1. IInv /\ Finished /\ Quiet /\ [Next]_vars
        => Finished' /\ Quiet' /\ [Contract!Next]_(Contract!contractVars)
  BY FinishedStep, ContractStep
<1> QED
  BY <1>1, ContractInit, SpecIInv, PTL DEF Spec, Contract!ContractSteps

=============================================================================
