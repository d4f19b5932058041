----------------------------- MODULE MCJobQueue -----------------------------
(* TLC instances of JobQueue, and the mapping to what its rows promise. *)
EXTENDS JobQueue

Contract == INSTANCE JobContract WITH
    Extra    <- MaxRetries + 1 - MaxAttempts,
    status   <- [j \in Jobs |-> row[j].status],
    attempts <- [j \in Jobs |-> row[j].attempts]

\* With no fault and no cancel the rows, read alone, keep the contract: the
\* session, broker and worker steps that move them implement it.
ImplementsContract == Contract!ContractSpec

=============================================================================
