----------------------------- MODULE OAuthConnect -----------------------------
(***************************************************************************)
(* Connecting a workspace to a provider, and disconnecting it: the one-shot *)
(* OAuth states of OAuthManager, the retry policy around the circuit       *)
(* breaker around the connector's call, and the integration_connections    *)
(* rows of one workspace and provider.  The requests of other workspaces   *)
(* share the breaker only.                                                  *)
(*                                                                         *)
(* A request reads a row, awaits, and then lets the ORM write the columns  *)
(* whose value differs from what it READ; write and commit are one step,   *)
(* since the row stays locked between them.  The table has no unique key,  *)
(* and the lookup is SELECT ... .first() with no order.                     *)
(***************************************************************************)
EXTENDS CircuitBreaker

CONSTANTS
    Flows,       \* authorization flows: a state, and the code granted for it
    None,        \* no flow: no token, no row
    MaxRetries,  \* retry_policy(max_retries)
    MaxRestarts  \* bound: restarts of the API process

ASSUME ConnectAssumption ==
    /\ None \notin Flows
    /\ MaxRetries \in Nat
    /\ MaxRestarts \in Nat

VARIABLES
    states,   \* OAuthManager._states, by the flow each state belongs to
    code,     \* the provider's view of each flow's one-time code
    req,      \* each request: where it is and what it holds
    conn,     \* the rows, each named after the flow whose callback created it
    raced,    \* history: a row changed between a request's read and its write
    restarts  \* restarts so far

connectVars == <<states, code, req, conn, raced, restarts>>
allVars == <<breakerVars, connectVars>>

Row == [status : {"ABSENT", "CONNECTED", "DISCONNECTED"}, token : Flows \cup {None}]
NoRow == [status |-> "ABSENT", token |-> None]
rows == {f \in Flows : conn[f] # NoRow}

Ended == {"done", "rejected", "failed", "lost"}
Request ==
    [pc : {"idle", "calling", "inflight", "sleeping", "reading", "writing"} \cup Ended,
     op : {"none", "connect", "disconnect"},
     flow : Flows \cup {None},    \* whose code is exchanged
     retries : 0 .. MaxRetries,
     row : Flows \cup {None},     \* the row read, None if there was none
     seen : Row]                  \* its columns as read
Idle == [pc |-> "idle", op |-> "none", flow |-> None, retries |-> 0,
         row |-> None, seen |-> NoRow]

Init ==
    /\ BreakerInit
    /\ states = {}
    /\ code = [f \in Flows |-> "none"]
    /\ req = [q \in Callers |-> Idle]
    /\ conn = [f \in Flows |-> NoRow]
    /\ raced = FALSE
    /\ restarts = 0

begun(op, flow, r, seen) ==
    [pc |-> "calling", op |-> op, flow |-> flow, retries |-> 0, row |-> r, seen |-> seen]

goto(q, pc) == req' = [req EXCEPT ![q].pc = pc]

\* get_by_workspace_and_provider: any of the rows, or None.
lookup == IF rows = {} THEN {None} ELSE rows
seenAs(r) == IF r = None THEN NoRow ELSE conn[r]

-----------------------------------------------------------------------------
(***************************************************************************)
(* The state travels to the provider and comes back with a code.           *)
(***************************************************************************)
get_oauth_url(f) ==
    /\ code[f] = "none"
    /\ states' = states \cup {f}
    /\ code' = [code EXCEPT ![f] = "fresh"]
    /\ UNCHANGED <<breakerVars, req, conn, raced, restarts>>

\* The callback looks its state up without removing it.
oauth_callbackBug(q, f) ==
    /\ req[q].pc = "idle"
    /\ f \in states
    /\ req' = [req EXCEPT ![q] = begun("connect", f, None, NoRow)]
    /\ UNCHANGED <<breakerVars, states, code, conn, raced, restarts>>

oauth_callback(q, f) ==
    /\ req[q].pc = "idle"
    /\ f \in states
    /\ states' = states \ {f}
    /\ req' = [req EXCEPT ![q] = begun("connect", f, None, NoRow)]
    /\ UNCHANGED <<breakerVars, code, conn, raced, restarts>>

\* A repeated callback, or one whose state a restart has lost.
oauth_callback_invalid(q, f) ==
    /\ req[q].pc = "idle"
    /\ code[f] # "none"
    /\ f \notin states
    /\ goto(q, "rejected")
    /\ UNCHANGED <<breakerVars, states, code, conn, raced, restarts>>

disconnect_integration(q) ==
    /\ req[q].pc = "idle"
    /\ \E r \in rows :
          req' = [req EXCEPT ![q] = begun("disconnect", None, r, conn[r])]
    /\ UNCHANGED <<breakerVars, states, code, conn, raced, restarts>>

disconnect_missing(q) ==
    /\ req[q].pc = "idle"
    /\ rows = {}
    /\ goto(q, "rejected")
    /\ UNCHANGED <<breakerVars, states, code, conn, raced, restarts>>

-----------------------------------------------------------------------------
(***************************************************************************)
(* retry_policy around breaker.call around the connector.                  *)
(***************************************************************************)
\* A failed connect is an HTTP error; a failed disconnect goes on locally.
afterFailure(q) == IF req[q].op = "connect" THEN "failed" ELSE "writing"

Call(q) ==
    /\ req[q].pc = "calling"
    /\ Admit(q)
    /\ goto(q, "inflight")
    /\ UNCHANGED <<states, code, conn, raced, restarts>>

\* CircuitBreakerOpenError goes through the retry loop like any other error.
CallRefusedBug(q) ==
    /\ req[q].pc = "calling"
    /\ Refuse(q)
    /\ goto(q, "sleeping")
    /\ UNCHANGED <<states, code, conn, raced, restarts>>

CallRefused(q) ==
    /\ req[q].pc = "calling"
    /\ Refuse(q)
    /\ goto(q, afterFailure(q))
    /\ UNCHANGED <<states, code, conn, raced, restarts>>

\* The provider exchanges a code once.
CallSucceeds(q) ==
    /\ req[q].pc = "inflight"
    /\ record_success(q)
    /\ \/ /\ req[q].op = "connect"
          /\ code[req[q].flow] = "fresh"
          /\ code' = [code EXCEPT ![req[q].flow] = "spent"]
          /\ goto(q, "reading")
       \/ /\ req[q].op = "disconnect"
          /\ goto(q, "writing")
          /\ UNCHANGED code
    /\ UNCHANGED <<states, conn, raced, restarts>>

\* The retry limit is off by one.
CallFailsBug(q) ==
    /\ req[q].pc = "inflight"
    /\ record_failure(q)
    /\ req' = IF req[q].retries <= MaxRetries
              THEN [req EXCEPT ![q].pc = "sleeping", ![q].retries = @ + 1]
              ELSE [req EXCEPT ![q].pc = afterFailure(q)]
    /\ UNCHANGED <<states, code, conn, raced, restarts>>

\* The provider is down, or refuses a spent code, or the profile request that
\* follows a successful exchange fails: the code is spent and no token is kept.
CallFails(q) ==
    /\ req[q].pc = "inflight"
    /\ record_failure(q)
    /\ \E spent \in SUBSET ({req[q].flow} \cap Flows) :
          code' = [f \in Flows |-> IF f \in spent THEN "spent" ELSE code[f]]
    /\ req' = IF req[q].retries < MaxRetries
              THEN [req EXCEPT ![q].pc = "sleeping", ![q].retries = @ + 1]
              ELSE [req EXCEPT ![q].pc = afterFailure(q)]
    /\ UNCHANGED <<states, conn, raced, restarts>>

Wake(q) ==
    /\ req[q].pc = "sleeping"
    /\ goto(q, "calling")
    /\ UNCHANGED <<breakerVars, states, code, conn, raced, restarts>>

-----------------------------------------------------------------------------
(***************************************************************************)
(* The row: looked up after the exchange by a connect, before the remote   *)
(* call by a disconnect; written from what was read.                        *)
(***************************************************************************)
SaveRead(q) ==
    /\ req[q].pc = "reading"
    /\ \E r \in lookup :
          req' = [req EXCEPT ![q].pc = "writing", ![q].row = r, ![q].seen = seenAs(r)]
    /\ UNCHANGED <<breakerVars, states, code, conn, raced, restarts>>

\* UPDATE of the columns whose new value differs from the value read.
changed(q, status, token) ==
    LET seen == req[q].seen
        now  == conn[req[q].row]
    IN  [status |-> IF seen.status # status THEN status ELSE now.status,
         token  |-> IF seen.token # token THEN token ELSE now.token]

stale(q) == IF req[q].row = None THEN rows # {} ELSE conn[req[q].row] # req[q].seen

\* Every callback inserts its own row.
saveBug(q) ==
    conn' = [conn EXCEPT ![req[q].flow] = [status |-> "CONNECTED", token |-> req[q].flow]]

save(q) ==
    LET f == req[q].flow IN
    conn' = IF req[q].row = None
            THEN [conn EXCEPT ![f] = [status |-> "CONNECTED", token |-> f]]
            ELSE [conn EXCEPT ![req[q].row] = changed(q, "CONNECTED", f)]

SaveWrite(q) ==
    /\ req[q].pc = "writing"
    /\ req[q].op = "connect"
    /\ save(q)
    /\ raced' = (raced \/ stale(q))
    /\ goto(q, "done")
    /\ UNCHANGED <<breakerVars, states, code, restarts>>

DisconnectWrite(q) ==
    /\ req[q].pc = "writing"
    /\ req[q].op = "disconnect"
    /\ conn' = [conn EXCEPT ![req[q].row] = changed(q, "DISCONNECTED", None)]
    /\ raced' = (raced \/ stale(q))
    /\ goto(q, "done")
    /\ UNCHANGED <<breakerVars, states, code, restarts>>

\* The API process restarts: breaker, states and requests are in its memory.
Restart ==
    /\ restarts < MaxRestarts
    /\ restarts' = restarts + 1
    /\ Forget
    /\ states' = {}
    /\ req' = [q \in Callers |-> IF req[q].pc \in Ended \cup {"idle"} THEN req[q]
                                 ELSE [req[q] EXCEPT !.pc = "lost"]]
    /\ UNCHANGED <<code, conn, raced>>

-----------------------------------------------------------------------------
Begin(q) ==
    \/ \E f \in Flows : oauth_callback(q, f) \/ oauth_callback_invalid(q, f)
    \/ disconnect_integration(q)
    \/ disconnect_missing(q)

Continue(q) ==
    \/ Call(q)
    \/ CallRefused(q)
    \/ CallSucceeds(q)
    \/ CallFails(q)
    \/ Wake(q)
    \/ SaveRead(q)
    \/ SaveWrite(q)
    \/ DisconnectWrite(q)

Pass == Cool /\ UNCHANGED connectVars

Next ==
    \/ \E f \in Flows : get_oauth_url(f)
    \/ \E q \in Callers : Begin(q) \/ Continue(q)
    \/ Pass
    \/ Restart

Spec == Init /\ [][Next]_allVars

\* A request that has begun runs on: each await (provider, sleep, database)
\* ends.  Nothing is assumed of users, of the clock or of restarts.
FairSpec == Spec /\ \A q \in Callers : WF_allVars(Continue(q))

-----------------------------------------------------------------------------
TypeOK ==
    /\ BreakerTypeOK
    /\ states \subseteq Flows
    /\ code \in [Flows -> {"none", "fresh", "spent"}]
    /\ req \in [Callers -> Request]
    /\ conn \in [Flows -> Row]
    /\ raced \in BOOLEAN
    /\ restarts \in 0 .. MaxRestarts

\* An OAuth state opens the door once: no two requests ever act on one flow,
\* none acts on a flow whose state is still valid, and the token of a flow is
\* stored in at most one row, even when its callback is repeated or retried.
FlowUsedOnce ==
    /\ \A p, q \in Callers :
          req[p].flow = req[q].flow /\ req[p].flow # None => p = q
    /\ \A q \in Callers : req[q].flow \notin states
    /\ \A r, s \in rows : conn[r].token = conn[s].token /\ conn[r].token # None => r = s

\* As long as no row changed under a request, the workspace has at most one
\* row for the provider, and it is CONNECTED exactly while it holds a token.
RowsCoherent ==
    ~raced => /\ Cardinality(rows) <= 1
              /\ \A r \in rows : conn[r].status = "CONNECTED" <=> conn[r].token # None

\* Every request ends: the retry loop is finite whatever the provider, the
\* breaker and the other requests do.
RequestsEnd == \A q \in Callers : req[q].pc # "idle" ~> req[q].pc \in Ended

\* How many steps a request can still take at most: three for each retry that
\* is left (Wake, Call, CallFails), and four for the call after the last.
left(r) ==
    LET rounds == 3 * (MaxRetries - r.retries) IN
    CASE r.pc = "sleeping" -> rounds + 5
      [] r.pc = "calling"  -> rounds + 4
      [] r.pc = "inflight" -> rounds + 3
      [] r.pc = "reading"  -> 2
      [] r.pc = "writing"  -> 1
      [] OTHER             -> 0

\* Why every request ends: whatever happens, to it or to the others, a request
\* that has begun stays as it is or comes nearer to its end.  An open breaker,
\* a spent code and an overlapping request never send it back, and one that
\* has ended is not taken up again.
RequestsAdvance ==
    [][\A q \in Callers :
          req[q].pc # "idle" => req'[q] = req[q] \/ left(req'[q]) < left(req[q])]_allVars

\* What the endpoint says ("Disconnect and revoke an integration."): when a
\* disconnect that no other request overlaps has been committed, the workspace
\* has no CONNECTED row for the provider.
DisconnectRevokes ==
    [][\A q \in Callers :
          (/\ DisconnectWrite(q)
           /\ \A p \in Callers \ {q} : req[p].pc \in Ended \cup {"idle"})
              => \A r \in Flows : conn'[r].status # "CONNECTED"]_allVars

=============================================================================
