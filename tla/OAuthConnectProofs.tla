------------------------- MODULE OAuthConnectProofs -------------------------
(***************************************************************************)
(* Proofs about CircuitBreaker and OAuthConnect.  The breaker is proved on *)
(* its own, for any callers; OAuthConnect then inherits what was proved,   *)
(* because each of its steps is a breaker step or leaves the breaker alone.*)
(***************************************************************************)
EXTENDS OAuthConnect, FiniteSetTheorems, TLAPS

-----------------------------------------------------------------------------
(***************************************************************************)
(* The breaker.  FailuresBounded is not inductive: when a HALF_OPEN        *)
(* breaker admits a caller the left-hand side grows.  What makes room for  *)
(* it is that a breaker whose timeout has passed has spent one caller's    *)
(* worth less than coolings allows (Spent).                                 *)
(***************************************************************************)
N == Cardinality(Callers)

Spent ==
    /\ state = "CLOSED" => coolings = 0
    /\ state = "OPEN" /\ ~cooled =>
          failure_count + Cardinality(inflight) <= Threshold - 1 + N * (1 + coolings)
    /\ state = "OPEN" /\ cooled =>
          failure_count + Cardinality(inflight) <= Threshold - 1 + N * coolings
    /\ state = "HALF_OPEN" => failure_count <= Threshold - 1 + N * coolings

BreakerInv == BreakerTypeOK /\ ClosedBelowThreshold /\ Spent

\* How the number of calls in flight changes with the set of callers.
LEMMA InflightCount ==
    ASSUME inflight \subseteq Callers
    PROVE  /\ IsFiniteSet(inflight)
           /\ Cardinality(inflight) \in Nat
           /\ N \in Nat
           /\ Cardinality(inflight) <= N
           /\ \A c \in inflight :
                 /\ Cardinality(inflight \ {c}) = Cardinality(inflight) - 1
                 /\ Cardinality(inflight \ {c}) \in Nat
<1>1. IsFiniteSet(inflight) /\ Cardinality(inflight) <= N
  BY BreakerAssumption, FS_Subset DEF N
<1>2. N \in Nat /\ Cardinality(inflight) \in Nat
  BY <1>1, BreakerAssumption, FS_CardinalityType DEF N
<1>3. ASSUME NEW c \in inflight
      PROVE  Cardinality(inflight \ {c}) = Cardinality(inflight) - 1
             /\ Cardinality(inflight \ {c}) \in Nat
  <2>1. IsFiniteSet(inflight \ {c})
    BY <1>1, FS_RemoveElement
  <2>2. Cardinality(inflight \ {c}) = Cardinality(inflight) - 1
    BY <1>1, <1>3, FS_RemoveElement
  <2> QED BY <2>1, <2>2, FS_CardinalityType
<1> QED BY <1>1, <1>2, <1>3

\* The bound of FailuresBounded, one caller's worth at a time.
LEMMA Budget ==
    ASSUME NEW n \in Nat, NEW k \in Nat
    PROVE  /\ n * k \in Nat
           /\ n * (1 + k) = n * k + n
           /\ n * 0 = 0
OBVIOUS

LEMMA BreakerInitially == BreakerInit => BreakerInv
<1> SUFFICES ASSUME BreakerInit PROVE BreakerInv
  OBVIOUS
<1>1. BreakerTypeOK
  BY BreakerAssumption DEF BreakerInit, BreakerTypeOK
<1>2. ClosedBelowThreshold /\ Spent
  BY BreakerAssumption DEF BreakerInit, ClosedBelowThreshold, Spent
<1> QED BY <1>1, <1>2 DEF BreakerInv

LEMMA AdmitKeeps ==
    ASSUME BreakerInv, NEW c \in Callers, Admit(c)
    PROVE  BreakerInv'
<1> USE BreakerAssumption DEF BreakerInv, Admit, read_state
<1>1. BreakerTypeOK'
  BY DEF BreakerTypeOK
<1>2. ClosedBelowThreshold'
  BY DEF BreakerTypeOK, ClosedBelowThreshold
<1>3. Spent'
  <2>1. /\ Cardinality(inflight) \in Nat /\ N \in Nat /\ coolings \in Nat
        /\ failure_count \in Nat /\ N * coolings \in Nat
    BY InflightCount, Budget DEF BreakerTypeOK
  <2>2. state' # "OPEN"
    BY DEF BreakerTypeOK
  <2>3. state' = "CLOSED" => coolings' = 0
    BY DEF BreakerTypeOK, Spent
  <2>4. state' = "HALF_OPEN" => failure_count' <= Threshold - 1 + N * coolings'
    BY <2>1 DEF BreakerTypeOK, Spent
  <2> QED BY <2>2, <2>3, <2>4 DEF Spent
<1> QED BY <1>1, <1>2, <1>3

LEMMA FailureKeeps ==
    ASSUME BreakerInv, NEW c \in Callers, record_failure(c)
    PROVE  BreakerInv'
<1> USE BreakerAssumption DEF BreakerInv, record_failure
<1>1. BreakerTypeOK'
  <2>1. failure_count' \in Nat /\ inflight' \subseteq Callers
    BY DEF BreakerTypeOK
  <2>2. state' \in {"CLOSED", "OPEN", "HALF_OPEN"}
    BY DEF BreakerTypeOK
  <2>3. cooled' \in BOOLEAN /\ coolings' \in 0 .. MaxCoolings
    BY DEF BreakerTypeOK
  <2> QED BY <2>1, <2>2, <2>3 DEF BreakerTypeOK
<1>2. ClosedBelowThreshold'
  <2>1. state' = "CLOSED" <=> state = "CLOSED" /\ failure_count + 1 < Threshold
    BY DEF BreakerTypeOK, ClosedBelowThreshold
  <2> QED BY <2>1 DEF BreakerTypeOK, ClosedBelowThreshold
<1>3. Spent'
  <2>1. /\ Cardinality(inflight) \in Nat /\ N \in Nat /\ coolings \in Nat
        /\ failure_count \in Nat /\ N * coolings \in Nat
        /\ N * (1 + coolings) = N * coolings + N
        /\ Cardinality(inflight) <= N
        /\ Cardinality(inflight') = Cardinality(inflight) - 1
    BY InflightCount, Budget DEF BreakerTypeOK
  <2>2. state' = "CLOSED" => coolings' = 0
    BY DEF BreakerTypeOK, Spent
  <2>3. state' = "HALF_OPEN" => FALSE
    BY DEF BreakerTypeOK, ClosedBelowThreshold
  <2>4. failure_count' + Cardinality(inflight') <= Threshold - 1 + N * (1 + coolings')
    <3>1. CASE state = "CLOSED"
      BY <2>1, <3>1 DEF BreakerTypeOK, ClosedBelowThreshold
    <3>2. CASE state = "HALF_OPEN"
      BY <2>1, <3>2 DEF Spent
    <3>3. CASE state = "OPEN"
      BY <2>1, <3>3 DEF BreakerTypeOK, Spent
    <3> QED BY <3>1, <3>2, <3>3 DEF BreakerTypeOK
  <2> QED BY <2>2, <2>3, <2>4 DEF Spent
<1> QED BY <1>1, <1>2, <1>3

LEMMA SuccessKeeps ==
    ASSUME BreakerInv, NEW c \in Callers, record_success(c)
    PROVE  BreakerInv'
BY BreakerAssumption
   DEF BreakerInv, record_success, BreakerTypeOK, ClosedBelowThreshold, Spent

LEMMA CoolKeeps ==
    ASSUME BreakerInv, Cool
    PROVE  BreakerInv'
<1> USE BreakerAssumption DEF BreakerInv, Cool
<1>1. BreakerTypeOK' /\ ClosedBelowThreshold'
  BY DEF BreakerTypeOK, ClosedBelowThreshold
<1>2. Spent'
  <2>1. coolings' = 1 + coolings
    BY DEF BreakerTypeOK
  <2> QED BY <2>1 DEF Spent
<1> QED BY <1>1, <1>2

LEMMA ForgetKeeps ==
    ASSUME BreakerInv, Forget
    PROVE  BreakerInv'
BY BreakerAssumption
   DEF BreakerInv, Forget, BreakerTypeOK, ClosedBelowThreshold, Spent

LEMMA BreakerStep == BreakerInv /\ [BreakerNext]_breakerVars => BreakerInv'
<1> SUFFICES ASSUME BreakerInv, [BreakerNext]_breakerVars PROVE BreakerInv'
  OBVIOUS
<1>1. CASE \E c \in Callers : Admit(c)
  BY <1>1, AdmitKeeps
<1>2. CASE UNCHANGED breakerVars
  BY <1>2 DEF BreakerInv, BreakerTypeOK, ClosedBelowThreshold, Spent, breakerVars
<1>3. CASE \E c \in Callers : record_failure(c)
  BY <1>3, FailureKeeps
<1>4. CASE \E c \in Callers : record_success(c)
  BY <1>4, SuccessKeeps
<1>5. CASE Cool
  BY <1>5, CoolKeeps
<1>6. CASE Forget
  BY <1>6, ForgetKeeps
<1> QED BY <1>1, <1>2, <1>3, <1>4, <1>5, <1>6 DEF BreakerNext, Refuse

LEMMA SpentBoundsFailures == BreakerInv => FailuresBounded
<1> SUFFICES ASSUME BreakerInv PROVE FailuresBounded
  OBVIOUS
<1>1. /\ Cardinality(inflight) \in Nat /\ N \in Nat /\ coolings \in Nat
      /\ failure_count \in Nat /\ N * coolings \in Nat
      /\ N * (1 + coolings) = N * coolings + N
      /\ Cardinality(inflight) <= N
  BY InflightCount, Budget DEF BreakerInv, BreakerTypeOK
<1>2. failure_count + Cardinality(inflight) <= Threshold - 1 + N * (1 + coolings)
  <2>1. CASE state = "CLOSED"
    BY <1>1, <2>1, BreakerAssumption DEF BreakerInv, ClosedBelowThreshold
  <2>2. CASE state = "HALF_OPEN"
    BY <1>1, <2>2, BreakerAssumption DEF BreakerInv, Spent
  <2>3. CASE state = "OPEN"
    BY <1>1, <2>3, BreakerAssumption DEF BreakerInv, BreakerTypeOK, Spent
  <2> QED BY <2>1, <2>2, <2>3 DEF BreakerInv, BreakerTypeOK
<1> QED BY <1>2 DEF FailuresBounded, N

\* A breaker of any threshold, shared by any finite number of callers, lets a
\* failing provider be called at most Threshold - 1 plus once per caller and
\* recovery period; and it is CLOSED exactly below the threshold.
THEOREM BreakerBounds == BreakerSpec => [](FailuresBounded /\ ClosedBelowThreshold)
<1>1. BreakerInv => FailuresBounded /\ ClosedBelowThreshold
  BY SpentBoundsFailures DEF BreakerInv
<1> QED BY <1>1, BreakerInitially, BreakerStep, PTL DEF BreakerSpec

-----------------------------------------------------------------------------
(***************************************************************************)
(* Every step of the connect protocol is a breaker step or none.           *)
(***************************************************************************)
LEMMA ConnectStepsBreaker == [Next]_allVars => [BreakerNext]_breakerVars
<1> SUFFICES ASSUME [Next]_allVars PROVE [BreakerNext]_breakerVars
  OBVIOUS
<1>1. CASE \E f \in Flows : get_oauth_url(f)
  BY <1>1 DEF get_oauth_url, breakerVars
<1>2. CASE \E q \in Callers : Begin(q)
  BY <1>2 DEF Begin, oauth_callback, oauth_callback_invalid, disconnect_integration,
              disconnect_missing, breakerVars
<1>3. CASE \E q \in Callers : Call(q) \/ CallRefused(q)
  BY <1>3 DEF Call, CallRefused, BreakerNext
<1>4. CASE \E q \in Callers : CallSucceeds(q) \/ CallFails(q)
  BY <1>4 DEF CallSucceeds, CallFails, BreakerNext
<1>5. CASE \E q \in Callers : Wake(q) \/ SaveRead(q) \/ SaveWrite(q) \/ DisconnectWrite(q)
  BY <1>5 DEF Wake, SaveRead, SaveWrite, DisconnectWrite, breakerVars
<1>6. CASE Pass \/ Restart
  BY <1>6 DEF Pass, Restart, BreakerNext
<1>7. CASE UNCHANGED allVars
  BY <1>7 DEF allVars, breakerVars
<1> QED BY <1>1, <1>2, <1>3, <1>4, <1>5, <1>6, <1>7 DEF Next, Continue

\* The connect protocol, retries included, drives its breaker as BreakerSpec
\* allows: it never calls the provider around the breaker.
THEOREM ConnectUsesBreaker == Spec => BreakerSpec
<1>1. Init => BreakerInit
  BY DEF Init
<1> QED BY <1>1, ConnectStepsBreaker, PTL DEF Spec, BreakerSpec

\* The bound on failing calls holds of the requests, retries included.
THEOREM ConnectFailuresBounded == Spec => []FailuresBounded
BY ConnectUsesBreaker, BreakerBounds, PTL

\* So does the breaker's agreement with its failure count.
THEOREM ConnectClosedBelowThreshold == Spec => []ClosedBelowThreshold
BY ConnectUsesBreaker, BreakerBounds, PTL

-----------------------------------------------------------------------------
(***************************************************************************)
(* Types.  An action that changes one request changes at most its pc, its  *)
(* retries, its row and what it saw; the lemmas say this once.             *)
(***************************************************************************)
ConnectTypeOK ==
    /\ states \subseteq Flows
    /\ code \in [Flows -> {"none", "fresh", "spent"}]
    /\ req \in [Callers -> Request]
    /\ conn \in [Flows -> Row]
    /\ raced \in BOOLEAN
    /\ restarts \in 0 .. MaxRestarts

PCs == {"idle", "calling", "inflight", "sleeping", "reading", "writing"} \cup Ended

LEMMA GotoTyped ==
    ASSUME req \in [Callers -> Request], NEW q \in Callers, NEW pc \in PCs, goto(q, pc)
    PROVE  /\ req' \in [Callers -> Request]
           /\ \A p \in Callers : req'[p].flow = req[p].flow
           /\ \A p \in Callers : p # q => req'[p] = req[p]
           /\ req'[q].pc = pc
BY DEF goto, Request, PCs

LEMMA BegunTyped ==
    ASSUME NEW op \in {"connect", "disconnect"}, NEW f \in Flows \cup {None},
           NEW r \in Flows \cup {None}, NEW s \in Row
    PROVE  begun(op, f, r, s) \in Request
BY ConnectAssumption DEF Request, begun

LEMMA SawTyped ==
    ASSUME NEW old \in Request, NEW r \in Flows \cup {None}, NEW s \in Row
    PROVE  [old EXCEPT !.pc = "writing", !.row = r, !.seen = s] \in Request
BY DEF Request

LEMMA RowsSeen ==
    ASSUME conn \in [Flows -> Row]
    PROVE  /\ lookup \subseteq Flows \cup {None}
           /\ NoRow \in Row
           /\ \A r \in lookup : seenAs(r) \in Row
<1>1. NoRow \in Row
  BY DEF NoRow, Row
<1>2. lookup \subseteq Flows \cup {None}
  BY DEF lookup, rows
<1> QED BY <1>1, <1>2 DEF seenAs

LEMMA ChangedTyped ==
    ASSUME req \in [Callers -> Request], conn \in [Flows -> Row],
           NEW q \in Callers, req[q].row \in Flows,
           NEW s \in {"CONNECTED", "DISCONNECTED"}, NEW t \in Flows \cup {None}
    PROVE  /\ changed(q, s, t) \in Row
           /\ changed(q, s, t).token \in {t, conn[req[q].row].token}
BY DEF changed, Row

LEMMA InitTyped == Init => ConnectTypeOK
<1> SUFFICES ASSUME Init PROVE ConnectTypeOK
  OBVIOUS
<1>1. NoRow \in Row
  BY DEF NoRow, Row
<1>2. Idle \in Request
  BY ConnectAssumption DEF Idle, Request, NoRow, Row
<1>3. states \subseteq Flows /\ code \in [Flows -> {"none", "fresh", "spent"}]
  BY DEF Init
<1>4. req \in [Callers -> Request] /\ conn \in [Flows -> Row]
  BY <1>1, <1>2 DEF Init
<1>5. raced \in BOOLEAN /\ restarts \in 0 .. MaxRestarts
  <2>1. raced \in BOOLEAN
    BY DEF Init
  <2>2. restarts \in 0 .. MaxRestarts
    BY ConnectAssumption DEF Init
  <2> QED BY <2>1, <2>2
<1> QED BY <1>3, <1>4, <1>5 DEF ConnectTypeOK

LEMMA BeginKeepsTypes ==
    ASSUME ConnectTypeOK, NEW q \in Callers, Begin(q)
    PROVE  ConnectTypeOK'
<1> USE DEF ConnectTypeOK
<1>1. CASE \E f \in Flows : oauth_callback(q, f)
  <2> PICK f \in Flows : oauth_callback(q, f)
    BY <1>1
  <2>1. begun("connect", f, None, NoRow) \in Request
    BY BegunTyped, RowsSeen
  <2>2. req' \in [Callers -> Request]
    BY <2>1 DEF oauth_callback
  <2> QED BY <2>2 DEF oauth_callback
<1>2. CASE (\E f \in Flows : oauth_callback_invalid(q, f)) \/ disconnect_missing(q)
  <2>1. goto(q, "rejected")
    BY <1>2 DEF oauth_callback_invalid, disconnect_missing
  <2>2. req' \in [Callers -> Request]
    BY <2>1, GotoTyped DEF PCs, Ended
  <2> QED BY <1>2, <2>2 DEF oauth_callback_invalid, disconnect_missing
<1>3. CASE disconnect_integration(q)
  <2> PICK r \in rows : req' = [req EXCEPT ![q] = begun("disconnect", None, r, conn[r])]
    BY <1>3 DEF disconnect_integration
  <2>1. begun("disconnect", None, r, conn[r]) \in Request
    BY BegunTyped DEF rows
  <2>2. req' \in [Callers -> Request]
    BY <2>1
  <2> QED BY <1>3, <2>2 DEF disconnect_integration
<1> QED BY <1>1, <1>2, <1>3 DEF Begin

LEMMA CallKeepsTypes ==
    ASSUME ConnectTypeOK, NEW q \in Callers,
           Call(q) \/ CallRefused(q) \/ CallSucceeds(q) \/ CallFails(q) \/ Wake(q)
    PROVE  ConnectTypeOK'
<1> USE DEF ConnectTypeOK
<1>1. CASE Call(q) \/ CallRefused(q) \/ Wake(q)
  <2>1. goto(q, "inflight") \/ goto(q, afterFailure(q)) \/ goto(q, "calling")
    BY <1>1 DEF Call, CallRefused, Wake
  <2>2. req' \in [Callers -> Request]
    BY <2>1, GotoTyped DEF PCs, Ended, afterFailure
  <2> QED BY <1>1, <2>2 DEF Call, CallRefused, Wake
<1>2. CASE CallSucceeds(q)
  <2>1. goto(q, "reading") \/ goto(q, "writing")
    BY <1>2 DEF CallSucceeds
  <2>2. req' \in [Callers -> Request]
    BY <2>1, GotoTyped DEF PCs
  <2>3. code' \in [Flows -> {"none", "fresh", "spent"}]
    BY <1>2 DEF CallSucceeds
  <2> QED BY <1>2, <2>2, <2>3 DEF CallSucceeds
<1>3. CASE CallFails(q)
  <2>1. code' \in [Flows -> {"none", "fresh", "spent"}]
    BY <1>3 DEF CallFails
  <2>2. req' \in [Callers -> Request]
    <3>1. CASE req[q].retries < MaxRetries
      BY <1>3, <3>1, ConnectAssumption DEF CallFails, Request
    <3>2. CASE ~(req[q].retries < MaxRetries)
      BY <1>3, <3>2, GotoTyped DEF CallFails, goto, PCs, Ended, afterFailure
    <3> QED BY <3>1, <3>2
  <2> QED BY <1>3, <2>1, <2>2 DEF CallFails
<1> QED BY <1>1, <1>2, <1>3

LEMMA SaveKeepsTypes ==
    ASSUME ConnectTypeOK, NEW q \in Callers,
           SaveRead(q) \/ SaveWrite(q) \/ DisconnectWrite(q)
    PROVE  ConnectTypeOK'
<1> USE DEF ConnectTypeOK
<1>1. CASE SaveRead(q)
  <2> PICK r \in lookup : req' = [req EXCEPT ![q].pc = "writing", ![q].row = r,
                                             ![q].seen = seenAs(r)]
    BY <1>1 DEF SaveRead
  <2>1. r \in Flows \cup {None} /\ seenAs(r) \in Row
    BY RowsSeen
  <2>2. [req[q] EXCEPT !.pc = "writing", !.row = r, !.seen = seenAs(r)] \in Request
    BY <2>1, SawTyped
  <2>3. req' = [req EXCEPT ![q] = [req[q] EXCEPT !.pc = "writing", !.row = r,
                                                 !.seen = seenAs(r)]]
    OBVIOUS
  <2>4. req' \in [Callers -> Request]
    BY <2>2, <2>3
  <2> QED BY <1>1, <2>4 DEF SaveRead
<1>2. req[q].flow \in Flows \cup {None} /\ req[q].row \in Flows \cup {None}
  BY DEF Request
<1>3. CASE SaveWrite(q)
  <2>1. req' \in [Callers -> Request]
    BY <1>3, GotoTyped DEF SaveWrite, PCs, Ended
  <2>2. conn' \in [Flows -> Row]
    <3>1. CASE req[q].row = None
      BY <1>2, <1>3, <3>1 DEF SaveWrite, save, Row
    <3>2. CASE req[q].row # None
      <4>1. changed(q, "CONNECTED", req[q].flow) \in Row
        BY <1>2, <3>2, ChangedTyped
      <4> QED BY <1>3, <3>2, <4>1 DEF SaveWrite, save
    <3> QED BY <3>1, <3>2
  <2>3. raced' \in BOOLEAN
    BY <1>3 DEF SaveWrite, stale
  <2> QED BY <1>3, <2>1, <2>2, <2>3 DEF SaveWrite
<1>4. CASE DisconnectWrite(q)
  <2>1. req' \in [Callers -> Request]
    BY <1>4, GotoTyped DEF DisconnectWrite, PCs, Ended
  <2>2. conn' \in [Flows -> Row]
    <3>1. CASE req[q].row = None
      BY <1>4, <3>1, ConnectAssumption DEF DisconnectWrite
    <3>2. CASE req[q].row # None
      <4>1. changed(q, "DISCONNECTED", None) \in Row
        BY <1>2, <3>2, ChangedTyped
      <4> QED BY <1>4, <3>2, <4>1 DEF DisconnectWrite
    <3> QED BY <3>1, <3>2
  <2>3. raced' \in BOOLEAN
    BY <1>4 DEF DisconnectWrite, stale
  <2> QED BY <1>4, <2>1, <2>2, <2>3 DEF DisconnectWrite
<1> QED BY <1>1, <1>3, <1>4

LEMMA StepKeepsTypes == ConnectTypeOK /\ [Next]_allVars => ConnectTypeOK'
<1> SUFFICES ASSUME ConnectTypeOK, [Next]_allVars PROVE ConnectTypeOK'
  OBVIOUS
<1>1. CASE \E f \in Flows : get_oauth_url(f)
  BY <1>1 DEF get_oauth_url, ConnectTypeOK
<1>2. CASE \E q \in Callers : Begin(q)
  BY <1>2, BeginKeepsTypes
<1>3. CASE \E q \in Callers : Continue(q)
  BY <1>3, CallKeepsTypes, SaveKeepsTypes DEF Continue
<1>4. CASE Pass
  BY <1>4 DEF Pass, connectVars, ConnectTypeOK
<1>5. CASE Restart
  <2>1. req' \in [Callers -> Request]
    BY <1>5 DEF Restart, ConnectTypeOK, Request, Ended
  <2>2. restarts' \in 0 .. MaxRestarts
    BY <1>5, ConnectAssumption DEF Restart, ConnectTypeOK
  <2> QED BY <1>5, <2>1, <2>2 DEF Restart, ConnectTypeOK
<1>6. CASE UNCHANGED allVars
  BY <1>6 DEF allVars, connectVars, ConnectTypeOK
<1> QED BY <1>1, <1>2, <1>3, <1>4, <1>5, <1>6 DEF Next

\* Every reachable state of the connect protocol and its breaker is well typed.
THEOREM ConnectTypes == Spec => []TypeOK
<1>1. BreakerInv /\ ConnectTypeOK => TypeOK
  BY DEF BreakerInv, ConnectTypeOK, TypeOK
<1>2. Init => BreakerInv
  BY BreakerInitially DEF Init
<1>3. BreakerInv /\ [Next]_allVars => BreakerInv'
  BY BreakerStep, ConnectStepsBreaker
<1> QED BY <1>1, <1>2, <1>3, InitTyped, StepKeepsTypes, PTL DEF Spec

-----------------------------------------------------------------------------
(***************************************************************************)
(* One flow, one request, one row.  FlowUsedOnce speaks of a flow's request *)
(* and of its row; what ties them is that a stored token belongs to a      *)
(* request that is done (Kept), so a request still on its way to its write *)
(* brings a token no row has.                                              *)
(***************************************************************************)
Apart == \A p, q \in Callers : req[p].flow = req[q].flow /\ req[p].flow # None => p = q
Spoken ==
    \A q \in Callers :
        /\ req[q].flow \notin states
        /\ req[q].flow # None => code[req[q].flow] # "none"
Issued == \A f \in states : code[f] # "none"
Kept == \A r \in Flows : conn[r].token # None =>
          \E q \in Callers : req[q].flow = conn[r].token /\ req[q].pc = "done"
Distinct == \A r, s \in Flows : conn[r].token = conn[s].token /\ conn[r].token # None => r = s

FlowInv == ConnectTypeOK /\ Apart /\ Spoken /\ Issued /\ Kept /\ Distinct

\* A step that hands out no flow, forgets no code, ends no finished request
\* and writes no row.
Quiet ==
    /\ \A q \in Callers : req'[q].flow \in {req[q].flow, None}
    /\ \A q \in Callers : req[q].pc = "done" => req'[q] = req[q]
    /\ states' \subseteq states
    /\ \A f \in Flows : code[f] # "none" => code'[f] # "none"
    /\ conn' = conn

LEMMA QuietKeeps ==
    ASSUME FlowInv, Quiet, ConnectTypeOK'
    PROVE  FlowInv'
<1>1. Apart'
  BY DEF FlowInv, Apart, Quiet
<1>2. Spoken'
  <2> SUFFICES ASSUME NEW q \in Callers
               PROVE  /\ req'[q].flow \notin states'
                      /\ req'[q].flow # None => code'[req'[q].flow] # "none"
    BY DEF Spoken
  <2>1. CASE req'[q].flow = None
    BY <2>1, ConnectAssumption DEF ConnectTypeOK
  <2>2. CASE req'[q].flow # None
    <3>1. req'[q].flow = req[q].flow
      BY <2>2 DEF Quiet
    <3>2. req[q].flow \in Flows
      BY <2>2, <3>1 DEF FlowInv, ConnectTypeOK, Request
    <3>3. req[q].flow \notin states /\ code[req[q].flow] # "none"
      BY <2>2, <3>1 DEF FlowInv, Spoken
    <3> QED BY <3>1, <3>2, <3>3 DEF Quiet
  <2> QED BY <2>1, <2>2
<1>3. Kept'
  BY DEF FlowInv, Kept, Quiet
<1>4. Distinct'
  BY DEF FlowInv, Distinct, Quiet
<1>5. Issued'
  BY DEF FlowInv, ConnectTypeOK, Issued, Quiet
<1> QED BY <1>1, <1>2, <1>3, <1>4, <1>5 DEF FlowInv

\* What the non-writing moves of a single request have in common.
LEMMA MoveQuiet ==
    ASSUME ConnectTypeOK, NEW q \in Callers, NEW pc \in PCs,
           req[q].pc # "done", goto(q, pc), states' = states, conn' = conn,
           \A f \in Flows : code[f] # "none" => code'[f] # "none"
    PROVE  Quiet
BY GotoTyped DEF Quiet, ConnectTypeOK

LEMMA CallQuiet ==
    ASSUME ConnectTypeOK, NEW q \in Callers,
           Call(q) \/ CallRefused(q) \/ CallSucceeds(q) \/ CallFails(q) \/ Wake(q)
    PROVE  Quiet
<1>1. CASE Call(q) \/ CallRefused(q) \/ Wake(q)
  <2>1. goto(q, "inflight") \/ goto(q, afterFailure(q)) \/ goto(q, "calling")
    BY <1>1 DEF Call, CallRefused, Wake
  <2>2. req[q].pc # "done" /\ states' = states /\ conn' = conn /\ code' = code
    BY <1>1 DEF Call, CallRefused, Wake
  <2> QED BY <2>1, <2>2, MoveQuiet DEF afterFailure, PCs, Ended
<1>2. CASE CallSucceeds(q)
  <2>1. goto(q, "reading") \/ goto(q, "writing")
    BY <1>2 DEF CallSucceeds
  <2>2. req[q].pc # "done" /\ states' = states /\ conn' = conn
    BY <1>2 DEF CallSucceeds
  <2>3. \A f \in Flows : code[f] # "none" => code'[f] # "none"
    BY <1>2 DEF CallSucceeds, ConnectTypeOK
  <2> QED BY <2>1, <2>2, <2>3, MoveQuiet DEF PCs
<1>3. CASE CallFails(q)
  <2>1. req[q].pc # "done" /\ states' = states /\ conn' = conn
    BY <1>3 DEF CallFails
  <2>2. \A f \in Flows : code[f] # "none" => code'[f] # "none"
    BY <1>3 DEF CallFails
  <2>3. CASE req[q].retries < MaxRetries
    BY <1>3, <2>1, <2>2, <2>3 DEF CallFails, Quiet, ConnectTypeOK, Request
  <2>4. CASE ~(req[q].retries < MaxRetries)
    <3>1. goto(q, afterFailure(q))
      BY <1>3, <2>4 DEF CallFails, goto
    <3> QED BY <2>1, <2>2, <3>1, MoveQuiet DEF afterFailure, PCs, Ended
  <2> QED BY <2>3, <2>4
<1> QED BY <1>1, <1>2, <1>3

LEMMA UrlKeeps ==
    ASSUME FlowInv, NEW f \in Flows, get_oauth_url(f), ConnectTypeOK'
    PROVE  FlowInv'
<1> USE DEF FlowInv, get_oauth_url
<1>1. Apart' /\ Kept' /\ Distinct'
  BY DEF Apart, Kept, Distinct
<1>2. Spoken'
  BY ConnectAssumption DEF Spoken, ConnectTypeOK, Request
<1>3. Issued'
  BY DEF Issued, ConnectTypeOK
<1> QED BY <1>1, <1>2, <1>3

LEMMA CallbackKeeps ==
    ASSUME FlowInv, NEW q \in Callers, NEW f \in Flows, oauth_callback(q, f), ConnectTypeOK'
    PROVE  FlowInv'
<1>1. /\ req'[q].flow = f
      /\ \A p \in Callers \ {q} : req'[p] = req[p]
      /\ \A p \in Callers : req[p].pc = "done" => req'[p] = req[p]
      /\ f \in states /\ states' = states \ {f}
      /\ conn' = conn /\ code' = code
  BY DEF oauth_callback, begun, FlowInv, ConnectTypeOK
<1>2. \A p \in Callers : req[p].flow # f
  <2>1. \A p \in Callers : req[p].flow \notin states
    BY DEF FlowInv, Spoken
  <2>2. f \in states
    BY <1>1
  <2> QED BY <2>1, <2>2
<1>3. Apart'
  BY <1>1, <1>2 DEF FlowInv, Apart
<1>4. Spoken'
  <2>1. code[f] # "none"
    BY DEF oauth_callback, FlowInv, ConnectTypeOK, Issued
  <2> QED BY <1>1, <2>1 DEF FlowInv, Spoken
<1>5. Kept'
  BY <1>1 DEF FlowInv, Kept
<1>6. Distinct'
  BY <1>1 DEF FlowInv, Distinct
<1>7. Issued'
  BY <1>1 DEF FlowInv, Issued
<1> QED BY <1>3, <1>4, <1>5, <1>6, <1>7 DEF FlowInv

\* What a write does to the tokens: one row may take the writer's own.
LEMMA WriteTokens ==
    ASSUME ConnectTypeOK, NEW q \in Callers, SaveWrite(q) \/ DisconnectWrite(q)
    PROVE  /\ \A r \in Flows : conn'[r].token \in {req[q].flow, None, conn[r].token}
           /\ \A r, s \in Flows : r # s => conn'[r] = conn[r] \/ conn'[s] = conn[s]
<1>1. req[q].flow \in Flows \cup {None} /\ req[q].row \in Flows \cup {None}
  BY DEF ConnectTypeOK, Request
<1>2. CASE SaveWrite(q) /\ req[q].row = None
  BY <1>1, <1>2 DEF SaveWrite, save, ConnectTypeOK
<1>3. CASE SaveWrite(q) /\ req[q].row # None
  <2>1. changed(q, "CONNECTED", req[q].flow).token \in {req[q].flow, conn[req[q].row].token}
    BY <1>1, <1>3, ChangedTyped DEF ConnectTypeOK
  <2> QED BY <1>1, <1>3, <2>1 DEF SaveWrite, save, ConnectTypeOK
<1>4. CASE DisconnectWrite(q) /\ req[q].row = None
  BY <1>1, <1>4, ConnectAssumption DEF DisconnectWrite, ConnectTypeOK
<1>5. CASE DisconnectWrite(q) /\ req[q].row # None
  <2>1. changed(q, "DISCONNECTED", None).token \in {None, conn[req[q].row].token}
    BY <1>1, <1>5, ChangedTyped DEF ConnectTypeOK
  <2> QED BY <1>1, <1>5, <2>1 DEF DisconnectWrite, ConnectTypeOK
<1> QED BY <1>2, <1>3, <1>4, <1>5

LEMMA WriteKeeps ==
    ASSUME FlowInv, NEW q \in Callers, SaveWrite(q) \/ DisconnectWrite(q), ConnectTypeOK'
    PROVE  FlowInv'
<1>1. /\ \A r \in Flows : conn'[r].token \in {req[q].flow, None, conn[r].token}
      /\ \A r, s \in Flows : r # s => conn'[r] = conn[r] \/ conn'[s] = conn[s]
  BY WriteTokens DEF FlowInv
<1>2. /\ goto(q, "done") /\ req[q].pc = "writing"
      /\ states' = states /\ code' = code
  BY DEF SaveWrite, DisconnectWrite
<1>3. /\ \A p \in Callers : req'[p].flow = req[p].flow
      /\ \A p \in Callers : p # q => req'[p] = req[p]
      /\ req'[q].pc = "done"
  BY <1>2, GotoTyped DEF FlowInv, ConnectTypeOK, PCs, Ended
<1>4. Apart' /\ Spoken' /\ Issued'
  BY <1>2, <1>3 DEF FlowInv, Apart, Spoken, Issued
<1>5. Kept'
  <2> SUFFICES ASSUME NEW r \in Flows, conn'[r].token # None
               PROVE  \E p \in Callers : req'[p].flow = conn'[r].token /\ req'[p].pc = "done"
    BY DEF Kept
  <2>1. CASE conn'[r].token = conn[r].token
    <3> PICK p \in Callers : req[p].flow = conn[r].token /\ req[p].pc = "done"
      BY <2>1 DEF FlowInv, Kept
    <3> QED BY <1>2, <1>3, <2>1
  <2>2. CASE conn'[r].token = req[q].flow
    BY <1>3, <2>2
  <2> QED BY <1>1, <2>1, <2>2
<1>6. Distinct'
  <2>1. ASSUME NEW r \in Flows, conn[r].token = req[q].flow, req[q].flow # None
        PROVE  FALSE
    <3> PICK p \in Callers : req[p].flow = conn[r].token /\ req[p].pc = "done"
      BY <2>1 DEF FlowInv, Kept
    <3> QED BY <1>2, <2>1 DEF FlowInv, Apart
  <2> SUFFICES ASSUME NEW r \in Flows, NEW s \in Flows, r # s,
                      conn'[r].token = conn'[s].token, conn'[r].token # None
               PROVE  FALSE
    BY DEF Distinct
  <2>2. conn'[r] = conn[r] \/ conn'[s] = conn[s]
    BY <1>1
  <2>3. \A x \in {r, s} : conn'[x].token \in {req[q].flow, None, conn[x].token}
    BY <1>1
  <2>4. conn'[r].token # conn[r].token \/ conn'[s].token # conn[s].token
    BY DEF FlowInv, Distinct
  <2> QED BY <2>1, <2>2, <2>3, <2>4
<1> QED BY <1>4, <1>5, <1>6 DEF FlowInv

LEMMA FlowStep == FlowInv /\ [Next]_allVars => FlowInv'
<1> SUFFICES ASSUME FlowInv, [Next]_allVars PROVE FlowInv'
  OBVIOUS
<1>1. ConnectTypeOK /\ ConnectTypeOK'
  BY StepKeepsTypes DEF FlowInv
<1>2. CASE \E f \in Flows : get_oauth_url(f)
  BY <1>1, <1>2, UrlKeeps
<1>3. CASE \E q \in Callers, f \in Flows : oauth_callback(q, f)
  BY <1>1, <1>3, CallbackKeeps
<1>4. CASE \E q \in Callers, f \in Flows : oauth_callback_invalid(q, f)
  <2>1. Quiet
    BY <1>1, <1>4, MoveQuiet DEF oauth_callback_invalid, PCs, Ended
  <2> QED BY <1>1, <2>1, QuietKeeps
<1>5. CASE \E q \in Callers : disconnect_integration(q)
  <2>1. Quiet
    BY <1>1, <1>5 DEF disconnect_integration, begun, Quiet, ConnectTypeOK
  <2> QED BY <1>1, <2>1, QuietKeeps
<1>6. CASE \E q \in Callers : disconnect_missing(q)
  <2>1. Quiet
    BY <1>1, <1>6, MoveQuiet DEF disconnect_missing, PCs, Ended
  <2> QED BY <1>1, <2>1, QuietKeeps
<1>7. CASE \E q \in Callers : \/ Call(q) \/ CallRefused(q) \/ CallSucceeds(q)
                              \/ CallFails(q) \/ Wake(q)
  BY <1>1, <1>7, CallQuiet, QuietKeeps
<1>8. CASE \E q \in Callers : SaveRead(q)
  <2>1. Quiet
    BY <1>1, <1>8 DEF SaveRead, Quiet, ConnectTypeOK, Request
  <2> QED BY <1>1, <2>1, QuietKeeps
<1>9. CASE \E q \in Callers : SaveWrite(q) \/ DisconnectWrite(q)
  BY <1>1, <1>9, WriteKeeps
<1>10. CASE Pass \/ Restart \/ UNCHANGED allVars
  <2>1. Quiet
    BY <1>1, <1>10 DEF Pass, Restart, Quiet, allVars, connectVars, ConnectTypeOK, Ended, Request
  <2> QED BY <1>1, <2>1, QuietKeeps
<1> QED BY <1>2, <1>3, <1>4, <1>5, <1>6, <1>7, <1>8, <1>9, <1>10
        DEF Next, Begin, Continue

\* For any number of flows, requests, retries and restarts: one OAuth state
\* serves one request, and the token of a flow is in at most one row.
THEOREM OneRequestPerFlow == Spec => []FlowUsedOnce
<1>1. Init => FlowInv
  <2> SUFFICES ASSUME Init PROVE FlowInv
    OBVIOUS
  <2>1. \A q \in Callers : req[q].flow = None
    BY DEF Init, Idle
  <2>2. \A r \in Flows : conn[r].token = None
    BY DEF Init, NoRow
  <2> QED BY <2>1, <2>2, InitTyped, ConnectAssumption
          DEF Init, FlowInv, Apart, Spoken, Issued, Kept, Distinct
<1>2. FlowInv => FlowUsedOnce
  <2>1. FlowInv => \A q \in Callers : req[q].flow \notin states
    BY DEF FlowInv, Spoken
  <2>2. FlowInv => \A p, q \in Callers :
                      req[p].flow = req[q].flow /\ req[p].flow # None => p = q
    BY DEF FlowInv, Apart
  <2>3. FlowInv => \A r, s \in rows :
                      conn[r].token = conn[s].token /\ conn[r].token # None => r = s
    BY DEF FlowInv, Distinct, rows
  <2> QED BY <2>1, <2>2, <2>3 DEF FlowUsedOnce
<1> QED BY <1>1, <1>2, FlowStep, PTL DEF Spec

-----------------------------------------------------------------------------
(***************************************************************************)
(* One coherent row.  A write whose row is as it was read, the only kind   *)
(* there is before a race, makes a whole row of it, since a connect brings *)
(* a token and whoever has read a row has read one that exists (Held).     *)
(***************************************************************************)
Held ==
    \A q \in Callers : /\ req[q].op = "connect" => req[q].flow \in Flows
                       /\ req[q].row # None => req[q].seen # NoRow

Whole(row) == row.status = "CONNECTED" <=> row.token # None

Coherent ==
    ~raced => /\ \A r, s \in rows : r = s
              /\ \A r \in rows : Whole(conn[r])

RowsInv == ConnectTypeOK /\ Held /\ Coherent

\* A step after which every request holds what it held.
Holds == \A q \in Callers : /\ req'[q].op = req[q].op /\ req'[q].flow = req[q].flow
                            /\ req'[q].row = req[q].row /\ req'[q].seen = req[q].seen

LEMMA GotoHolds ==
    ASSUME ConnectTypeOK, NEW q \in Callers, NEW pc, goto(q, pc)
    PROVE  Holds
BY DEF ConnectTypeOK, goto, Request, Holds

LEMMA HoldsHeld == Held /\ Holds => Held'
BY DEF Held, Holds

LEMMA BeginHeld ==
    ASSUME ConnectTypeOK, Held, NEW q \in Callers, Begin(q)
    PROVE  Held'
<1>1. CASE \E f \in Flows : oauth_callback_invalid(q, f)
  BY <1>1, GotoHolds, HoldsHeld DEF oauth_callback_invalid
<1>2. CASE disconnect_missing(q)
  BY <1>2, GotoHolds, HoldsHeld DEF disconnect_missing
<1>3. ASSUME NEW f \in Flows, oauth_callback(q, f) PROVE Held'
  BY <1>3 DEF oauth_callback, begun, ConnectTypeOK, Held
<1>4. CASE disconnect_integration(q)
  BY <1>4 DEF disconnect_integration, begun, rows, ConnectTypeOK, Held
<1> QED BY <1>1, <1>2, <1>3, <1>4 DEF Begin

LEMMA CallHeld ==
    ASSUME ConnectTypeOK, Held, NEW q \in Callers, Continue(q)
    PROVE  Held'
<1>1. CASE Call(q) \/ CallRefused(q) \/ CallSucceeds(q) \/ Wake(q)
  BY <1>1, GotoHolds, HoldsHeld DEF Call, CallRefused, CallSucceeds, Wake
<1>2. CASE CallFails(q)
  <2>1. CASE req[q].retries < MaxRetries
    <3>1. Holds
      BY <1>2, <2>1 DEF CallFails, Holds, ConnectTypeOK, Request
    <3> QED BY <3>1, HoldsHeld
  <2>2. CASE ~(req[q].retries < MaxRetries)
    <3>1. goto(q, afterFailure(q))
      BY <1>2, <2>2 DEF CallFails, goto
    <3> QED BY <3>1, GotoHolds, HoldsHeld
  <2> QED BY <2>1, <2>2
<1>3. CASE SaveRead(q)
  <2>1. PICK r \in lookup :
          req' = [req EXCEPT ![q].pc = "writing", ![q].row = r, ![q].seen = seenAs(r)]
    BY <1>3 DEF SaveRead
  <2>2. r # None => seenAs(r) # NoRow
    BY DEF lookup, rows, seenAs
  <2>3. /\ req'[q].op = req[q].op /\ req'[q].flow = req[q].flow
        /\ req'[q].row = r /\ req'[q].seen = seenAs(r)
        /\ \A p \in Callers \ {q} : req'[p] = req[p]
    BY <2>1 DEF ConnectTypeOK, Request
  <2> QED BY <2>2, <2>3 DEF Held
<1>4. CASE SaveWrite(q) \/ DisconnectWrite(q)
  BY <1>4, GotoHolds, HoldsHeld DEF SaveWrite, DisconnectWrite
<1> QED BY <1>1, <1>2, <1>3, <1>4 DEF Continue

\* Writing to a row that is as it was read puts both columns there.
LEMMA FreshWrite ==
    ASSUME ConnectTypeOK, NEW q \in Callers, req[q].row \in Flows, ~stale(q),
           NEW s \in {"CONNECTED", "DISCONNECTED"}, NEW t \in Flows \cup {None}
    PROVE  changed(q, s, t) = [status |-> s, token |-> t]
<1>1. conn[req[q].row] = req[q].seen
  BY ConnectAssumption DEF stale
<1> QED BY <1>1 DEF changed

LEMMA WriteCoherent ==
    ASSUME RowsInv, NEW q \in Callers, SaveWrite(q) \/ DisconnectWrite(q)
    PROVE  Coherent'
<1> SUFFICES ASSUME ~raced' PROVE Coherent'
  BY DEF Coherent
<1>1. ~raced /\ ~stale(q)
  BY DEF SaveWrite, DisconnectWrite
<1>2. /\ req[q].row \in Flows \cup {None} /\ req[q].flow \in Flows \cup {None}
      /\ conn \in [Flows -> Row] /\ None \notin Flows
  BY ConnectAssumption DEF RowsInv, ConnectTypeOK, Request
<1>3. /\ \A r, s \in rows : r = s
      /\ \A r \in rows : Whole(conn[r])
  BY <1>1 DEF RowsInv, Coherent
<1>4. CASE req[q].row = None /\ SaveWrite(q)
  <2>1. req[q].flow \in Flows
    BY <1>4 DEF RowsInv, Held, SaveWrite
  <2>2. rows = {}
    BY <1>1, <1>4 DEF stale
  <2>3. conn' = [conn EXCEPT ![req[q].flow] = [status |-> "CONNECTED", token |-> req[q].flow]]
    BY <1>4 DEF SaveWrite, save
  <2>4. \A r \in Flows : r # req[q].flow => conn'[r] = NoRow
    BY <1>2, <2>2, <2>3 DEF rows
  <2>5. Whole(conn'[req[q].flow])
    BY <1>2, <2>1, <2>3 DEF Whole
  <2> QED BY <2>4, <2>5 DEF Coherent, rows, Whole
<1>5. CASE req[q].row = None /\ DisconnectWrite(q)
  <2>1. conn' = conn
    BY <1>2, <1>5 DEF DisconnectWrite
  <2> QED BY <1>3, <2>1 DEF Coherent, rows, Whole
<1>6. CASE req[q].row # None
  <2> DEFINE r == req[q].row
  <2>1. r \in rows
    <3>1. conn[r] = req[q].seen /\ req[q].seen # NoRow
      BY <1>1, <1>6 DEF stale, RowsInv, Held
    <3> QED BY <1>2, <1>6, <3>1 DEF rows
  <2>2. PICK new \in Row : conn' = [conn EXCEPT ![r] = new] /\ Whole(new)
    <3>1. CASE SaveWrite(q)
      <4>1. req[q].flow \in Flows
        BY <3>1 DEF RowsInv, Held, SaveWrite
      <4>2. changed(q, "CONNECTED", req[q].flow) = [status |-> "CONNECTED", token |-> req[q].flow]
        BY <1>1, <1>2, <1>6, <4>1, FreshWrite DEF RowsInv
      <4>3. conn' = [conn EXCEPT ![r] = [status |-> "CONNECTED", token |-> req[q].flow]]
        BY <1>6, <3>1, <4>2 DEF SaveWrite, save
      <4>4. LET new == [status |-> "CONNECTED", token |-> req[q].flow]
            IN  new \in Row /\ Whole(new)
        BY <1>2, <4>1 DEF Row, Whole
      <4> QED BY <4>3, <4>4
    <3>2. CASE DisconnectWrite(q)
      <4>1. changed(q, "DISCONNECTED", None) = [status |-> "DISCONNECTED", token |-> None]
        BY <1>1, <1>2, <1>6, FreshWrite DEF RowsInv
      <4>2. conn' = [conn EXCEPT ![r] = [status |-> "DISCONNECTED", token |-> None]]
        BY <3>2, <4>1 DEF DisconnectWrite
      <4>3. LET new == [status |-> "DISCONNECTED", token |-> None]
            IN  new \in Row /\ Whole(new)
        BY DEF Row, Whole
      <4> QED BY <4>2, <4>3
    <3> QED BY <3>1, <3>2
  <2>3. \A f \in Flows : conn'[f] = IF f = r THEN new ELSE conn[f]
    BY <1>2, <2>2
  <2>4. \A f \in Flows : conn'[f] # NoRow => f = r
    BY <1>3, <2>1, <2>3 DEF rows
  <2>5. \A f \in rows' : f = r /\ conn'[f] = new
    BY <2>3, <2>4 DEF rows
  <2> QED BY <2>2, <2>5 DEF Coherent, Whole
<1> QED BY <1>4, <1>5, <1>6

LEMMA RowsStep == RowsInv /\ [Next]_allVars => RowsInv'
<1> SUFFICES ASSUME RowsInv, [Next]_allVars PROVE RowsInv'
  OBVIOUS
<1>1. ConnectTypeOK /\ ConnectTypeOK'
  BY StepKeepsTypes DEF RowsInv
<1>2. Held'
  <2>1. CASE \E f \in Flows : get_oauth_url(f)
    BY <2>1 DEF get_oauth_url, RowsInv, Held
  <2>2. CASE \E q \in Callers : Begin(q) \/ Continue(q)
    BY <2>2, BeginHeld, CallHeld DEF RowsInv
  <2>3. CASE Restart
    <3>1. Holds
      BY <1>1, <2>3 DEF Restart, Holds, ConnectTypeOK, Request
    <3> QED BY <3>1, HoldsHeld DEF RowsInv
  <2>4. CASE Pass \/ UNCHANGED allVars
    BY <2>4 DEF Pass, allVars, connectVars, RowsInv, Held
  <2> QED BY <2>1, <2>2, <2>3, <2>4 DEF Next
<1>3. Coherent'
  <2>1. CASE \E q \in Callers : SaveWrite(q) \/ DisconnectWrite(q)
    BY <2>1, WriteCoherent
  <2>2. CASE UNCHANGED <<conn, raced>>
    BY <2>2 DEF RowsInv, Coherent, rows
  <2>3. CASE \E f \in Flows : get_oauth_url(f)
    BY <2>2, <2>3 DEF get_oauth_url
  <2>4. CASE \E q \in Callers : Begin(q)
    BY <2>2, <2>4 DEF Begin, oauth_callback, oauth_callback_invalid,
                      disconnect_integration, disconnect_missing
  <2>5. CASE \E q \in Callers : Continue(q)
    BY <2>1, <2>2, <2>5 DEF Continue, Call, CallRefused, CallSucceeds, CallFails, Wake, SaveRead
  <2>6. CASE Pass \/ Restart \/ UNCHANGED allVars
    BY <2>2, <2>6 DEF Pass, Restart, allVars, connectVars
  <2> QED BY <2>3, <2>4, <2>5, <2>6 DEF Next
<1> QED BY <1>1, <1>2, <1>3 DEF RowsInv

\* For any number of requests, flows, retries and restarts: until a row changes
\* between a request's read and its write there is one row, whole.
THEOREM RowsStayCoherent == Spec => []RowsCoherent
<1>1. Init => RowsInv
  <2> SUFFICES ASSUME Init PROVE RowsInv
    OBVIOUS
  <2>1. Held
    BY DEF Init, Idle, Held
  <2>2. rows = {}
    BY DEF Init, rows
  <2> QED BY <2>1, <2>2, InitTyped DEF RowsInv, Coherent
<1>2. ASSUME RowsInv PROVE RowsCoherent
  <2> SUFFICES ASSUME ~raced
               PROVE  /\ Cardinality(rows) <= 1
                      /\ \A r \in rows : conn[r].status = "CONNECTED" <=> conn[r].token # None
    BY DEF RowsCoherent
  <2>1. (\A r, s \in rows : r = s) /\ \A r \in rows : Whole(conn[r])
    BY <1>2 DEF RowsInv, Coherent
  <2>2. CASE rows = {}
    <3>1. Cardinality(rows) = 0
      BY <2>2, FS_EmptySet
    <3> QED BY <2>1, <3>1 DEF Whole
  <2>3. CASE rows # {}
    <3>1. PICK r : rows = {r}
      BY <2>1, <2>3
    <3>2. Cardinality(rows) = 1
      BY <3>1, FS_Singleton
    <3> QED BY <2>1, <3>2 DEF Whole
  <2> QED BY <2>2, <2>3
<1> QED BY <1>1, <1>2, RowsStep, PTL DEF Spec

-----------------------------------------------------------------------------
(***************************************************************************)
(* Progress.  left counts down to zero whatever Continue does; liveness    *)
(* itself, which also needs that Continue can go on, is for TLC.           *)
(***************************************************************************)
\* What left is at each place, in numbers.
LEMMA LeftIs ==
    ASSUME NEW r \in Request
    PROVE  /\ r.retries \in Nat /\ r.retries <= MaxRetries /\ MaxRetries \in Nat
           /\ r.pc = "sleeping" => left(r) = 3 * (MaxRetries - r.retries) + 5
           /\ r.pc = "calling" => left(r) = 3 * (MaxRetries - r.retries) + 4
           /\ r.pc = "inflight" => left(r) = 3 * (MaxRetries - r.retries) + 3
           /\ r.pc = "reading" => left(r) = 2
           /\ r.pc = "writing" => left(r) = 1
           /\ r.pc \in Ended \cup {"idle"} => left(r) = 0
BY ConnectAssumption DEF Request, left, Ended

\* left is never negative, and zero exactly for a request that has not begun or
\* has ended.
LEMMA LeftBounds ==
    ASSUME NEW r \in Request
    PROVE  /\ left(r) \in Nat
           /\ left(r) = 0 <=> r.pc \in Ended \cup {"idle"}
<1>1. r.pc \in {"idle", "calling", "inflight", "sleeping", "reading", "writing"} \cup Ended
  BY DEF Request
<1>2. 3 * (MaxRetries - r.retries) \in Nat
  BY LeftIs
<1> QED BY <1>1, <1>2, LeftIs DEF Ended

\* A call that failed is tried again or given up, and either is nearer the end.
LEMMA FailureAdvances ==
    ASSUME ConnectTypeOK, NEW q \in Callers, CallFails(q)
    PROVE  /\ \A p \in Callers \ {q} : req'[p] = req[p]
           /\ left(req'[q]) < left(req[q])
<1>1. req \in [Callers -> Request] /\ req[q] \in Request /\ req[q].pc = "inflight"
  BY DEF ConnectTypeOK, CallFails
<1>2. req'[q] \in Request
  BY CallKeepsTypes DEF ConnectTypeOK
<1>3. CASE req[q].retries < MaxRetries
  <2>1. req' = [req EXCEPT ![q].pc = "sleeping", ![q].retries = @ + 1]
    BY <1>3 DEF CallFails
  <2>2. req'[q].pc = "sleeping" /\ req'[q].retries = req[q].retries + 1
    BY <1>1, <2>1 DEF Request
  <2>3. left(req'[q]) = 3 * (MaxRetries - (req[q].retries + 1)) + 5
    BY <1>2, <2>2, LeftIs
  <2>4. left(req[q]) = 3 * (MaxRetries - req[q].retries) + 3
    BY <1>1, LeftIs
  <2>5. req[q].retries \in Nat /\ MaxRetries \in Nat
    BY <1>1, LeftIs
  <2> QED BY <1>1, <2>1, <2>3, <2>4, <2>5
<1>4. CASE ~(req[q].retries < MaxRetries)
  <2>1. goto(q, afterFailure(q))
    BY <1>4 DEF CallFails, goto
  <2>2. req'[q].pc \in {"failed", "writing"} /\ \A p \in Callers \ {q} : req'[p] = req[p]
    BY <1>1, <2>1, GotoTyped DEF afterFailure, PCs, Ended
  <2>3. left(req'[q]) <= 1
    BY <1>2, <2>2, LeftIs DEF Ended
  <2>4. left(req[q]) >= 3 /\ left(req[q]) \in Nat /\ left(req'[q]) \in Nat
    BY <1>1, <1>2, LeftIs, LeftBounds
  <2> QED BY <2>2, <2>3, <2>4
<1> QED BY <1>3, <1>4

\* Every other step of a request goes to a later place and keeps its retries.
LEMMA ContinueAdvances ==
    ASSUME ConnectTypeOK, NEW q \in Callers, Continue(q)
    PROVE  /\ \A p \in Callers \ {q} : req'[p] = req[p]
           /\ left(req'[q]) < left(req[q])
<1>1. req \in [Callers -> Request] /\ req[q] \in Request
  BY DEF ConnectTypeOK
<1>2. ConnectTypeOK'
  BY CallKeepsTypes, SaveKeepsTypes DEF Continue
<1>3. req'[q] \in Request
  BY <1>2 DEF ConnectTypeOK
<1>4. left(req[q]) \in Nat /\ left(req'[q]) \in Nat
  BY <1>1, <1>3, LeftBounds
<1>5. CASE Call(q) \/ Wake(q)
  <2>1. /\ \/ req[q].pc = "calling" /\ req'[q].pc = "inflight"
           \/ req[q].pc = "sleeping" /\ req'[q].pc = "calling"
        /\ req'[q].retries = req[q].retries
        /\ \A p \in Callers \ {q} : req'[p] = req[p]
    BY <1>1, <1>5 DEF Call, Wake, goto, Request
  <2> QED BY <1>1, <1>3, <2>1, LeftIs
<1>6. CASE CallRefused(q) \/ CallSucceeds(q)
  <2>1. /\ \/ req[q].pc = "calling" /\ req'[q].pc \in {"failed", "writing"}
           \/ req[q].pc = "inflight" /\ req'[q].pc \in {"reading", "writing"}
        /\ \A p \in Callers \ {q} : req'[p] = req[p]
    BY <1>1, <1>6 DEF CallRefused, CallSucceeds, goto, afterFailure, Request
  <2>2. left(req[q]) >= 3
    BY <1>1, <2>1, LeftIs
  <2>3. left(req'[q]) <= 2
    BY <1>3, <2>1, LeftIs DEF Ended
  <2> QED BY <1>4, <2>1, <2>2, <2>3
<1>7. CASE SaveRead(q) \/ SaveWrite(q) \/ DisconnectWrite(q)
  <2>1. /\ \/ req[q].pc = "reading" /\ req'[q].pc = "writing"
           \/ req[q].pc = "writing" /\ req'[q].pc = "done"
        /\ \A p \in Callers \ {q} : req'[p] = req[p]
    BY <1>1, <1>7 DEF SaveRead, SaveWrite, DisconnectWrite, goto, Request
  <2> QED BY <1>1, <1>3, <2>1, LeftIs DEF Ended
<1> QED BY <1>5, <1>6, <1>7, FailureAdvances DEF Continue

\* What becomes of a request that has begun.
Nearer == \A q \in Callers :
    req[q].pc # "idle" => req'[q] = req[q] \/ left(req'[q]) < left(req[q])

LEMMA StepAdvances == ConnectTypeOK /\ [Next]_allVars => Nearer
<1> SUFFICES ASSUME ConnectTypeOK, [Next]_allVars PROVE Nearer
  OBVIOUS
<1>1. req \in [Callers -> Request]
  BY DEF ConnectTypeOK
<1>2. CASE UNCHANGED req
  BY <1>2 DEF Nearer
<1>3. CASE \E q \in Callers : Begin(q)
  BY <1>1, <1>3 DEF Begin, oauth_callback, oauth_callback_invalid, disconnect_integration,
                    disconnect_missing, goto, Nearer
<1>4. CASE \E q \in Callers : Continue(q)
  BY <1>4, ContinueAdvances DEF Nearer
<1>5. CASE Restart
  <2> SUFFICES ASSUME NEW q \in Callers, req'[q] # req[q]
               PROVE  left(req'[q]) < left(req[q])
    BY DEF Nearer
  <2>1. req[q] \in Request /\ req'[q] \in Request
    BY <1>1, StepKeepsTypes DEF ConnectTypeOK
  <2>2. req[q].pc \notin Ended \cup {"idle"} /\ req'[q].pc = "lost"
    BY <1>5, <2>1 DEF Restart, Request
  <2>3. left(req[q]) \in Nat /\ left(req[q]) # 0
    BY <2>1, <2>2, LeftBounds
  <2>4. left(req'[q]) = 0
    BY <2>1, <2>2, LeftIs DEF Ended
  <2> QED BY <2>3, <2>4
<1> QED
  BY <1>2, <1>3, <1>4, <1>5 DEF Next, get_oauth_url, Pass, connectVars, allVars

\* For any number of requests, flows, retries and restarts, each step of a
\* request uses up one of the steps it has: the retry loop cannot run on.
THEOREM RequestsComeNearer == Spec => RequestsAdvance
<1>1. Init => ConnectTypeOK
  BY InitTyped
<1>2. ConnectTypeOK /\ [Next]_allVars => [Nearer]_allVars
  BY StepAdvances
<1>3. Spec => [][Nearer]_allVars
  BY <1>1, <1>2, StepKeepsTypes, PTL DEF Spec
<1> QED BY <1>3 DEF RequestsAdvance, Nearer

=============================================================================
