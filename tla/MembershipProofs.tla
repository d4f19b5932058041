-------------------------- MODULE MembershipProofs --------------------------
(***************************************************************************)
(* Proofs about Membership, for any users, requests, roles and operations. *)
(* OwnerRemains is not inductive: a request counts the owners first and    *)
(* writes later.  What it has counted stays true for as long as no other   *)
(* request commits, that is while it is not in dirty (Current, Spared).    *)
(* With the same of what it has authorized (Allowed), the steps of such a  *)
(* request are one step of Team.                                           *)
(***************************************************************************)
EXTENDS Membership, FiniteSetTheorems, TLAPS

\* What was asked of a request in progress.
Asked(q) ==
    req[q].pc # "idle" =>
        /\ req[q].op \in Ops
        /\ req[q].actor \in Users /\ req[q].target \in Users
        /\ req[q].op \in {"change_role", "transfer"} => req[q].role \in Roles
        /\ req[q].pc = "checking" => protecting(req[q].op)
        /\ req[q].op = "transfer" =>
              /\ req[q].row.status = "ACTIVE" /\ ~req[q].row.deleted

\* What its session has loaded is what the rows hold.
Current(q) ==
    req[q].pc # "idle" /\ q \notin dirty =>
        /\ req[q].row = member[req[q].target]
        /\ req[q].myRole # "none" => req[q].myRole = member[req[q].actor].role

\* It has seen another owner than the one it is about to take away.
Spared(q) ==
    /\ req[q].pc = "writing" /\ q \notin dirty /\ protecting(req[q].op)
    /\ activeOwner(req[q].row)
    => \E v \in Users \ {req[q].target} : activeOwner(member[v])

IInv ==
    /\ MemberTypeOK
    /\ OwnerRemains
    /\ \A q \in Requests : Asked(q) /\ Current(q) /\ Spared(q)

-----------------------------------------------------------------------------
LEMMA InitIInv == Init => IInv
<1> SUFFICES ASSUME Init PROVE IInv
  OBVIOUS
<1>1. PICK founder \in Users :
        /\ owner = founder
        /\ \E others \in [Users \ {founder} -> Roles] :
              member = [u \in Users |-> IF u = founder THEN joined("Owner")
                                        ELSE joined(others[u])]
  BY DEF Init
<1>2. PICK others \in [Users \ {founder} -> Roles] :
        member = [u \in Users |-> IF u = founder THEN joined("Owner")
                                  ELSE joined(others[u])]
  BY <1>1
<1>3. ASSUME NEW r \in Roles
      PROVE  joined(r) \in Member /\ joined(r).status = "ACTIVE"
             /\ ~joined(r).deleted /\ joined(r).role = r
  BY DEF joined, Member
<1>4. "Owner" \in Roles
  BY MembershipAssumption
<1>5. member \in [Users -> Member] /\ \A u \in Users : member[u].status = "ACTIVE"
  BY <1>2, <1>3, <1>4
<1>6. activeOwner(member[founder])
  BY <1>2, <1>3, <1>4 DEF activeOwner
<1>7. Idle \in Request /\ Idle.pc = "idle"
  BY <1>4 DEF Idle, Request, NoMember, Member
<1>8. MemberTypeOK
  BY <1>1, <1>5, <1>7 DEF Init, MemberTypeOK
<1>9. ASSUME NEW q \in Requests PROVE Asked(q) /\ Current(q) /\ Spared(q)
  BY <1>7 DEF Init, Asked, Current, Spared
<1> QED
  BY <1>6, <1>8, <1>9 DEF IInv, OwnerRemains

\* A request others leave alone, while no row changes and it grows no dirtier.
LEMMA OtherKeeps ==
    ASSUME NEW p \in Requests, Asked(p), Current(p), Spared(p),
           req'[p] = req[p], member' = member, p \in dirty => p \in dirty'
    PROVE  Asked(p)' /\ Current(p)' /\ Spared(p)'
  BY DEF Asked, Current, Spared

-----------------------------------------------------------------------------
LEMMA BeginKeeps == ASSUME IInv, NEW q \in Requests, Begin(q) PROVE IInv'
<1>1. PICK op \in Ops, a \in Users, u \in Users, r \in Roles \cup {"none"} :
        /\ canAct(a)
        /\ applicable(op, a, u, r)
        /\ op \in {"change_role", "transfer"} <=> r # "none"
        /\ req' = [req EXCEPT ![q] =
              [pc |-> IF protecting(op) THEN "checking" ELSE "writing",
               op |-> op, actor |-> a, target |-> u, role |-> r,
               byOwner |-> owner = a,
               myRole |-> IF visible(a) THEN member[a].role ELSE "none",
               row |-> member[u]]]
  BY Zenon DEF Begin
<1> DEFINE new == [pc |-> IF protecting(op) THEN "checking" ELSE "writing",
                   op |-> op, actor |-> a, target |-> u, role |-> r,
                   byOwner |-> owner = a,
                   myRole |-> IF visible(a) THEN member[a].role ELSE "none",
                   row |-> member[u]]
<1>2. UNCHANGED <<member, owner, closed, dirty, excuses>>
  BY DEF Begin
<1>3. MemberTypeOK
  BY DEF IInv
<1>4. member[u] \in Member /\ member[a] \in Member
  BY <1>3 DEF MemberTypeOK
<1>5. new \in Request
  <2>1. (IF visible(a) THEN member[a].role ELSE "none") \in Roles \cup {"none"}
    BY <1>4 DEF Member
  <2>2. (owner = a) \in BOOLEAN
    OBVIOUS
  <2>3. (IF protecting(op) THEN "checking" ELSE "writing") \in {"idle", "checking", "writing"}
    OBVIOUS
  <2> QED
    BY <1>4, <2>1, <2>2, <2>3 DEF Request
<1>6. new.pc = (IF protecting(op) THEN "checking" ELSE "writing")
      /\ new.op = op /\ new.actor = a /\ new.target = u
      /\ new.role = r /\ new.row = member[u]
      /\ (new.myRole # "none" => new.myRole = member[a].role)
  OBVIOUS
<1>7. req' = [req EXCEPT ![q] = new]
  BY <1>1
<1> HIDE DEF new
<1>8. MemberTypeOK'
  BY <1>2, <1>3, <1>5, <1>7 DEF MemberTypeOK
<1>9. OwnerRemains'
  BY <1>2 DEF IInv, OwnerRemains
<1>10. req'[q] = new /\ \A p \in Requests : p # q => req'[p] = req[p]
  BY <1>3, <1>7 DEF MemberTypeOK
<1>11. op = "transfer" => member[u].status = "ACTIVE" /\ ~member[u].deleted
  BY <1>1 DEF applicable, visible
<1>12. Asked(q)' /\ Current(q)' /\ Spared(q)'
  <2>1. Asked(q)'
    BY <1>1, <1>6, <1>10, <1>11 DEF Asked, protecting
  <2>2. Current(q)'
    BY <1>2, <1>6, <1>10 DEF Current
  <2>3. Spared(q)'
    BY <1>6, <1>10 DEF Spared
  <2> QED
    BY <2>1, <2>2, <2>3
<1>13. ASSUME NEW p \in Requests, p # q PROVE Asked(p)' /\ Current(p)' /\ Spared(p)'
  BY <1>2, <1>10, <1>13, OtherKeeps DEF IInv
<1> QED
  BY <1>8, <1>9, <1>12, <1>13 DEF IInv

\* Counted while nobody commits, the owners are those of the rows.
LEMMA CountedOwners ==
    ASSUME IInv, NEW q \in Requests, req[q].pc # "idle", q \notin dirty,
           NEW held \in BOOLEAN
    PROVE  active_owners(q, held) = {u \in Users : activeOwner(member[u])}
<1>1. ASSUME NEW u \in Users PROVE roleSeen(q, held, u) = member[u].role
  BY DEF IInv, Current, roleSeen
<1> QED
  BY <1>1 DEF active_owners, activeOwner, visible

LEMMA CheckKeeps == ASSUME IInv, NEW q \in Requests, Check(q) PROVE IInv'
<1>1. MemberTypeOK /\ Asked(q) /\ Current(q)
  BY DEF IInv
<1>0. PICK held \in BOOLEAN : protect_owner_role(q, held)
  BY DEF Check
<1>2. UNCHANGED <<member, owner, closed, dirty, excuses>> /\ req[q].pc = "checking"
      /\ req' = [req EXCEPT ![q].pc = "writing"]
  BY DEF Check
<1>3. MemberTypeOK'
  <2>1. req[q] \in Request
    BY <1>1 DEF MemberTypeOK
  <2>2. [req[q] EXCEPT !.pc = "writing"] \in Request
    BY <2>1 DEF Request
  <2>3. req' = [req EXCEPT ![q] = [req[q] EXCEPT !.pc = "writing"]]
    BY <1>2
  <2> QED
    BY <1>1, <1>2, <2>2, <2>3 DEF MemberTypeOK
<1>4. /\ req'[q].pc = "writing" /\ req'[q].op = req[q].op
      /\ req'[q].actor = req[q].actor /\ req'[q].target = req[q].target
      /\ req'[q].role = req[q].role /\ req'[q].row = req[q].row
      /\ req'[q].myRole = req[q].myRole
      /\ \A p \in Requests : p # q => req'[p] = req[p]
  BY <1>1, <1>2 DEF MemberTypeOK, Request
<1>5. OwnerRemains'
  BY <1>2 DEF IInv, OwnerRemains
<1>6. Asked(q)' /\ Current(q)'
  BY <1>1, <1>2, <1>4 DEF Asked, Current
<1>7. Spared(q)'
  <2>1. SUFFICES ASSUME q \notin dirty, activeOwner(req[q].row)
                 PROVE  \E v \in Users \ {req[q].target} : activeOwner(member[v])
    BY <1>2, <1>4 DEF Spared
  <2> DEFINE S == {u \in Users : activeOwner(member[u])}
             t == req[q].target
  <2>2. Cardinality(S) > 1
    BY <1>0, <1>2, <2>1, CountedOwners DEF protect_owner_role
  <2>3. t \in S
    BY <1>1, <1>2, <2>1 DEF Current, Asked
  <2> HIDE DEF S, t
  <2>4. S # {t}
    <3>1. Cardinality({t}) = 1
      BY FS_Singleton
    <3> QED
      BY <2>2, <3>1
  <2>5. PICK v \in S : v # t
    BY <2>3, <2>4
  <2> QED
    BY <2>5 DEF S, t
<1>8. ASSUME NEW p \in Requests, p # q PROVE Asked(p)' /\ Current(p)' /\ Spared(p)'
  BY <1>2, <1>4, <1>8, OtherKeeps DEF IInv
<1> QED
  BY <1>3, <1>5, <1>6, <1>7, <1>8 DEF IInv

\* The end of a request: it is idle, and the others in progress are dirty if
\* rows have changed.
LEMMA Ended ==
    ASSUME MemberTypeOK, NEW q \in Requests, req' = [req EXCEPT ![q] = Idle]
    PROVE  /\ req' \in [Requests -> Request]
           /\ Asked(q)' /\ Current(q)' /\ Spared(q)'
           /\ \A p \in Requests : p # q => req'[p] = req[p]
<1>1. Idle \in Request /\ Idle.pc = "idle"
  BY MembershipAssumption DEF Idle, Request, NoMember, Member
<1>2. req'[q] = Idle /\ \A p \in Requests : p # q => req'[p] = req[p]
  BY DEF MemberTypeOK
<1>3. req' \in [Requests -> Request]
  BY <1>1 DEF MemberTypeOK
<1> QED
  BY <1>1, <1>2, <1>3 DEF Asked, Current, Spared

LEMMA CheckFailsKeeps == ASSUME IInv, NEW q \in Requests, CheckFails(q) PROVE IInv'
<1>1. UNCHANGED <<member, owner, closed, excuses>> /\ dirty' = dirty \ {q}
      /\ req' = [req EXCEPT ![q] = Idle]
  BY DEF CheckFails
<1>2. MemberTypeOK'
  BY <1>1, Ended DEF IInv, MemberTypeOK
<1>3. OwnerRemains'
  BY <1>1 DEF IInv, OwnerRemains
<1>4. ASSUME NEW p \in Requests PROVE Asked(p)' /\ Current(p)' /\ Spared(p)'
  <2>1. CASE p = q
    BY <1>1, <2>1, Ended DEF IInv
  <2>2. CASE p # q
    BY <1>1, <2>2, Ended, OtherKeeps DEF IInv
  <2> QED
    BY <2>1, <2>2
<1> QED
  BY <1>2, <1>3, <1>4 DEF IInv

LEMMA Committed ==
    ASSUME IInv, NEW q \in Requests, commit(q)
    PROVE  /\ req' \in [Requests -> Request] /\ dirty' \subseteq Requests
           /\ \A p \in Requests : Asked(p)' /\ Current(p)' /\ Spared(p)'
<1>1. req' = [req EXCEPT ![q] = Idle]
      /\ dirty' = {p \in Requests \ {q} : req[p].pc # "idle"}
  BY DEF commit
<1>2. MemberTypeOK
  BY DEF IInv
<1>3. ASSUME NEW p \in Requests PROVE Asked(p)' /\ Current(p)' /\ Spared(p)'
  <2>1. CASE p = q
    BY <1>1, <1>2, <2>1, Ended
  <2>2. CASE p # q
    <3>1. req'[p] = req[p] /\ (p \in dirty' \/ req'[p].pc = "idle") /\ Asked(p)
      BY <1>1, <1>2, <2>2, Ended DEF IInv
    <3> QED
      BY <3>1 DEF Asked, Current, Spared
  <2> QED
    BY <2>1, <2>2
<1> QED
  BY <1>1, <1>2, <1>3, Ended

-----------------------------------------------------------------------------
\* The row of the target after a change to it, and the rows of the others.
LEMMA Updated ==
    ASSUME IInv, NEW q \in Requests, WriteMember(q)
    PROVE  /\ member' \in [Users -> Member]
           /\ \A u \in Users : member'[u].status = "REMOVED" => member'[u].deleted
           /\ \A u \in Users : u # req[q].target => member'[u] = member[u]
           /\ req[q].op = "reactivate" /\ activeOwner(member[req[q].target])
                 => activeOwner(member'[req[q].target])
<1> DEFINE t == req[q].target
<1>1. Asked(q) /\ MemberTypeOK /\ req[q].pc = "writing" /\ member' = updated(q)
      /\ req[q].op \in {"change_role", "suspend", "reactivate", "remove"}
  BY DEF IInv, WriteMember
<1>2. t \in Users /\ member[t] \in Member /\ member \in [Users -> Member]
      /\ \A u \in Users : member[u].status = "REMOVED" => member[u].deleted
  BY <1>1 DEF Asked, MemberTypeOK
<1>3. CASE req[q].op = "change_role"
  <2>1. member' = [member EXCEPT ![t].role = req[q].role] /\ req[q].role \in Roles
    BY <1>1, <1>3 DEF updated, Asked
  <2> QED
    BY <1>2, <1>3, <2>1 DEF Member
<1>4. CASE req[q].op = "suspend"
  <2>1. member' = [member EXCEPT ![t].status = "SUSPENDED"]
    BY <1>1, <1>4 DEF updated
  <2> QED
    BY <1>2, <1>4, <2>1 DEF Member
<1>5. CASE req[q].op = "reactivate"
  <2>1. member' = [member EXCEPT ![t].status = "ACTIVE"]
    BY <1>1, <1>5 DEF updated
  <2> QED
    BY <1>2, <1>5, <2>1 DEF Member, activeOwner
<1>6. CASE req[q].op = "remove"
  <2>1. member' = [member EXCEPT ![t].status = "REMOVED", ![t].deleted = TRUE]
    BY <1>1, <1>6 DEF updated
  <2> QED
    BY <1>2, <1>6, <2>1 DEF Member
<1> QED
  BY <1>1, <1>3, <1>4, <1>5, <1>6

LEMMA WriteMemberKeeps == ASSUME IInv, NEW q \in Requests, WriteMember(q) PROVE IInv'
<1>1. Asked(q) /\ Current(q) /\ Spared(q) /\ MemberTypeOK /\ OwnerRemains
  BY DEF IInv
<1>2. req[q].pc = "writing" /\ commit(q) /\ UNCHANGED <<owner, closed>>
      /\ excuses' = excuses \cup overlap(q)
      /\ req[q].op \in {"change_role", "suspend", "reactivate", "remove"}
  BY DEF WriteMember
<1>3. MemberTypeOK'
  BY <1>1, <1>2, Updated, Committed DEF MemberTypeOK, overlap
<1>4. OwnerRemains'
  <2>1. SUFFICES ASSUME excuses' = {} PROVE \E u \in Users : activeOwner(member'[u])
    BY DEF OwnerRemains, activeOwner
  <2>2. excuses = {} /\ q \notin dirty
    BY <1>2, <2>1 DEF overlap
  <2>3. PICK w \in Users : activeOwner(member[w])
    BY <1>1, <2>2 DEF OwnerRemains
  <2> DEFINE t == req[q].target
  <2>4. \A u \in Users : u # t => member'[u] = member[u]
    BY Updated
  <2>5. CASE w # t
    BY <2>3, <2>4, <2>5
  <2>6. CASE w = t /\ req[q].op = "reactivate"
    BY <2>3, <2>6, Updated
  <2>7. CASE w = t /\ req[q].op # "reactivate"
    <3>1. activeOwner(req[q].row) /\ protecting(req[q].op)
      BY <1>1, <1>2, <2>2, <2>3, <2>7 DEF Current, protecting
    <3>2. PICK v \in Users \ {t} : activeOwner(member[v])
      BY <1>1, <1>2, <2>2, <3>1 DEF Spared
    <3> QED
      BY <2>4, <3>2
  <2> QED
    BY <2>5, <2>6, <2>7
<1> QED
  BY <1>2, <1>3, <1>4, Committed DEF IInv

LEMMA WithRole ==
    ASSUME NEW m \in Member, NEW seen, NEW r \in Roles
    PROVE  /\ withRole(m, seen, r) \in Member
           /\ withRole(m, seen, r).status = m.status
           /\ withRole(m, seen, r).deleted = m.deleted
           /\ seen = m.role => withRole(m, seen, r).role = r
  BY DEF withRole, Member

LEMMA WriteTransferKeeps ==
    ASSUME IInv, NEW q \in Requests, WriteTransfer(q) PROVE IInv'
<1>0. PICK held \in BOOLEAN : member' = transferred(q, held)
  BY DEF WriteTransfer
<1> DEFINE n == req[q].target
           o == req[q].actor
           promoted == IF visible(n)
                       THEN [member EXCEPT ![n] = withRole(@, req[q].row.role, "Owner")]
                       ELSE member
           seen == IF n = o THEN "Owner" ELSE roleSeen(q, held, o)
<1>1. Asked(q) /\ Current(q) /\ MemberTypeOK /\ "Owner" \in Roles
  BY MembershipAssumption DEF IInv
<1>2. req[q].pc = "writing" /\ req[q].op = "transfer" /\ commit(q) /\ closed' = closed
      /\ owner' = (IF n # o THEN n ELSE owner)
      /\ member' = (IF visible(o)
                    THEN [promoted EXCEPT ![o] = withRole(@, seen, req[q].role)]
                    ELSE promoted)
      /\ excuses' = excuses \cup overlap(q)
            \cup (IF n = o THEN {"transfer to oneself"} ELSE {})
  <2>2. member' = IF visible(o) THEN [promoted EXCEPT ![o] = withRole(@, seen, req[q].role)]
                  ELSE promoted
    BY Zenon, <1>0 DEF transferred
  <2> HIDE DEF promoted, seen
  <2> QED
    BY <2>2 DEF WriteTransfer
<1>3. n \in Users /\ o \in Users /\ req[q].role \in Roles
  BY <1>1, <1>2 DEF Asked
<1>4. member \in [Users -> Member]
      /\ \A u \in Users : member[u].status = "REMOVED" => member[u].deleted
  BY <1>1 DEF MemberTypeOK
<1> HIDE DEF seen, n, o
<1>5. /\ promoted \in [Users -> Member]
      /\ \A u \in Users : promoted[u].status = member[u].status
                          /\ promoted[u].deleted = member[u].deleted
      /\ visible(n) /\ req[q].row.role = member[n].role => promoted[n].role = "Owner"
  <2>1. CASE visible(n)
    <3>1. member[n] \in Member
      BY <1>3, <1>4
    <3>2. promoted = [member EXCEPT ![n] = withRole(member[n], req[q].row.role, "Owner")]
      BY <2>1
    <3> QED
      BY <1>1, <1>3, <1>4, <3>1, <3>2, WithRole
  <2>2. CASE ~visible(n)
    BY <1>4, <2>2
  <2> QED
    BY <2>1, <2>2
<1>6. /\ member' \in [Users -> Member]
      /\ \A u \in Users : member'[u].status = member[u].status
                          /\ member'[u].deleted = member[u].deleted
      /\ \A u \in Users : u # o => member'[u] = promoted[u]
  <2> HIDE DEF promoted
  <2>1. CASE visible(o)
    <3>1. promoted[o] \in Member
      BY <1>3, <1>5
    <3>2. member' = [promoted EXCEPT ![o] = withRole(promoted[o], seen, req[q].role)]
      BY <1>2, <2>1
    <3> QED
      BY <1>3, <1>5, <3>1, <3>2, WithRole
  <2>2. CASE ~visible(o)
    <3>1. member' = promoted
      BY <1>2, <2>2
    <3> QED
      BY <1>5, <3>1
  <2> QED
    BY <2>1, <2>2
<1> HIDE DEF promoted
<1>7. MemberTypeOK'
  <2>1. owner' \in Users /\ closed' \in BOOLEAN
        /\ excuses' \subseteq {"overlap", "transfer to oneself"}
    <3>1. owner \in Users /\ closed \in BOOLEAN
          /\ excuses \subseteq {"overlap", "transfer to oneself"}
      BY <1>1 DEF MemberTypeOK
    <3>2. overlap(q) \subseteq {"overlap"}
      BY DEF overlap
    <3>3. owner' \in Users
      BY <1>2, <1>3, <3>1
    <3>4. excuses' \subseteq {"overlap", "transfer to oneself"}
      BY <1>2, <3>1, <3>2
    <3> QED
      BY <1>2, <3>1, <3>3, <3>4
  <2>2. \A u \in Users : member'[u].status = "REMOVED" => member'[u].deleted
    BY <1>4, <1>6
  <2> QED
    BY <1>2, <1>6, <2>1, <2>2, Committed DEF MemberTypeOK
<1>8. OwnerRemains'
  <2>1. SUFFICES ASSUME excuses' = {} PROVE activeOwner(member'[n])
    BY <1>3 DEF OwnerRemains, activeOwner
  <2>2. q \notin dirty /\ n # o
    <3>1. overlap(q) = {} /\ (IF n = o THEN {"transfer to oneself"} ELSE {}) = {}
      BY <1>2, <2>1
    <3>2. n # o
      BY <3>1
    <3> QED
      BY <3>1, <3>2 DEF overlap
  <2>3. req[q].row = member[n]
    BY <1>1, <1>2, <2>2 DEF Current, n
  <2>4. member[n].status = "ACTIVE" /\ ~member[n].deleted
    BY <1>1, <1>2, <2>3 DEF Asked
  <2>5. visible(n)
    BY <2>4 DEF visible
  <2> QED
    BY <1>3, <1>5, <1>6, <2>2, <2>3, <2>4, <2>5 DEF activeOwner
<1> QED
  BY <1>2, <1>7, <1>8, Committed DEF IInv

LEMMA WriteDeleteKeeps == ASSUME IInv, NEW q \in Requests, WriteDelete(q) PROVE IInv'
<1>1. commit(q) /\ closed' = TRUE /\ UNCHANGED <<member, owner>>
      /\ excuses' = excuses \cup overlap(q)
  BY DEF WriteDelete
<1>2. MemberTypeOK'
  BY <1>1, Committed DEF IInv, MemberTypeOK, overlap
<1>3. OwnerRemains'
  BY <1>1 DEF IInv, OwnerRemains
<1> QED
  BY <1>1, <1>2, <1>3, Committed DEF IInv

LEMMA NextIInv == IInv /\ [MemberNext]_memberVars => IInv'
<1> SUFFICES ASSUME IInv, [MemberNext]_memberVars PROVE IInv'
  OBVIOUS
<1>1. CASE MemberNext
  BY <1>1, BeginKeeps, CheckKeeps, CheckFailsKeeps, WriteMemberKeeps,
     WriteTransferKeeps, WriteDeleteKeeps DEF MemberNext
<1>2. CASE UNCHANGED memberVars
  <2>1. MemberTypeOK' /\ OwnerRemains'
    BY <1>2 DEF memberVars, IInv, MemberTypeOK, OwnerRemains
  <2>2. ASSUME NEW p \in Requests PROVE Asked(p)' /\ Current(p)' /\ Spared(p)'
    BY <1>2, OtherKeeps DEF memberVars, IInv
  <2> QED
    BY <2>1, <2>2 DEF IInv
<1> QED
  BY <1>1, <1>2

\* The rows, the owner and the requests keep their types; a removed row is
\* always a deleted one.
THEOREM MemberTypes == Spec => []MemberTypeOK
<1>1. IInv => MemberTypeOK
  BY DEF IInv
<1> QED
  BY <1>1, InitIInv, NextIInv, PTL DEF Spec

\* However long the sequence of changes to members, with any number of users,
\* roles and requests, an active owner remains unless requests overlapped or
\* the owner transferred the workspace to himself.
THEOREM AnOwnerRemains == Spec => []OwnerRemains
<1>1. IInv => OwnerRemains
  BY DEF IInv
<1> QED
  BY <1>1, InitIInv, NextIInv, PTL DEF Spec

-----------------------------------------------------------------------------
(***************************************************************************)
(* Who may take the owner's role: what was asked of the actor when the     *)
(* request began holds for as long as no other request commits.            *)
(***************************************************************************)
Entitled(q) ==
    req[q].pc # "idle" /\ q \notin dirty =>
        /\ req[q].op \in {"transfer", "delete"} => req[q].actor = owner
        /\ req[q].byOwner => req[q].actor = owner
        /\ req[q].pc = "writing" /\ req[q].op = "change_role" /\ req[q].row.role = "Owner"
              => req[q].byOwner

AllEntitled == \A q \in Requests : Entitled(q)

LEMMA EntitledKept ==
    ASSUME AllEntitled, owner' = owner,
           \A p \in Requests : \/ req'[p].pc = "idle"
                               \/ req'[p] = req[p] /\ (p \in dirty => p \in dirty')
                               \/ Entitled(p)'
    PROVE  AllEntitled'
  BY DEF AllEntitled, Entitled

\* A commit leaves only dirty requests in progress.
LEMMA CommitEntitled == ASSUME IInv, NEW q \in Requests, commit(q) PROVE AllEntitled'
<1>1. /\ req' = [req EXCEPT ![q] = Idle]
      /\ dirty' = {p \in Requests \ {q} : req[p].pc # "idle"}
  BY DEF commit
<1>2. Idle.pc = "idle" /\ req \in [Requests -> Request]
  BY DEF Idle, IInv, MemberTypeOK
<1>3. ASSUME NEW p \in Requests PROVE req'[p].pc = "idle" \/ p \in dirty'
  BY <1>1, <1>2
<1> QED
  BY <1>3 DEF AllEntitled, Entitled

LEMMA EntitledStep ==
    ASSUME IInv, AllEntitled, [MemberNext]_memberVars
    PROVE  AllEntitled'
<1>0. req \in [Requests -> Request]
  BY DEF IInv, MemberTypeOK
<1>1. ASSUME NEW q \in Requests, Begin(q) PROVE AllEntitled'
  <2>1. PICK op \in Ops, a \in Users, u \in Users, r \in Roles \cup {"none"} :
          /\ canAct(a)
          /\ applicable(op, a, u, r)
          /\ op \in {"change_role", "transfer"} <=> r # "none"
          /\ req' = [req EXCEPT ![q] =
                [pc |-> IF protecting(op) THEN "checking" ELSE "writing",
                 op |-> op, actor |-> a, target |-> u, role |-> r,
                 byOwner |-> owner = a,
                 myRole |-> IF visible(a) THEN member[a].role ELSE "none",
                 row |-> member[u]]]
    BY <1>1, Zenon DEF Begin
  <2> DEFINE new == [pc |-> IF protecting(op) THEN "checking" ELSE "writing",
                     op |-> op, actor |-> a, target |-> u, role |-> r,
                     byOwner |-> owner = a,
                     myRole |-> IF visible(a) THEN member[a].role ELSE "none",
                     row |-> member[u]]
  <2>2. owner' = owner /\ dirty' = dirty
    BY <1>1 DEF Begin
  <2>3. /\ new.op = op /\ new.actor = a /\ (new.byOwner <=> owner = a)
        /\ op = "change_role" => new.pc = "checking"
    BY DEF protecting
  <2>4. op \in {"transfer", "delete"} => owner = a
    BY <2>1 DEF applicable
  <2>5. req' = [req EXCEPT ![q] = new]
    BY <2>1
  <2> HIDE DEF new
  <2>6. req'[q] = new /\ \A p \in Requests : p # q => req'[p] = req[p]
    BY <1>0, <2>5
  <2>7. Entitled(q)'
    BY <2>2, <2>3, <2>4, <2>6 DEF Entitled
  <2> QED
    BY <2>2, <2>6, <2>7, EntitledKept
<1>2. ASSUME NEW q \in Requests, Check(q) PROVE AllEntitled'
  <2>1. /\ owner' = owner /\ dirty' = dirty /\ req[q].pc = "checking" /\ ownerRoleRule(q)
        /\ req' = [req EXCEPT ![q].pc = "writing"]
    BY <1>2 DEF Check
  <2>2. /\ \A p \in Requests : p # q => req'[p] = req[p]
        /\ req'[q].op = req[q].op /\ req'[q].actor = req[q].actor
        /\ req'[q].byOwner = req[q].byOwner /\ req'[q].row = req[q].row
    BY <1>0, <2>1 DEF Request
  <2>3. Entitled(q)'
    BY <2>1, <2>2 DEF Entitled, AllEntitled, ownerRoleRule
  <2> QED
    BY <2>1, <2>2, <2>3, EntitledKept
<1>3. ASSUME NEW q \in Requests, CheckFails(q) PROVE AllEntitled'
  <2>1. owner' = owner /\ dirty' = dirty \ {q} /\ req' = [req EXCEPT ![q] = Idle]
    BY <1>3 DEF CheckFails
  <2>2. Idle.pc = "idle"
    BY DEF Idle
  <2>3. \A p \in Requests : \/ req'[p].pc = "idle"
                            \/ req'[p] = req[p] /\ (p \in dirty => p \in dirty')
    BY <1>0, <2>1, <2>2
  <2> QED
    BY <2>1, <2>3 DEF AllEntitled, Entitled
<1>4. ASSUME NEW q \in Requests, WriteMember(q) \/ WriteTransfer(q) \/ WriteDelete(q)
      PROVE  AllEntitled'
  <2>1. commit(q)
    BY <1>4 DEF WriteMember, WriteTransfer, WriteDelete
  <2> QED
    BY <2>1, CommitEntitled
<1>5. CASE UNCHANGED memberVars
  BY <1>5, EntitledKept DEF memberVars
<1> QED
  BY <1>1, <1>2, <1>3, <1>4, <1>5 DEF MemberNext

\* Whether the owner may act depends on his row's role alone.
LEMMA OwnerActs ==
    ASSUME ~closed, visible(owner) => member[owner].role \in Managers
    PROVE  canAct(owner)
  BY DEF canAct, inWorkspace, permitted

LEMMA LockedOutStep ==
    ASSUME IInv, AllEntitled, [MemberNext]_memberVars,
           canAct(owner), member[owner].role = "Owner", ~canAct(owner)'
    PROVE  \/ "overlap" \in excuses'
           \/ \E q \in Requests : req[q].actor = owner /\ req[q].pc = "writing"
                                  /\ req'[q].pc = "idle"
<1>0. owner \in Users /\ req \in [Requests -> Request] /\ member \in [Users -> Member]
      /\ ~closed
  BY DEF IInv, MemberTypeOK, canAct, inWorkspace
<1>1. ASSUME member' = member, owner' = owner, closed' = closed PROVE FALSE
  BY <1>1 DEF canAct, inWorkspace, permitted, visible
<1>2. ASSUME NEW q \in Requests, commit(q), overlap(q) \subseteq excuses'
      PROVE  ("overlap" \in excuses' \/ q \notin dirty) /\ req'[q].pc = "idle"
  <2>1. req'[q] = Idle /\ Idle.pc = "idle"
    BY <1>0, <1>2 DEF commit, Idle
  <2> QED
    BY <1>2, <2>1 DEF overlap
<1>3. ASSUME NEW q \in Requests, WriteMember(q)
      PROVE  \/ "overlap" \in excuses'
             \/ req[q].actor = owner /\ req[q].pc = "writing" /\ req'[q].pc = "idle"
  <2>1. /\ req[q].pc = "writing" /\ commit(q) /\ owner' = owner /\ closed' = closed
        /\ excuses' = excuses \cup overlap(q) /\ member' = updated(q)
        /\ req[q].op \in {"change_role", "suspend", "reactivate", "remove"}
    BY <1>3 DEF WriteMember
  <2>2. SUFFICES ASSUME q \notin dirty PROVE req[q].actor = owner
    BY <1>2, <2>1
  <2>3. Asked(q) /\ Current(q) /\ Entitled(q)
    BY DEF IInv, AllEntitled
  <2>4. req[q].target \in Users
    BY <2>1, <2>3 DEF Asked
  <2>5. member'[owner].role # "Owner"
    <3>1. SUFFICES ASSUME member'[owner].role = "Owner" PROVE canAct(owner)'
      OBVIOUS
    <3>2. "Owner" \in Managers
      BY MembershipAssumption
    <3> QED
      BY <1>0, <2>1, <3>1, <3>2 DEF canAct, inWorkspace, permitted
  <2>6. req[q].target = owner /\ req[q].op = "change_role"
    <3>1. req[q].target = owner
      BY <1>0, <1>3, <2>5, Updated
    <3>2. ASSUME req[q].op # "change_role" PROVE member'[owner].role = member[owner].role
      <4>1. \/ member' = [member EXCEPT ![owner].status = "SUSPENDED"]
            \/ member' = [member EXCEPT ![owner].status = "ACTIVE"]
            \/ member' = [member EXCEPT ![owner].status = "REMOVED", ![owner].deleted = TRUE]
        BY <2>1, <3>1, <3>2 DEF updated
      <4> QED
        BY <1>0, <4>1 DEF Member
    <3> QED
      BY <2>5, <3>1, <3>2
  <2>7. req[q].row.role = "Owner"
    BY <2>1, <2>2, <2>3, <2>6 DEF Current
  <2> QED
    BY <2>1, <2>2, <2>3, <2>6, <2>7 DEF Entitled
<1>4. ASSUME NEW q \in Requests, WriteTransfer(q) \/ WriteDelete(q)
      PROVE  \/ "overlap" \in excuses'
             \/ req[q].actor = owner /\ req[q].pc = "writing" /\ req'[q].pc = "idle"
  <2>1. /\ req[q].pc = "writing" /\ commit(q) /\ req[q].op \in {"transfer", "delete"}
        /\ overlap(q) \subseteq excuses'
    BY <1>4 DEF WriteTransfer, WriteDelete
  <2>2. ("overlap" \in excuses' \/ q \notin dirty) /\ req'[q].pc = "idle"
    BY <1>2, <2>1
  <2> QED
    BY <2>1, <2>2 DEF AllEntitled, Entitled
<1>5. CASE UNCHANGED memberVars
  BY <1>1, <1>5 DEF memberVars
<1>6. ASSUME NEW q \in Requests, Begin(q) \/ Check(q) \/ CheckFails(q) PROVE FALSE
  BY <1>1, <1>6 DEF Begin, Check, CheckFails
<1> QED
  BY <1>3, <1>4, <1>5, <1>6 DEF MemberNext

\* The owner who holds the Owner role is not locked out by others: the step
\* after which he cannot act is his own, or one of overlapping requests.
THEOREM OwnersAreNotLockedOut == Spec => OwnerNotLockedOut
<1>1. Init => AllEntitled
  BY DEF Init, AllEntitled, Entitled, Idle
<1>2. IInv /\ AllEntitled /\ [MemberNext]_memberVars => AllEntitled'
  BY EntitledStep
<1>3. IInv /\ AllEntitled /\ [MemberNext]_memberVars =>
        [canAct(owner) /\ member[owner].role = "Owner" /\ ~canAct(owner)'
          => \/ "overlap" \in excuses'
             \/ \E q \in Requests : req[q].actor = owner /\ req[q].pc = "writing"
                                    /\ req'[q].pc = "idle"]_memberVars
  BY LockedOutStep
<1> QED
  BY <1>1, <1>2, <1>3, InitIInv, NextIInv, PTL DEF Spec, OwnerNotLockedOut

-----------------------------------------------------------------------------
(***************************************************************************)
(* Requests that do not overlap are serial.  A request has authorized its  *)
(* actor and checked its target in earlier steps; what it saw there is     *)
(* still so when it writes, for as long as no other request commits.       *)
(***************************************************************************)
Allowed(q) ==
    req[q].pc # "idle" /\ q \notin dirty =>
        /\ canAct(req[q].actor)
        /\ applicable(req[q].op, req[q].actor, req[q].target, req[q].role)
        /\ req[q].byOwner => req[q].actor = owner
        /\ req[q].pc = "writing" => ownerRoleRule(q)

AllAllowed == \A q \in Requests : Allowed(q)

LEMMA AllowedKept ==
    ASSUME AllAllowed, UNCHANGED <<member, owner, closed>>,
           \A p \in Requests : \/ req'[p].pc = "idle"
                               \/ req'[p] = req[p] /\ (p \in dirty => p \in dirty')
                               \/ Allowed(p)'
    PROVE  AllAllowed'
<1> SUFFICES ASSUME NEW p \in Requests, req'[p].pc # "idle", p \notin dirty',
                    req'[p] = req[p], p \notin dirty
             PROVE  Allowed(p)'
  BY DEF AllAllowed, Allowed
<1>1. Allowed(p)
  BY DEF AllAllowed
<1>2. /\ \A a : canAct(a)' <=> canAct(a)
      /\ \A op, a, u, r : applicable(op, a, u, r)' <=> applicable(op, a, u, r)
  BY DEF canAct, inWorkspace, permitted, visible, applicable
<1>3. ownerRoleRule(p)' <=> ownerRoleRule(p)
  BY DEF ownerRoleRule
<1> QED
  BY <1>1, <1>2, <1>3 DEF Allowed

\* A commit leaves only dirty requests in progress.
LEMMA CommitAllowed == ASSUME IInv, NEW q \in Requests, commit(q) PROVE AllAllowed'
<1>1. /\ req' = [req EXCEPT ![q] = Idle]
      /\ dirty' = {p \in Requests \ {q} : req[p].pc # "idle"}
  BY DEF commit
<1>2. Idle.pc = "idle" /\ req \in [Requests -> Request]
  BY DEF Idle, IInv, MemberTypeOK
<1>3. ASSUME NEW p \in Requests PROVE req'[p].pc = "idle" \/ p \in dirty'
  BY <1>1, <1>2
<1> QED
  BY <1>3 DEF AllAllowed, Allowed

\* What get_current_workspace, require_permission and the service have asked when
\* a request began, and _protect_owner_role's rules when it goes on to write, hold
\* on the rows as they are while no other request commits.
LEMMA AllowedStep ==
    ASSUME IInv, AllAllowed, [MemberNext]_memberVars
    PROVE  AllAllowed'
<1>0. req \in [Requests -> Request]
  BY DEF IInv, MemberTypeOK
<1>1. ASSUME NEW q \in Requests, Begin(q) PROVE AllAllowed'
  <2>1. PICK op \in Ops, a \in Users, u \in Users, r \in Roles \cup {"none"} :
          /\ canAct(a)
          /\ applicable(op, a, u, r)
          /\ op \in {"change_role", "transfer"} <=> r # "none"
          /\ req' = [req EXCEPT ![q] =
                [pc |-> IF protecting(op) THEN "checking" ELSE "writing",
                 op |-> op, actor |-> a, target |-> u, role |-> r,
                 byOwner |-> owner = a,
                 myRole |-> IF visible(a) THEN member[a].role ELSE "none",
                 row |-> member[u]]]
    BY <1>1, Zenon DEF Begin
  <2> DEFINE new == [pc |-> IF protecting(op) THEN "checking" ELSE "writing",
                     op |-> op, actor |-> a, target |-> u, role |-> r,
                     byOwner |-> owner = a,
                     myRole |-> IF visible(a) THEN member[a].role ELSE "none",
                     row |-> member[u]]
  <2>2. UNCHANGED <<member, owner, closed, dirty>>
    BY <1>1 DEF Begin
  <2>3. /\ new.op = op /\ new.actor = a /\ new.target = u /\ new.role = r
        /\ (new.byOwner <=> owner = a)
        /\ op = "change_role" => new.pc = "checking"
    BY DEF protecting
  <2>4. req' = [req EXCEPT ![q] = new]
    BY <2>1
  <2> HIDE DEF new
  <2>5. req'[q] = new /\ \A p \in Requests : p # q => req'[p] = req[p]
    BY <1>0, <2>4
  <2>6. canAct(a)' /\ applicable(op, a, u, r)'
    BY <2>1, <2>2 DEF canAct, inWorkspace, permitted, visible, applicable
  <2>7. req'[q].pc = "writing" => ownerRoleRule(q)'
    BY <2>3, <2>5 DEF ownerRoleRule
  <2>8. Allowed(q)'
    BY <2>2, <2>3, <2>5, <2>6, <2>7 DEF Allowed
  <2> QED
    BY <2>2, <2>5, <2>8, AllowedKept
<1>2. ASSUME NEW q \in Requests, Check(q) PROVE AllAllowed'
  <2>1. /\ UNCHANGED <<member, owner, closed, dirty>>
        /\ req[q].pc = "checking" /\ ownerRoleRule(q)
        /\ req' = [req EXCEPT ![q].pc = "writing"]
    BY <1>2 DEF Check
  <2>2. /\ \A p \in Requests : p # q => req'[p] = req[p]
        /\ req'[q].op = req[q].op /\ req'[q].actor = req[q].actor
        /\ req'[q].target = req[q].target /\ req'[q].role = req[q].role
        /\ req'[q].byOwner = req[q].byOwner /\ req'[q].row = req[q].row
    BY <1>0, <2>1 DEF Request
  <2>3. ASSUME q \notin dirty PROVE Allowed(q)'
    <3>1. /\ canAct(req[q].actor)
          /\ req[q].byOwner => req[q].actor = owner
          /\ applicable(req[q].op, req[q].actor, req[q].target, req[q].role)
      BY <2>1, <2>3 DEF AllAllowed, Allowed
    <3>2. canAct(req[q].actor)'
      BY <2>1, <2>2, <3>1 DEF canAct, inWorkspace, permitted, visible
    <3>3. applicable(req[q].op, req[q].actor, req[q].target, req[q].role)'
      BY <2>1, <2>2, <3>1 DEF applicable, visible
    <3>4. ownerRoleRule(q)'
      BY <2>1, <2>2 DEF ownerRoleRule
    <3> QED
      BY <2>1, <2>2, <3>1, <3>2, <3>3, <3>4 DEF Allowed
  <2>4. Allowed(q)'
    BY <2>1, <2>3 DEF Allowed
  <2> QED
    BY <2>1, <2>2, <2>4, AllowedKept
<1>3. ASSUME NEW q \in Requests, CheckFails(q) PROVE AllAllowed'
  <2>1. /\ UNCHANGED <<member, owner, closed>>
        /\ dirty' = dirty \ {q} /\ req' = [req EXCEPT ![q] = Idle]
    BY <1>3 DEF CheckFails
  <2>2. Idle.pc = "idle"
    BY DEF Idle
  <2>3. \A p \in Requests : \/ req'[p].pc = "idle"
                            \/ req'[p] = req[p] /\ (p \in dirty => p \in dirty')
    BY <1>0, <2>1, <2>2
  <2> QED
    BY <2>1, <2>3, AllowedKept
<1>4. ASSUME NEW q \in Requests, WriteMember(q) \/ WriteTransfer(q) \/ WriteDelete(q)
      PROVE  AllAllowed'
  <2>1. commit(q)
    BY <1>4 DEF WriteMember, WriteTransfer, WriteDelete
  <2> QED
    BY <2>1, CommitAllowed
<1>5. CASE UNCHANGED memberVars
  BY <1>5, AllowedKept DEF memberVars
<1> QED
  BY <1>1, <1>2, <1>3, <1>4, <1>5 DEF MemberNext

-----------------------------------------------------------------------------
\* The team that the rows show.
shown == [u \in Users |-> inTeam(member[u])]

\* What Team asks of a member, in terms of his row.
LEMMA Shown ==
    ASSUME MemberTypeOK, NEW u \in Users
    PROVE  /\ Team!inside(u) <=> visible(u)
           /\ Team!active(u) <=> visible(u) /\ member[u].status = "ACTIVE"
           /\ shown[u].place = "suspended" <=> visible(u) /\ member[u].status = "SUSPENDED"
           /\ visible(u) => shown[u].role = member[u].role
           /\ u \in Team!owners <=> activeOwner(member[u])
           /\ Team!mayChange(u) <=> canAct(u)
<1>1. member[u] \in Member /\ (member[u].status = "REMOVED" => member[u].deleted)
  BY DEF MemberTypeOK
<1>2. shown[u] = inTeam(member[u])
  BY DEF shown
<1>3. /\ shown[u].place # "out" <=> visible(u)
      /\ shown[u].place = "active" <=> visible(u) /\ member[u].status = "ACTIVE"
      /\ shown[u].place = "suspended" <=> visible(u) /\ member[u].status = "SUSPENDED"
      /\ visible(u) => shown[u].role = member[u].role
      /\ shown[u] = [place |-> "active", role |-> "Owner"] <=> activeOwner(member[u])
  BY <1>1, <1>2 DEF inTeam, visible, Member, activeOwner
<1>4. Team!inside(u) <=> visible(u)
  BY <1>3 DEF Team!inside, shown
<1>5. Team!active(u) <=> visible(u) /\ member[u].status = "ACTIVE"
  BY <1>3 DEF Team!active, shown
<1>6. u \in Team!owners <=> activeOwner(member[u])
  BY <1>3 DEF Team!owners, Team!in, shown
<1>7. Team!mayChange(u) <=> canAct(u)
  BY <1>3, <1>4, <1>5 DEF Team!mayChange, canAct, inWorkspace, permitted, shown
<1> QED
  BY <1>3, <1>4, <1>5, <1>6, <1>7

\* A request that nobody disturbs finds its target replaceable: either no active
\* owner, or one of several.
LEMMA Replaceable ==
    ASSUME IInv, NEW q \in Requests, req[q].pc = "writing", q \notin dirty,
           protecting(req[q].op)
    PROVE  Team!replaceable(req[q].target)
<1> DEFINE t == req[q].target
<1>1. Spared(q) /\ Current(q) /\ Asked(q) /\ MemberTypeOK
  BY DEF IInv
<1>2. t \in Users /\ req[q].row = member[t]
  BY <1>1 DEF Asked, Current
<1>3. CASE activeOwner(member[t])
  <2>1. PICK v \in Users \ {t} : activeOwner(member[v])
    BY <1>1, <1>2, <1>3 DEF Spared
  <2>2. v \in Team!owners
    BY <1>1, <2>1, Shown
  <2> QED
    BY <2>1, <2>2 DEF Team!replaceable
<1>4. CASE ~activeOwner(member[t])
  <2>1. t \notin Team!owners
    BY <1>1, <1>2, <1>4, Shown
  <2> QED
    BY <2>1 DEF Team!replaceable
<1> QED
  BY <1>3, <1>4

\* What a request that nobody disturbs knows when it writes.
LEMMA Undisturbed ==
    ASSUME IInv, AllAllowed, NEW q \in Requests, req[q].pc = "writing", q \notin dirty
    PROVE  /\ req[q].actor \in Users /\ req[q].target \in Users
           /\ req[q].op \in {"change_role", "transfer"} => req[q].role \in Roles
           /\ Team!mayChange(req[q].actor)
           /\ applicable(req[q].op, req[q].actor, req[q].target, req[q].role)
           /\ protecting(req[q].op) => Team!replaceable(req[q].target)
           /\ req[q].row = member[req[q].target]
           /\ req[q].myRole # "none" => req[q].myRole = member[req[q].actor].role
           /\ req[q].op = "change_role"
                 /\ "Owner" \in {req[q].role, member[req[q].target].role}
              => req[q].actor = owner
<1>1. Current(q) /\ Asked(q) /\ Allowed(q) /\ MemberTypeOK
  BY DEF IInv, AllAllowed
<1>2. /\ req[q].actor \in Users /\ req[q].target \in Users
      /\ req[q].op \in {"change_role", "transfer"} => req[q].role \in Roles
  BY <1>1 DEF Asked
<1>3. /\ req[q].row = member[req[q].target]
      /\ req[q].myRole # "none" => req[q].myRole = member[req[q].actor].role
  BY <1>1 DEF Current
<1>4. /\ canAct(req[q].actor) /\ ownerRoleRule(q)
      /\ applicable(req[q].op, req[q].actor, req[q].target, req[q].role)
      /\ req[q].byOwner => req[q].actor = owner
  BY <1>1 DEF Allowed
<1>5. Team!mayChange(req[q].actor)
  BY <1>1, <1>2, <1>4, Shown
<1>6. protecting(req[q].op) => Team!replaceable(req[q].target)
  BY Replaceable
<1>7. req[q].op = "change_role"
         /\ "Owner" \in {req[q].role, member[req[q].target].role}
      => req[q].actor = owner
  BY <1>3, <1>4 DEF ownerRoleRule
<1> QED
  BY <1>2, <1>3, <1>4, <1>5, <1>6, <1>7

\* update_member_role, suspend_member, reactivate_member and remove_member do to
\* the rows what Team does to the team.
LEMMA WriteMemberSerial ==
    ASSUME IInv, AllAllowed, NEW q \in Requests, WriteMember(q), q \notin dirty
    PROVE  \E u \in Users :
              \/ \E r \in Roles : Team!ChangeRole(req[q].actor, u, r)
              \/ Team!Suspend(u)
              \/ Team!Reactivate(u)
              \/ Team!Remove(req[q].actor, u)
<1> DEFINE t == req[q].target
<1>1. /\ req[q].pc = "writing" /\ UNCHANGED <<owner, closed>> /\ member' = updated(q)
      /\ req[q].op \in {"change_role", "suspend", "reactivate", "remove"}
  BY DEF WriteMember
<1>2. MemberTypeOK /\ member \in [Users -> Member]
  BY DEF IInv, MemberTypeOK
<1>3. /\ t \in Users
      /\ applicable(req[q].op, req[q].actor, t, req[q].role)
      /\ protecting(req[q].op) => Team!replaceable(t)
  BY <1>1, Undisturbed
<1>4. member[t] \in Member /\ (Team!inside(t) <=> visible(t))
      /\ (Team!active(t) <=> visible(t) /\ member[t].status = "ACTIVE")
      /\ (shown[t].place = "suspended" <=> visible(t) /\ member[t].status = "SUSPENDED")
      /\ (visible(t) => shown[t].role = member[t].role)
  BY <1>2, <1>3, Shown
<1>5. shown \in [Users -> {inTeam(m) : m \in Member}]
  BY <1>2 DEF shown
<1>6. \A u \in Users : u # t => shown'[u] = shown[u]
  BY <1>3, Updated DEF shown
<1>7. shown'[t] = inTeam(member'[t]) /\ shown[t] = inTeam(member[t])
  BY <1>3 DEF shown
<1>8. CASE req[q].op = "change_role"
  <2>1. member' = [member EXCEPT ![t].role = req[q].role] /\ req[q].role \in Roles
    BY <1>1, <1>8, Undisturbed DEF updated
  <2>2. visible(t) /\ member[t].role # req[q].role /\ Team!replaceable(t)
    BY <1>3, <1>8 DEF applicable, protecting
  <2>3. shown'[t] = [shown[t] EXCEPT !.role = req[q].role]
    BY <1>2, <1>3, <1>4, <1>7, <2>1, <2>2 DEF inTeam, visible, Member
  <2>4. shown' = [shown EXCEPT ![t].role = req[q].role]
    BY <1>3, <1>6, <2>3 DEF shown
  <2>5. "Owner" \in {req[q].role, shown[t].role} => req[q].actor = owner
    BY <1>1, <1>4, <1>8, <2>2, Undisturbed
  <2>6. Team!ChangeRole(req[q].actor, t, req[q].role)
    BY <1>1, <1>4, <2>2, <2>4, <2>5 DEF Team!ChangeRole, shown
  <2> QED
    BY <1>3, <2>1, <2>6
<1>9. CASE req[q].op = "suspend"
  <2>1. member' = [member EXCEPT ![t].status = "SUSPENDED"]
    BY <1>1, <1>9 DEF updated
  <2>2. visible(t) /\ member[t].status # "SUSPENDED" /\ Team!replaceable(t)
    BY <1>3, <1>9 DEF applicable, protecting
  <2>3. shown'[t] = [shown[t] EXCEPT !.place = "suspended"]
    BY <1>2, <1>3, <1>4, <1>7, <2>1, <2>2 DEF inTeam, visible, Member
  <2>4. shown' = [shown EXCEPT ![t].place = "suspended"]
    BY <1>3, <1>6, <2>3 DEF shown
  <2>5. Team!Suspend(t)
    BY <1>1, <1>4, <2>2, <2>4 DEF Team!Suspend, shown
  <2> QED
    BY <1>3, <2>5
<1>10. CASE req[q].op = "reactivate"
  <2>1. member' = [member EXCEPT ![t].status = "ACTIVE"]
    BY <1>1, <1>10 DEF updated
  <2>2. visible(t) /\ member[t].status # "ACTIVE"
    BY <1>3, <1>10 DEF applicable
  <2>3. shown'[t] = [shown[t] EXCEPT !.place = "active"]
    BY <1>2, <1>3, <1>4, <1>7, <2>1, <2>2 DEF inTeam, visible, Member
  <2>4. shown' = [shown EXCEPT ![t].place = "active"]
    BY <1>3, <1>6, <2>3 DEF shown
  <2>5. Team!Reactivate(t)
    BY <1>1, <1>4, <2>2, <2>4 DEF Team!Reactivate, shown
  <2> QED
    BY <1>3, <2>5
<1>11. CASE req[q].op = "remove"
  <2>1. member' = [member EXCEPT ![t].status = "REMOVED", ![t].deleted = TRUE]
    BY <1>1, <1>11 DEF updated
  <2>2. visible(t) /\ owner = req[q].actor /\ Team!replaceable(t)
    BY <1>3, <1>11 DEF applicable, protecting
  <2>3. shown'[t] = Team!Out
    BY <1>2, <1>3, <1>4, <1>7, <2>1, <2>2 DEF inTeam, Member, Team!Out, Team!in
  <2>4. shown' = [shown EXCEPT ![t] = Team!Out]
    BY <1>3, <1>6, <2>3 DEF shown
  <2>5. Team!Remove(req[q].actor, t)
    BY <1>1, <1>4, <2>2, <2>4 DEF Team!Remove, shown
  <2> QED
    BY <1>3, <2>5
<1> QED
  BY <1>1, <1>8, <1>9, <1>10, <1>11

LEMMA RoleWritten ==
    ASSUME NEW m \in Member, NEW r \in Roles
    PROVE  withRole(m, m.role, r) = [m EXCEPT !.role = r]
  BY DEF withRole, Member

\* transfer_ownership writes owner_id and the two roles as Team's Transfer does,
\* also where the two are one and the same user.
LEMMA WriteTransferSerial ==
    ASSUME IInv, AllAllowed, NEW q \in Requests, WriteTransfer(q), q \notin dirty
    PROVE  \E u \in Users : \E r \in Roles : Team!Transfer(req[q].actor, u, r)
<1>0. PICK n, o, r : n = req[q].target /\ o = req[q].actor /\ r = req[q].role
  OBVIOUS
<1> PICK held \in BOOLEAN : member' = transferred(q, held)
  BY DEF WriteTransfer
<1>1. /\ req[q].pc = "writing" /\ req[q].op = "transfer" /\ closed' = closed
      /\ owner' = (IF n # o THEN n ELSE owner)
      /\ member' = transferred(q, held)
  BY <1>0 DEF WriteTransfer
<1>2. MemberTypeOK /\ member \in [Users -> Member] /\ "Owner" \in Roles
  BY MembershipAssumption DEF IInv, MemberTypeOK
<1>3. /\ n \in Users /\ o \in Users /\ r \in Roles /\ o = owner
      /\ visible(n) /\ member[n].status = "ACTIVE"
      /\ req[q].row = member[n]
      /\ req[q].myRole # "none" => req[q].myRole = member[o].role
  <2>1. applicable(req[q].op, req[q].actor, req[q].target, req[q].role)
    BY <1>1, Undisturbed
  <2>2. visible(n) /\ member[n].status = "ACTIVE" /\ owner = o
    BY <1>0, <1>1, <2>1 DEF applicable
  <2> QED
    BY <1>0, <1>1, <2>2, Undisturbed
<1>4. roleSeen(q, held, o) = member[o].role
  BY <1>0, <1>3 DEF roleSeen
<1>5. PICK promoted : promoted = [member EXCEPT ![n] = withRole(@, member[n].role, "Owner")]
  OBVIOUS
<1>6. PICK seen : seen = IF n = o THEN "Owner" ELSE member[o].role
  OBVIOUS
<1>7. member' = IF visible(o) THEN [promoted EXCEPT ![o] = withRole(@, seen, r)]
                ELSE promoted
  BY <1>0, <1>1, <1>3, <1>4, <1>5, <1>6 DEF transferred
<1>8. /\ promoted \in [Users -> Member]
      /\ promoted[n] = [member[n] EXCEPT !.role = "Owner"]
      /\ \A v \in Users : v # n => promoted[v] = member[v]
  <2>1. withRole(member[n], member[n].role, "Owner") = [member[n] EXCEPT !.role = "Owner"]
    BY <1>2, <1>3, RoleWritten
  <2>2. [member[n] EXCEPT !.role = "Owner"] \in Member
    BY <1>2, <1>3 DEF Member
  <2> QED
    BY <1>2, <1>3, <1>5, <2>1, <2>2
<1>9. ASSUME NEW v \in Users
      PROVE  member'[v] = IF v = o /\ visible(o) THEN [member[v] EXCEPT !.role = r]
                          ELSE IF v = n THEN [member[v] EXCEPT !.role = "Owner"]
                          ELSE member[v]
  <2>1. promoted[o] \in Member /\ seen = promoted[o].role
    BY <1>2, <1>3, <1>6, <1>8 DEF Member
  <2>2. withRole(promoted[o], seen, r) = [promoted[o] EXCEPT !.role = r]
    BY <1>3, <2>1, RoleWritten
  <2>3. [promoted[o] EXCEPT !.role = r] = [member[o] EXCEPT !.role = r]
    BY <1>2, <1>3, <1>8 DEF Member
  <2>4. CASE visible(o)
    <3>1. member' = [promoted EXCEPT ![o] = withRole(promoted[o], seen, r)]
      BY <1>7, <2>4
    <3> QED
      BY <1>3, <1>8, <2>2, <2>3, <2>4, <3>1
  <2>5. CASE ~ visible(o)
    BY <1>7, <1>8, <2>5
  <2> QED
    BY <2>4, <2>5
<1>10. ASSUME NEW v \in Users
       PROVE  shown'[v] = IF v = o /\ visible(o) THEN [shown[v] EXCEPT !.role = r]
                          ELSE IF v = n THEN [shown[v] EXCEPT !.role = "Owner"]
                          ELSE shown[v]
  <2>1. shown'[v] = inTeam(member'[v]) /\ shown[v] = inTeam(member[v])
    BY DEF shown
  <2>2. member[v] \in Member
    BY <1>2
  <2>3. visible(v) => \A x \in Roles : inTeam([member[v] EXCEPT !.role = x])
                                        = [inTeam(member[v]) EXCEPT !.role = x]
    BY <2>2 DEF inTeam, visible, Member
  <2> QED
    BY <1>2, <1>3, <1>9, <2>1, <2>3
<1>11. Team!inside(o) <=> visible(o)
  BY <1>2, <1>3, Shown
<1>12. shown' = [v \in Users |->
                   IF v = o /\ Team!inside(o) THEN [shown[v] EXCEPT !.role = r]
                   ELSE IF v = n THEN [shown[v] EXCEPT !.role = "Owner"]
                   ELSE shown[v]]
  BY <1>10, <1>11 DEF shown
<1>13. Team!active(n)
  BY <1>2, <1>3, Shown
<1>14. owner' = n
  BY <1>1, <1>3
<1>15. Team!Transfer(o, n, r)
  BY <1>1, <1>3, <1>12, <1>13, <1>14 DEF Team!Transfer, shown
<1> QED
  BY <1>0, <1>3, <1>15

\* A request that nobody disturbs changes the team at once, by its actor.
LEMMA WriteSerial ==
    ASSUME IInv, AllAllowed, NEW q \in Requests, q \notin dirty, "overlap" \notin excuses,
           WriteMember(q) \/ WriteTransfer(q) \/ WriteDelete(q)
    PROVE  Team!Change
<1>1. req[q].pc = "writing"
  BY DEF WriteMember, WriteTransfer, WriteDelete
<1>2. req[q].actor \in Users /\ Team!mayChange(req[q].actor)
  BY <1>1, Undisturbed
<1>3. "overlap" \notin excuses'
  <2>1. overlap(q) = {}
    BY DEF overlap
  <2>2. excuses' \subseteq excuses \cup {"transfer to oneself"}
    BY <2>1 DEF WriteMember, WriteTransfer, WriteDelete
  <2> QED
    BY <2>2
<1>4. CASE WriteMember(q)
  BY <1>2, <1>3, <1>4, WriteMemberSerial DEF Team!Change
<1>5. CASE WriteTransfer(q)
  BY <1>2, <1>3, <1>5, WriteTransferSerial DEF Team!Change
<1>6. CASE WriteDelete(q)
  <2>1. applicable(req[q].op, req[q].actor, req[q].target, req[q].role)
    BY <1>1, Undisturbed
  <2>2. req[q].op = "delete" /\ closed' = TRUE /\ UNCHANGED <<member, owner>>
    BY <1>6 DEF WriteDelete
  <2>3. req[q].actor = owner
    BY <2>1, <2>2 DEF applicable
  <2>4. Team!Close(req[q].actor)
    BY <2>2, <2>3 DEF Team!Close
  <2> QED
    BY <1>2, <1>3, <2>4 DEF Team!Change
<1> QED
  BY <1>4, <1>5, <1>6

\* Every step is one of the team's, shows nothing of it, or ends the promise.
LEMMA TeamStep ==
    ASSUME IInv, AllAllowed, [MemberNext]_memberVars
    PROVE  [Team!Change \/ Team!Overlap]_(Team!teamVars)
<1>1. ASSUME UNCHANGED <<member, owner, closed, excuses>>
      PROVE  UNCHANGED Team!teamVars
  BY <1>1 DEF Team!teamVars
<1>2. ASSUME NEW q \in Requests, Begin(q) \/ Check(q) \/ CheckFails(q)
      PROVE  UNCHANGED Team!teamVars
  BY <1>1, <1>2 DEF Begin, Check, CheckFails
<1>3. ASSUME NEW q \in Requests, WriteMember(q) \/ WriteTransfer(q) \/ WriteDelete(q)
      PROVE  Team!Change \/ Team!Overlap
  <2>1. CASE q \in dirty \/ "overlap" \in excuses
    BY <1>3, <2>1 DEF WriteMember, WriteTransfer, WriteDelete, overlap, Team!Overlap
  <2>2. CASE q \notin dirty /\ "overlap" \notin excuses
    BY <1>3, <2>2, WriteSerial
  <2> QED
    BY <2>1, <2>2
<1>4. CASE UNCHANGED memberVars
  BY <1>1, <1>4 DEF memberVars
<1> QED
  BY <1>2, <1>3, <1>4 DEF MemberNext

LEMMA TeamStart == Init => Team!TeamInit
<1> SUFFICES ASSUME Init PROVE Team!TeamInit
  OBVIOUS
<1>1. PICK founder \in Users :
        /\ owner = founder
        /\ \E others \in [Users \ {founder} -> Roles] :
              member = [u \in Users |-> IF u = founder THEN joined("Owner")
                                        ELSE joined(others[u])]
  BY DEF Init
<1>2. PICK others \in [Users \ {founder} -> Roles] :
        member = [u \in Users |-> IF u = founder THEN joined("Owner")
                                  ELSE joined(others[u])]
  BY <1>1
<1> DEFINE role == [u \in Users |-> IF u = founder THEN "Owner" ELSE others[u]]
<1>3. role \in [Users -> Roles] /\ role[owner] = "Owner"
  BY <1>1, MembershipAssumption
<1>4. \A u \in Users : member[u] = joined(role[u])
  BY <1>2
<1> HIDE DEF role
<1>5. ASSUME NEW u \in Users
      PROVE  inTeam(member[u]) = [place |-> "active", role |-> role[u]]
  <2>1. member[u] = [role |-> role[u], status |-> "ACTIVE", deleted |-> FALSE]
    BY <1>4 DEF joined
  <2> QED
    BY <2>1 DEF inTeam
<1>6. shown = [u \in Users |-> Team!in("active", role[u])]
  BY <1>5 DEF shown, Team!in
<1> QED
  BY <1>1, <1>3, <1>6 DEF Init, Team!TeamInit, shown

\* Role changes, suspensions, removals, transfers and the deletion of a workspace,
\* each a request in several steps, are serial as long as no two of them overlap:
\* Membership implements Team, for any users, roles and requests.
THEOREM UndisturbedChangesAreSerial == Spec => ChangesAreSerial
<1>1. Init => AllAllowed
  BY DEF Init, AllAllowed, Allowed, Idle
<1>2. IInv /\ AllAllowed /\ [MemberNext]_memberVars => AllAllowed'
  BY AllowedStep
<1>3. IInv /\ AllAllowed /\ [MemberNext]_memberVars
        => [Team!Change \/ Team!Overlap]_(Team!teamVars)
  BY TeamStep
<1> QED
  BY <1>1, <1>2, <1>3, InitIInv, NextIInv, TeamStart, PTL
     DEF Spec, ChangesAreSerial, Team!TeamSpec

=============================================================================
