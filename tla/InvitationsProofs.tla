-------------------------- MODULE InvitationsProofs --------------------------
(***************************************************************************)
(* Proofs about Invitations, for any users, invitations and requests of    *)
(* both kinds.  Admissions and memberships meet in one table: an           *)
(* acceptance may add a row while a request on a member is in progress, so *)
(* the invariant of MembershipProofs is shown to survive it, strengthened  *)
(* by what a row that is not there means.                                  *)
(***************************************************************************)
EXTENDS Invitations, MembershipProofs

\* A request is about rows that exist, and rows do not vanish.
Present(q) ==
    req[q].pc # "idle" =>
        /\ member[req[q].target].status # "NONE"
        /\ req[q].myRole # "none" => member[req[q].actor].status # "NONE"

MemberInv ==
    /\ IInv
    /\ member[owner].status # "NONE"
    /\ \A u \in Users : member[u].status = "NONE" => ~member[u].deleted
    /\ \A q \in Requests : Present(q)

\* What a request has loaded of an invitation.
Loaded(c) ==
    /\ call[c].invite # NoInvite =>
          call[c].seen = "PENDING" /\ invite[call[c].invite].status # "NONE"
    /\ call[c].pc \in {"revoke", "resend", "accepting", "accept"} =>
          call[c].invite # NoInvite
    /\ call[c].pc \in {"creating", "create", "accepting", "accept"} =>
          call[c].email \in Users /\ call[c].role \in Roles
    /\ call[c].pc \in {"accepting", "accept"} =>
          call[c].email = invite[call[c].invite].email
    /\ call[c].pc = "accept" /\ call[c].member =>
          member[call[c].email].status # "NONE"

InviteTypes ==
    /\ invite \in [Invites -> Invite]
    /\ call \in [Calls -> Call]
    /\ admitted \in [Users -> Invites \cup {NoInvite}]
    /\ hasty \subseteq Invites

Addressed ==
    \A i \in Invites : invite[i].status # "NONE" =>
        invite[i].email \in Users /\ invite[i].role \in Roles

\* Someone was admitted by an invitation there is.
Admitted == \A u \in Users : admitted[u] # NoInvite => invite[admitted[u]].status # "NONE"

InviteInv ==
    /\ InviteTypes
    /\ Addressed
    /\ Admitted
    /\ \A c \in Calls : Loaded(c)
    /\ AdmissionsAgree

Inv == MemberInv /\ InviteInv

\* Steps: no row vanishes or comes back from its deletion, no invitation
\* vanishes or changes its address, and no outcome changes unnoticed.
RowsStay ==
    \A u \in Users :
        /\ member[u].status # "NONE" => member'[u].status # "NONE"
        /\ member[u].deleted => member'[u].deleted

InvitesStay ==
    \A i \in Invites : invite[i].status # "NONE" =>
        invite'[i].status # "NONE" /\ invite'[i].email = invite[i].email

OutcomesStay ==
    \A i \in Invites :
        invite[i].status \in {"ACCEPTED", "REVOKED"} /\ invite'[i].status # invite[i].status
            => i \in hasty'

-----------------------------------------------------------------------------
LEMMA InvitationsInitInv == InvitationsInit => Inv
<1> SUFFICES ASSUME InvitationsInit PROVE Inv
  OBVIOUS
<1>1. PICK founder \in Users :
        /\ owner = founder
        /\ member = [u \in Users |-> IF u = founder THEN joined("Owner") ELSE NoMember]
        /\ admitted = [u \in Users |-> NoInvite]
  BY DEF InvitationsInit
<1>2. "Owner" \in Roles
  BY MembershipAssumption
<1>3. /\ joined("Owner") \in Member /\ joined("Owner").status = "ACTIVE"
      /\ ~joined("Owner").deleted /\ joined("Owner").role = "Owner"
      /\ NoMember \in Member /\ NoMember.status = "NONE" /\ ~NoMember.deleted
  BY <1>2 DEF joined, Member, NoMember
<1>4. /\ member \in [Users -> Member] /\ member[founder] = joined("Owner")
      /\ \A u \in Users : member[u].status # "REMOVED" /\ ~member[u].deleted
  BY <1>1, <1>3
<1>5. Idle \in Request /\ Idle.pc = "idle"
  BY <1>2 DEF Idle, Request, NoMember, Member
<1>6. MemberTypeOK
  BY <1>1, <1>4, <1>5 DEF InvitationsInit, MemberTypeOK
<1>7. OwnerRemains
  BY <1>3, <1>4 DEF OwnerRemains, activeOwner
<1>8. ASSUME NEW q \in Requests PROVE Asked(q) /\ Current(q) /\ Spared(q) /\ Present(q)
  BY <1>5 DEF InvitationsInit, Asked, Current, Spared, Present
<1>9. MemberInv
  BY <1>1, <1>3, <1>4, <1>6, <1>7, <1>8 DEF MemberInv, IInv
<1>10. /\ invite = [i \in Invites |-> NoRow] /\ call = [c \in Calls |-> NoCall]
       /\ hasty = {}
  BY DEF InvitationsInit
<1>11. NoRow \in Invite /\ NoRow.status = "NONE" /\ NoCall \in Call
       /\ NoCall.pc = "idle" /\ NoCall.invite = NoInvite
  BY DEF NoRow, Invite, Status, NoCall, Call
<1>12. InviteTypes /\ Addressed /\ Admitted /\ AdmissionsAgree
  BY <1>1, <1>10, <1>11 DEF InviteTypes, Addressed, Admitted, AdmissionsAgree
<1>13. ASSUME NEW c \in Calls PROVE Loaded(c)
  BY <1>10, <1>11 DEF Loaded
<1> QED
  BY <1>9, <1>12, <1>13 DEF Inv, InviteInv

-----------------------------------------------------------------------------
\* What the requests on members do to the rows.
LEMMA PresentKept ==
    ASSUME NEW q \in Requests, IInv, Present(q), RowsStay, req'[q] = req[q],
           req[q].pc # "idle"
    PROVE  Present(q)'
  BY DEF IInv, Asked, Present, RowsStay

LEMMA BeginPresent ==
    ASSUME MemberInv, NEW q \in Requests, Begin(q)
    PROVE  /\ Present(q)'
           /\ \A p \in Requests : p # q => req'[p] = req[p]
<1>1. PICK op \in Ops, a \in Users, u \in Users, r \in Roles \cup {"none"} :
        /\ canAct(a)
        /\ applicable(op, a, u, r)
        /\ op \in {"change_role", "transfer"} <=> r # "none"
        /\ req' = [req EXCEPT ![q] =
              [pc |-> IF protecting(op) THEN "checking" ELSE "writing",
               op |-> op, actor |-> a, target |-> u, role |-> r,
               byOwner |-> owner = a,
               myRole |-> IF visible(a) THEN member[a].role ELSE "none",
               row |-> member[u]]]
  BY Zenon DEF Begin
<1> DEFINE role == IF visible(a) THEN member[a].role ELSE "none"
           new == [pc |-> IF protecting(op) THEN "checking" ELSE "writing",
                   op |-> op, actor |-> a, target |-> u, role |-> r,
                   byOwner |-> owner = a, myRole |-> role, row |-> member[u]]
<1>2. member' = member /\ req \in [Requests -> Request]
  BY DEF Begin, MemberInv, IInv, MemberTypeOK
<1>3. new.target = u /\ new.actor = a /\ new.myRole = role
  OBVIOUS
<1>4. req' = [req EXCEPT ![q] = new]
  BY <1>1
<1>5. role # "none" => member[a].status # "NONE"
  BY DEF visible
<1>6. member[u].status # "NONE"
  <2>1. visible(u) \/ owner = u
    BY <1>1, MembershipAssumption DEF applicable
  <2> QED
    BY <2>1 DEF visible, MemberInv
<1> HIDE DEF role, new
<1>7. req'[q] = new /\ \A p \in Requests : p # q => req'[p] = req[p]
  BY <1>2, <1>4
<1>8. Present(q)'
  BY <1>2, <1>3, <1>5, <1>6, <1>7 DEF Present
<1> QED
  BY <1>7, <1>8

LEMMA WriteMemberRows ==
    ASSUME MemberInv, NEW q \in Requests, WriteMember(q)
    PROVE  RowsStay /\ \A u \in Users : member'[u].status = "NONE" => ~member'[u].deleted
<1> DEFINE t == req[q].target
<1>1. IInv /\ Asked(q) /\ Present(q) /\ req[q].pc = "writing" /\ member' = updated(q)
      /\ req[q].op \in {"change_role", "suspend", "reactivate", "remove"}
  BY DEF MemberInv, IInv, WriteMember
<1>2. t \in Users /\ member[t] \in Member /\ member \in [Users -> Member]
      /\ member[t].status # "NONE"
  BY <1>1 DEF Asked, IInv, MemberTypeOK, Present
<1>3. \A u \in Users : u # t => member'[u] = member[u]
  BY <1>1, Updated
<1>4. member'[t].status # "NONE" /\ (member[t].deleted => member'[t].deleted)
  <2>1. CASE req[q].op = "change_role"
    <3>1. member' = [member EXCEPT ![t].role = req[q].role]
      BY <1>1, <2>1 DEF updated
    <3> QED
      BY <1>2, <3>1 DEF Member
  <2>2. CASE req[q].op = "suspend"
    <3>1. member' = [member EXCEPT ![t].status = "SUSPENDED"]
      BY <1>1, <2>2 DEF updated
    <3> QED
      BY <1>2, <3>1 DEF Member
  <2>3. CASE req[q].op = "reactivate"
    <3>1. member' = [member EXCEPT ![t].status = "ACTIVE"]
      BY <1>1, <2>3 DEF updated
    <3> QED
      BY <1>2, <3>1 DEF Member
  <2>4. CASE req[q].op = "remove"
    <3>1. member' = [member EXCEPT ![t].status = "REMOVED", ![t].deleted = TRUE]
      BY <1>1, <2>4 DEF updated
    <3> QED
      BY <1>2, <3>1 DEF Member
  <2> QED
    BY <1>1, <2>1, <2>2, <2>3, <2>4
<1> HIDE DEF t
<1> QED
  BY <1>2, <1>3, <1>4 DEF RowsStay, MemberInv

\* A transfer changes roles and nothing else of the rows.
LEMMA WriteTransferRows ==
    ASSUME MemberInv, NEW q \in Requests, WriteTransfer(q)
    PROVE  /\ \A u \in Users : /\ member'[u].status = member[u].status
                               /\ member'[u].deleted = member[u].deleted
           /\ owner' \in Users /\ member'[owner'].status # "NONE"
<1> PICK held \in BOOLEAN : member' = transferred(q, held)
  BY DEF WriteTransfer
<1> DEFINE n == req[q].target
           o == req[q].actor
           promoted == IF visible(n)
                       THEN [member EXCEPT ![n] = withRole(@, req[q].row.role, "Owner")]
                       ELSE member
           seen == IF n = o THEN "Owner" ELSE roleSeen(q, held, o)
<1>1. /\ IInv /\ Asked(q) /\ Present(q) /\ req[q].pc = "writing"
      /\ req[q].op = "transfer" /\ member' = transferred(q, held)
      /\ owner' = IF req[q].target # req[q].actor THEN req[q].target ELSE owner
      /\ member[owner].status # "NONE"
  BY DEF MemberInv, IInv, WriteTransfer
<1>2. n \in Users /\ o \in Users /\ req[q].role \in Roles /\ "Owner" \in Roles
      /\ member \in [Users -> Member] /\ owner \in Users /\ member[n].status # "NONE"
  BY <1>1, MembershipAssumption DEF Asked, IInv, MemberTypeOK, Present
<1>3. /\ promoted \in [Users -> Member]
      /\ \A u \in Users : promoted[u].status = member[u].status
                          /\ promoted[u].deleted = member[u].deleted
  <2>1. CASE visible(n)
    <3>1. promoted = [member EXCEPT ![n] = withRole(member[n], req[q].row.role, "Owner")]
      BY <2>1
    <3>2. member[n] \in Member
      BY <1>2
    <3> QED
      BY <1>2, <3>1, <3>2, WithRole
  <2> QED
    BY <1>2, <2>1
<1>4. \A u \in Users : member'[u].status = member[u].status
                       /\ member'[u].deleted = member[u].deleted
  <2>1. member' = IF visible(o) THEN [promoted EXCEPT ![o] = withRole(@, seen, req[q].role)]
                  ELSE promoted
    BY <1>1 DEF transferred
  <2> HIDE DEF promoted
  <2>2. CASE visible(o)
    <3>1. promoted[o] \in Member
      BY <1>2, <1>3
    <3>2. member' = [promoted EXCEPT ![o] = withRole(promoted[o], seen, req[q].role)]
      BY <2>1, <2>2
    <3> QED
      BY <1>2, <1>3, <3>1, <3>2, WithRole
  <2>3. CASE ~visible(o)
    BY <1>3, <2>1, <2>3
  <2> QED
    BY <2>2, <2>3
<1> QED
  BY <1>1, <1>2, <1>4

\* After a commit the request is idle, and the others are as they were.
LEMMA CommittedRequests ==
    ASSUME IInv, NEW q \in Requests, req' = [req EXCEPT ![q] = Idle]
    PROVE  \A p \in Requests : req'[p].pc # "idle" => req'[p] = req[p]
<1>1. Idle.pc = "idle"
  BY DEF Idle
<1> QED
  BY <1>1 DEF IInv, MemberTypeOK

\* A step whose rows stay and whose other requests are idle or as they were.
LEMMA MemberInvKept ==
    ASSUME MemberInv, IInv', RowsStay, member'[owner'].status # "NONE",
           \A u \in Users : member'[u].status = "NONE" => ~member'[u].deleted,
           \A p \in Requests : req'[p].pc # "idle" => req'[p] = req[p] \/ Present(p)'
    PROVE  MemberInv'
<1>1. ASSUME NEW p \in Requests PROVE Present(p)'
  <2>1. CASE req'[p].pc = "idle"
    BY <2>1 DEF Present
  <2>2. CASE req'[p].pc # "idle" /\ req'[p] = req[p]
    BY <2>2, PresentKept DEF MemberInv
  <2> QED
    BY <2>1, <2>2
<1> QED
  BY <1>1 DEF MemberInv

LEMMA MemberSteps ==
    ASSUME MemberInv, [MemberNext]_memberVars
    PROVE  MemberInv' /\ RowsStay
<1>1. IInv' /\ IInv /\ member[owner].status # "NONE" /\ owner \in Users
      /\ \A u \in Users : member[u].status = "NONE" => ~member[u].deleted
  BY NextIInv DEF MemberInv, IInv, MemberTypeOK
<1>2. ASSUME member' = member, owner' = owner
      PROVE  /\ RowsStay /\ member'[owner'].status # "NONE"
             /\ \A u \in Users : member'[u].status = "NONE" => ~member'[u].deleted
  BY <1>1, <1>2 DEF RowsStay
<1>3. ASSUME NEW q \in Requests, Begin(q) PROVE MemberInv' /\ RowsStay
  <2>1. member' = member /\ owner' = owner
    BY <1>3 DEF Begin
  <2>2. \A p \in Requests : req'[p].pc # "idle" => req'[p] = req[p] \/ Present(p)'
    BY <1>3, BeginPresent
  <2> QED
    BY <1>1, <1>2, <2>1, <2>2, MemberInvKept
<1>4. ASSUME NEW q \in Requests, Check(q) PROVE MemberInv' /\ RowsStay
  <2>1. member' = member /\ owner' = owner /\ req[q].pc = "checking"
        /\ req' = [req EXCEPT ![q].pc = "writing"]
    BY <1>4 DEF Check
  <2>2. req \in [Requests -> Request] /\ Present(q)
    BY DEF MemberInv, IInv, MemberTypeOK
  <2>3. /\ \A p \in Requests : p # q => req'[p] = req[p]
        /\ req'[q].target = req[q].target /\ req'[q].actor = req[q].actor
        /\ req'[q].myRole = req[q].myRole
    BY <2>1, <2>2 DEF Request
  <2>4. Present(q)'
    BY <2>1, <2>2, <2>3 DEF Present
  <2> QED
    BY <1>1, <1>2, <2>1, <2>3, <2>4, MemberInvKept
<1>5. ASSUME NEW q \in Requests, CheckFails(q) PROVE MemberInv' /\ RowsStay
  <2>1. member' = member /\ owner' = owner /\ req' = [req EXCEPT ![q] = Idle]
    BY <1>5 DEF CheckFails
  <2> QED
    BY <1>1, <1>2, <2>1, CommittedRequests, MemberInvKept
<1>6. ASSUME NEW q \in Requests, WriteMember(q) PROVE MemberInv' /\ RowsStay
  <2>1. owner' = owner /\ req' = [req EXCEPT ![q] = Idle]
    BY <1>6 DEF WriteMember, commit
  <2>2. RowsStay /\ \A u \in Users : member'[u].status = "NONE" => ~member'[u].deleted
    BY <1>6, WriteMemberRows
  <2>3. member'[owner'].status # "NONE"
    BY <1>1, <2>1, <2>2 DEF RowsStay
  <2> QED
    BY <1>1, <2>1, <2>2, <2>3, CommittedRequests, MemberInvKept
<1>7. ASSUME NEW q \in Requests, WriteTransfer(q) PROVE MemberInv' /\ RowsStay
  <2>1. req' = [req EXCEPT ![q] = Idle]
    BY <1>7 DEF WriteTransfer, commit
  <2>2. RowsStay /\ \A u \in Users : member'[u].status = "NONE" => ~member'[u].deleted
    BY <1>1, <1>7, WriteTransferRows DEF RowsStay
  <2> QED
    BY <1>1, <1>7, <2>1, <2>2, WriteTransferRows, CommittedRequests, MemberInvKept
<1>8. ASSUME NEW q \in Requests, WriteDelete(q) PROVE MemberInv' /\ RowsStay
  <2>1. member' = member /\ owner' = owner /\ req' = [req EXCEPT ![q] = Idle]
    BY <1>8 DEF WriteDelete, commit
  <2> QED
    BY <1>1, <1>2, <2>1, CommittedRequests, MemberInvKept
<1>9. CASE UNCHANGED memberVars
  <2>1. member' = member /\ owner' = owner /\ req' = req
    BY <1>9 DEF memberVars
  <2> QED
    BY <1>1, <1>2, <2>1, MemberInvKept
<1> QED
  BY <1>3, <1>4, <1>5, <1>6, <1>7, <1>8, <1>9 DEF MemberNext

\* An acceptance adds a row under requests in progress: none of them has
\* loaded it, and no owner is lost.
LEMMA AdmissionKeeps ==
    ASSUME MemberInv, NEW u \in Users, NEW r \in Roles, member[u].status = "NONE",
           member' = [member EXCEPT ![u] = joined(r)],
           UNCHANGED <<owner, closed, req, dirty, excuses>>
    PROVE  MemberInv' /\ RowsStay
<1>1. joined(r) \in Member /\ joined(r).status = "ACTIVE" /\ ~joined(r).deleted
  BY DEF joined, Member
<1>2. IInv /\ MemberTypeOK /\ member \in [Users -> Member] /\ ~member[u].deleted
  BY DEF MemberInv, IInv, MemberTypeOK
<1>3. /\ member' \in [Users -> Member]
      /\ member'[u].status = "ACTIVE" /\ ~member'[u].deleted
      /\ \A v \in Users : v # u => member'[v] = member[v]
  BY <1>1, <1>2
<1>4. \A v \in Users : member[v].status # "NONE" => member'[v] = member[v]
  BY <1>3
<1>5. RowsStay
  BY <1>2, <1>3 DEF RowsStay
<1>6. MemberTypeOK'
  BY <1>2, <1>3 DEF MemberTypeOK
<1>7. ASSUME NEW v \in Users, activeOwner(member[v]) PROVE activeOwner(member'[v])
  BY <1>4, <1>7 DEF activeOwner
<1>8. OwnerRemains'
  BY <1>2, <1>7 DEF IInv, OwnerRemains
<1>9. ASSUME NEW q \in Requests PROVE Asked(q)' /\ Current(q)' /\ Spared(q)'
  <2>1. Asked(q) /\ Current(q) /\ Spared(q) /\ Present(q) /\ req'[q] = req[q]
        /\ dirty' = dirty
    BY DEF MemberInv, IInv
  <2>2. Asked(q)'
    BY <2>1 DEF Asked
  <2>3. Current(q)'
    BY <1>4, <2>1 DEF Current, Present, Asked
  <2>4. Spared(q)'
    <3>1. SUFFICES ASSUME req[q].pc = "writing", q \notin dirty, protecting(req[q].op),
                          activeOwner(req[q].row)
                   PROVE  \E v \in Users \ {req[q].target} : activeOwner(member'[v])
      BY <2>1 DEF Spared, activeOwner
    <3>2. PICK v \in Users \ {req[q].target} : activeOwner(member[v])
      BY <2>1, <3>1 DEF Spared
    <3> QED
      BY <1>7, <3>2
  <2> QED
    BY <2>2, <2>3, <2>4
<1>10. IInv'
  BY <1>6, <1>8, <1>9 DEF IInv
<1>11. member'[owner'].status # "NONE"
  BY <1>2, <1>5 DEF RowsStay, MemberInv, MemberTypeOK
<1>12. \A v \in Users : member'[v].status = "NONE" => ~member'[v].deleted
  BY <1>3 DEF MemberInv
<1> QED
  BY <1>5, <1>10, <1>11, <1>12, MemberInvKept

-----------------------------------------------------------------------------
\* What a request has loaded stays true while rows and invitations stay.
LEMMA LoadedKept ==
    ASSUME NEW c \in Calls, InviteTypes, Addressed, Loaded(c), RowsStay, InvitesStay,
           \/ call'[c] = call[c]
           \/ call'[c] = [call[c] EXCEPT !.late = TRUE]
    PROVE  Loaded(c)'
<1>1. call[c] \in Call
  BY DEF InviteTypes
<1>2. /\ call'[c].pc = call[c].pc /\ call'[c].email = call[c].email
      /\ call'[c].role = call[c].role /\ call'[c].invite = call[c].invite
      /\ call'[c].seen = call[c].seen /\ call'[c].member = call[c].member
  BY <1>1 DEF Call
<1>3. call[c].invite # NoInvite =>
        /\ invite'[call[c].invite].status # "NONE"
        /\ invite'[call[c].invite].email = invite[call[c].invite].email
  BY <1>1 DEF Loaded, InvitesStay, Call
<1>4. call[c].pc = "accept" /\ call[c].member => member'[call[c].email].status # "NONE"
  BY DEF Loaded, RowsStay
<1> QED
  BY <1>2, <1>3, <1>4 DEF Loaded

\* A step that accepts nothing.
LEMMA InviteInvKept ==
    ASSUME InviteInv, InviteTypes', Addressed', RowsStay, InvitesStay, OutcomesStay,
           admitted' = admitted, hasty \subseteq hasty',
           \A i \in Invites : invite'[i].status = "ACCEPTED" => invite[i].status = "ACCEPTED",
           \A c \in Calls : Loaded(c)'
    PROVE  InviteInv'
<1>1. InviteTypes /\ Addressed /\ Admitted /\ AdmissionsAgree
  BY DEF InviteInv
<1>2. \A u \in Users : admitted[u] # NoInvite => admitted[u] \in Invites
  BY <1>1 DEF InviteTypes
<1>3. Admitted'
  BY <1>1, <1>2 DEF Admitted, InvitesStay
<1>4. \A u \in Users : admitted'[u] # NoInvite =>
        /\ invite'[admitted'[u]].email = u
        /\ invite'[admitted'[u]].status = "ACCEPTED" \/ admitted'[u] \in hasty'
  <2> SUFFICES ASSUME NEW u \in Users, admitted[u] # NoInvite
               PROVE  /\ invite'[admitted[u]].email = u
                      /\ invite'[admitted[u]].status = "ACCEPTED" \/ admitted[u] \in hasty'
    OBVIOUS
  <2>1. /\ admitted[u] \in Invites /\ invite[admitted[u]].status # "NONE"
        /\ invite[admitted[u]].email = u
        /\ invite[admitted[u]].status = "ACCEPTED" \/ admitted[u] \in hasty
    BY <1>1, <1>2 DEF Admitted, AdmissionsAgree
  <2> QED
    BY <2>1 DEF InvitesStay, OutcomesStay
<1>5. \A i \in Invites : invite'[i].status = "ACCEPTED" =>
        member'[invite'[i].email].status # "NONE"
  <2> SUFFICES ASSUME NEW i \in Invites, invite[i].status = "ACCEPTED"
               PROVE  member'[invite'[i].email].status # "NONE"
    OBVIOUS
  <2>1. /\ invite[i].email \in Users /\ invite'[i].email = invite[i].email
        /\ member[invite[i].email].status # "NONE"
    BY <1>1 DEF Addressed, AdmissionsAgree, InvitesStay
  <2> QED
    BY <2>1 DEF RowsStay
<1> QED
  BY <1>3, <1>4, <1>5 DEF InviteInv, AdmissionsAgree

\* The end of a request, and its beginning.
LEMMA Finished ==
    ASSUME InviteTypes, NEW c \in Calls, finish(c)
    PROVE  /\ call' \in [Calls -> Call] /\ Loaded(c)'
           /\ \A d \in Calls : d # c => call'[d] = call[d]
<1>1. NoCall \in Call /\ NoCall.pc = "idle" /\ NoCall.invite = NoInvite
  BY DEF NoCall, Call, Status
<1>2. call' = [call EXCEPT ![c] = NoCall] /\ call \in [Calls -> Call]
  BY DEF finish, InviteTypes
<1>3. call'[c] = NoCall /\ call' \in [Calls -> Call]
      /\ \A d \in Calls : d # c => call'[d] = call[d]
  BY <1>1, <1>2
<1> QED
  BY <1>1, <1>3 DEF Loaded

LEMMA CallMoves ==
    ASSUME Inv, NEW c \in Calls, NEW new \in Call, call' = [call EXCEPT ![c] = new],
           UNCHANGED <<memberVars, invite, admitted, hasty>>,
           Loaded(c)'
    PROVE  Inv' /\ RowsStay /\ OutcomesStay
<1>1. InviteInv /\ InviteTypes /\ Addressed /\ \A d \in Calls : Loaded(d)
  BY DEF Inv, InviteInv
<1>2. call' \in [Calls -> Call] /\ \A d \in Calls : d # c => call'[d] = call[d]
  BY <1>1 DEF InviteTypes
<1>3. MemberInv' /\ RowsStay
  BY MemberSteps DEF Inv
<1>4. InvitesStay /\ OutcomesStay
  BY DEF InvitesStay, OutcomesStay
<1>5. \A d \in Calls : Loaded(d)'
  BY <1>1, <1>2, <1>3, <1>4, LoadedKept
<1>6. InviteTypes' /\ Addressed'
  BY <1>1, <1>2 DEF InviteTypes, Addressed
<1> QED
  BY <1>1, <1>3, <1>4, <1>5, <1>6, InviteInvKept DEF Inv

LEMMA Started ==
    ASSUME Inv, NEW c \in Calls,
           NEW pc \in {"creating", "revoke", "resend", "accepting"},
           NEW u \in Users \cup {NoUser}, NEW r \in Roles \cup {"none"},
           NEW i \in Invites \cup {NoInvite},
           start(c, pc, u, r, i),
           i # NoInvite => invite[i].status = "PENDING",
           pc # "creating" => i # NoInvite,
           pc \in {"creating", "accepting"} => u \in Users /\ r \in Roles,
           pc = "accepting" => u = invite[i].email
    PROVE  Inv' /\ RowsStay /\ OutcomesStay
<1> DEFINE s == IF i = NoInvite THEN "NONE" ELSE invite[i].status
           new == [pc |-> pc, email |-> u, role |-> r, invite |-> i, late |-> FALSE,
                   member |-> FALSE, seen |-> s]
<1>1. /\ call' = [call EXCEPT ![c] = new]
      /\ UNCHANGED <<memberVars, invite, admitted, hasty>>
  BY DEF start
<1>2. call \in [Calls -> Call]
  BY DEF Inv, InviteInv, InviteTypes
<1>3. s \in Status /\ (i # NoInvite => s = "PENDING")
  BY DEF Status
<1>4. new \in Call /\ new.pc = pc /\ new.email = u /\ new.role = r /\ new.invite = i
      /\ new.member = FALSE /\ new.seen = s
  BY <1>3 DEF Call
<1> HIDE DEF new, s
<1>5. call'[c] = new
  BY <1>1, <1>2
<1>6. Loaded(c)'
  BY <1>1, <1>3, <1>4, <1>5 DEF Loaded
<1> QED
  BY <1>1, <1>4, <1>6, CallMoves

\* A revocation changes the status of one invitation, if any.
LEMMA Revoked ==
    ASSUME InviteTypes, NEW i \in Invites \cup {NoInvite}
    PROVE  /\ revoked(i) \in [Invites -> Invite]
           /\ \A j \in Invites : /\ revoked(i)[j].email = invite[j].email
                                 /\ revoked(i)[j].role = invite[j].role
                                 /\ revoked(i)[j].status =
                                       IF j = i THEN "REVOKED" ELSE invite[j].status
<1> USE DEF InviteTypes, Invite, Status
<1>1. ASSUME NEW j \in Invites
      PROVE  [invite[j] EXCEPT !.status = "REVOKED"] \in Invite
  OBVIOUS
<1>2. revoked(i) \in [Invites -> Invite]
  BY <1>1 DEF revoked
<1> QED
  BY <1>2 DEF revoked

\* A new expires_at changes nothing else.
LEMMA Relimited ==
    ASSUME InviteTypes, NEW i, NEW b \in BOOLEAN
    PROVE  /\ [invite EXCEPT ![i].late = b] \in [Invites -> Invite]
           /\ \A j \in Invites :
                /\ [invite EXCEPT ![i].late = b][j].email = invite[j].email
                /\ [invite EXCEPT ![i].late = b][j].role = invite[j].role
                /\ [invite EXCEPT ![i].late = b][j].status = invite[j].status
<1> DEFINE after == [invite EXCEPT ![i].late = b]
<1>1. ASSUME NEW j \in Invites
      PROVE  /\ after[j] \in Invite /\ after[j].email = invite[j].email
             /\ after[j].role = invite[j].role /\ after[j].status = invite[j].status
  <2>1. invite[j] \in Invite
    BY DEF InviteTypes
  <2>2. CASE j # i
    <3>1. after[j] = invite[j]
      BY <2>2 DEF InviteTypes
    <3> QED
      BY <2>1, <3>1
  <2>3. CASE j = i
    <3>1. after[j] = [invite[j] EXCEPT !.late = b]
      BY <2>3 DEF InviteTypes
    <3> QED
      BY <2>1, <3>1 DEF Invite
  <2> QED
    BY <2>2, <2>3
<1>2. DOMAIN after = Invites /\ after = [j \in Invites |-> after[j]]
  BY DEF InviteTypes
<1> HIDE DEF after
<1>3. after \in [Invites -> Invite]
  BY <1>1, <1>2
<1> QED
  BY <1>1, <1>3 DEF after

\* The end of a request that accepts nothing.
LEMMA Written ==
    ASSUME Inv, NEW c \in Calls, finish(c), UNCHANGED <<memberVars, admitted>>,
           invite' \in [Invites -> Invite], hasty' \subseteq Invites, hasty \subseteq hasty',
           Addressed', InvitesStay, OutcomesStay,
           \A i \in Invites : invite'[i].status = "ACCEPTED" => invite[i].status = "ACCEPTED"
    PROVE  Inv' /\ RowsStay /\ OutcomesStay
<1>1. InviteInv /\ InviteTypes /\ Addressed /\ \A d \in Calls : Loaded(d)
  BY DEF Inv, InviteInv
<1>2. MemberInv' /\ RowsStay
  BY MemberSteps DEF Inv
<1>3. InviteTypes'
  BY <1>1, Finished DEF InviteTypes
<1>4. \A d \in Calls : Loaded(d)'
  BY <1>1, <1>2, Finished, LoadedKept
<1> QED
  BY <1>1, <1>2, <1>3, <1>4, InviteInvKept DEF Inv

\* A write that revokes: an invitation that was no longer PENDING is hasty.
LEMMA RevocationTracked ==
    ASSUME Inv, NEW c \in Calls, hasty' = hasty \cup overtaken(c),
           call[c].invite # NoInvite
    PROVE  call[c].invite \in Invites
           /\ (invite[call[c].invite].status # "PENDING" => call[c].invite \in hasty')
<1>1. call[c].invite \in Invites
  BY DEF Inv, InviteInv, InviteTypes, Call
<1>2. call[c].seen = "PENDING"
  BY DEF Inv, InviteInv, Loaded
<1> QED
  BY <1>1, <1>2 DEF overtaken

LEMMA CreateReadKeeps ==
    ASSUME Inv, NEW c \in Calls, CreateRead(c) PROVE Inv' /\ RowsStay /\ OutcomesStay
<1>1. PICK u \in Users, r \in Roles : start(c, "creating", u, r, NoInvite)
  BY DEF CreateRead
<1> QED
  BY <1>1, Started

LEMMA CreateLookKeeps ==
    ASSUME Inv, NEW c \in Calls, CreateLook(c) PROVE Inv' /\ RowsStay /\ OutcomesStay
<1>1. /\ call \in [Calls -> Call] /\ call[c] \in Call /\ Loaded(c)
      /\ call[c].pc = "creating"
      /\ UNCHANGED <<memberVars, invite, admitted, hasty>>
  BY DEF Inv, InviteInv, InviteTypes, CreateLook
<1>2. CASE call' = [call EXCEPT ![c].pc = "create"]
  <2>1. PICK new : new = [call[c] EXCEPT !.pc = "create"]
    OBVIOUS
  <2>2. /\ new \in Call /\ new.pc = "create" /\ new.email = call[c].email
        /\ new.role = call[c].role /\ new.invite = call[c].invite
        /\ new.seen = call[c].seen
    BY <1>1, <2>1 DEF Call
  <2>3. call' = [call EXCEPT ![c] = new] /\ call'[c] = new
    BY <1>1, <1>2, <2>1
  <2>4. Loaded(c)'
    BY <1>1, <2>2, <2>3 DEF Loaded
  <2> QED
    BY <1>1, <2>2, <2>3, <2>4, CallMoves
<1>3. ASSUME NEW i \in pending(call[c].email),
             call' = [call EXCEPT ![c].pc = "create", ![c].invite = i,
                                  ![c].seen = "PENDING"]
      PROVE  Inv' /\ RowsStay /\ OutcomesStay
  <2>1. PICK new : new = [call[c] EXCEPT !.pc = "create", !.invite = i, !.seen = "PENDING"]
    OBVIOUS
  <2>2. i \in Invites /\ invite[i].status = "PENDING"
    BY DEF pending
  <2>3. /\ new \in Call /\ new.pc = "create" /\ new.email = call[c].email
        /\ new.role = call[c].role /\ new.invite = i /\ new.seen = "PENDING"
    BY <1>1, <2>1, <2>2 DEF Call, Status
  <2>4. call' = [call EXCEPT ![c] = new] /\ call'[c] = new
    BY <1>1, <1>3, <2>1
  <2>5. Loaded(c)'
    BY <1>1, <2>2, <2>3, <2>4 DEF Loaded
  <2> QED
    BY <1>1, <2>3, <2>4, <2>5, CallMoves
<1> QED
  BY <1>2, <1>3 DEF CreateLook

LEMMA RevokeReadKeeps ==
    ASSUME Inv, NEW c \in Calls, RevokeRead(c) PROVE Inv' /\ RowsStay /\ OutcomesStay
<1>1. PICK i \in Invites :
        invite[i].status = "PENDING" /\ start(c, "revoke", NoUser, "none", i)
  BY DEF RevokeRead
<1>2. i # NoInvite
  BY InvitationsAssumption
<1> QED
  BY <1>1, <1>2, Started

LEMMA ResendReadKeeps ==
    ASSUME Inv, NEW c \in Calls, ResendRead(c) PROVE Inv' /\ RowsStay /\ OutcomesStay
<1>1. PICK i \in Invites :
        invite[i].status = "PENDING" /\ start(c, "resend", NoUser, "none", i)
  BY DEF ResendRead
<1>2. i # NoInvite
  BY InvitationsAssumption
<1> QED
  BY <1>1, <1>2, Started

LEMMA AcceptReadKeeps ==
    ASSUME Inv, NEW c \in Calls, AcceptRead(c) PROVE Inv' /\ RowsStay /\ OutcomesStay
<1>1. PICK i \in Invites :
        /\ invite[i].status = "PENDING"
        /\ start(c, "accepting", invite[i].email, invite[i].role, i)
  BY DEF AcceptRead
<1>2. i # NoInvite /\ invite[i].email \in Users /\ invite[i].role \in Roles
  BY <1>1, InvitationsAssumption DEF Inv, InviteInv, Addressed
<1> QED
  BY <1>1, <1>2, Started

\* Seen as a member, he has a row.
LEMMA AcceptLookKeeps ==
    ASSUME Inv, NEW c \in Calls, AcceptLook(c) PROVE Inv' /\ RowsStay /\ OutcomesStay
<1>1. /\ call \in [Calls -> Call] /\ call[c] \in Call /\ Loaded(c)
      /\ call[c].pc = "accepting"
      /\ UNCHANGED <<memberVars, invite, admitted, hasty>>
  BY DEF Inv, InviteInv, InviteTypes, AcceptLook
<1>2. PICK m : m = visible(call[c].email)
  OBVIOUS
<1>3. m \in BOOLEAN /\ (m => member[call[c].email].status # "NONE")
  <2>1. member[call[c].email] \in Member
    BY <1>1 DEF Loaded, Inv, MemberInv, IInv, MemberTypeOK
  <2> QED
    BY <1>2, <2>1 DEF visible, Member
<1>4. PICK new : new = [call[c] EXCEPT !.pc = "accept", !.member = m]
  OBVIOUS
<1>5. /\ new \in Call /\ new.pc = "accept" /\ new.email = call[c].email
      /\ new.role = call[c].role /\ new.invite = call[c].invite
      /\ new.seen = call[c].seen /\ new.member = m
  BY <1>1, <1>3, <1>4 DEF Call
<1>6. call' = [call EXCEPT ![c] = new] /\ call'[c] = new
  BY <1>1, <1>2, <1>4 DEF AcceptLook
<1>7. Loaded(c)'
  <2>1. UNCHANGED <<member, invite>>
    BY <1>1 DEF memberVars
  <2> QED
    BY <1>1, <1>3, <1>5, <1>6, <2>1 DEF Loaded
<1> QED
  BY <1>1, <1>5, <1>6, <1>7, CallMoves

LEMMA CreateWriteKeeps ==
    ASSUME Inv, NEW c \in Calls, CreateWrite(c) PROVE Inv' /\ RowsStay /\ OutcomesStay
<1> DEFINE k == call[c].invite
           u == call[c].email
           r == call[c].role
<1>1. InviteTypes /\ Addressed /\ Loaded(c)
  BY DEF Inv, InviteInv
<1>2. /\ call[c].pc = "create" /\ hasty' = hasty \cup overtaken(c) /\ finish(c)
      /\ UNCHANGED <<memberVars, admitted>>
  BY DEF CreateWrite
<1>3. PICK i \in Invites :
        /\ invite[i].status = "NONE"
        /\ invite' = [revoked(k) EXCEPT ![i] =
              [email |-> u, role |-> r, status |-> "PENDING", late |-> FALSE]]
  BY DEF CreateWrite
<1>4. k \in Invites \cup {NoInvite} /\ u \in Users /\ r \in Roles
      /\ (k # NoInvite => invite[k].status # "NONE")
  BY <1>1, <1>2 DEF InviteTypes, Call, Loaded
<1>5. hasty' \subseteq Invites /\ hasty \subseteq hasty'
  BY <1>1, <1>2 DEF InviteTypes, overtaken
<1>6. k # NoInvite => k \in Invites /\ (invite[k].status # "PENDING" => k \in hasty')
  BY <1>2, RevocationTracked
<1> HIDE DEF k, u, r
<1>7. /\ revoked(k) \in [Invites -> Invite]
      /\ \A j \in Invites : /\ revoked(k)[j].email = invite[j].email
                            /\ revoked(k)[j].role = invite[j].role
                            /\ revoked(k)[j].status =
                                  IF j = k THEN "REVOKED" ELSE invite[j].status
  BY <1>1, <1>4, Revoked
<1>8. [email |-> u, role |-> r, status |-> "PENDING", late |-> FALSE] \in Invite
  BY <1>4 DEF Invite, Status
<1>9. /\ invite' \in [Invites -> Invite]
      /\ invite'[i].email = u /\ invite'[i].role = r /\ invite'[i].status = "PENDING"
      /\ \A j \in Invites : j # i => invite'[j] = revoked(k)[j]
  BY <1>3, <1>7, <1>8
<1>10. Addressed'
  <2>1. ASSUME NEW j \in Invites, invite'[j].status # "NONE"
        PROVE  invite'[j].email \in Users /\ invite'[j].role \in Roles
    <3>1. CASE j = i
      BY <1>4, <1>9, <3>1
    <3>2. CASE j # i
      <4>1. invite'[j] = revoked(k)[j] /\ invite[j].status # "NONE"
        BY <1>4, <1>7, <1>9, <2>1, <3>2, InvitationsAssumption
      <4> QED
        BY <1>1, <1>7, <4>1 DEF Addressed
    <3> QED
      BY <3>1, <3>2
  <2> QED
    BY <2>1 DEF Addressed
<1>11. InvitesStay
  BY <1>3, <1>7, <1>9 DEF InvitesStay
<1>12. OutcomesStay
  <2>1. ASSUME NEW j \in Invites, invite[j].status \in {"ACCEPTED", "REVOKED"},
               invite'[j].status # invite[j].status
        PROVE  j \in hasty'
    <3>1. j # i /\ invite'[j] = revoked(k)[j]
      BY <1>3, <1>9, <2>1
    <3>2. j = k
      BY <1>7, <2>1, <3>1
    <3>3. k # NoInvite
      BY <3>2, InvitationsAssumption
    <3> QED
      BY <1>6, <2>1, <3>2, <3>3
  <2> QED
    BY <2>1 DEF OutcomesStay
<1>13. \A j \in Invites : invite'[j].status = "ACCEPTED" => invite[j].status = "ACCEPTED"
  BY <1>7, <1>9
<1> QED
  BY <1>2, <1>5, <1>9, <1>10, <1>11, <1>12, <1>13, Written

LEMMA RevokeWriteKeeps ==
    ASSUME Inv, NEW c \in Calls, RevokeWrite(c) PROVE Inv' /\ RowsStay /\ OutcomesStay
<1> DEFINE k == call[c].invite
<1>1. InviteTypes /\ Addressed /\ Loaded(c)
  BY DEF Inv, InviteInv
<1>2. /\ call[c].pc = "revoke" /\ hasty' = hasty \cup overtaken(c) /\ finish(c)
      /\ UNCHANGED <<memberVars, admitted>> /\ invite' = revoked(k)
  BY DEF RevokeWrite
<1>3. k \in Invites /\ k # NoInvite /\ invite[k].status # "NONE"
  BY <1>1, <1>2 DEF InviteTypes, Call, Loaded
<1>4. hasty' \subseteq Invites /\ hasty \subseteq hasty'
  BY <1>1, <1>2 DEF InviteTypes, overtaken
<1>5. invite[k].status # "PENDING" => k \in hasty'
  BY <1>2, <1>3, RevocationTracked
<1> HIDE DEF k
<1>6. /\ invite' \in [Invites -> Invite]
      /\ \A j \in Invites : /\ invite'[j].email = invite[j].email
                            /\ invite'[j].role = invite[j].role
                            /\ invite'[j].status =
                                  IF j = k THEN "REVOKED" ELSE invite[j].status
  BY <1>1, <1>2, <1>3, Revoked
<1>7. Addressed'
  BY <1>1, <1>3, <1>6 DEF Addressed
<1>8. InvitesStay
  BY <1>6 DEF InvitesStay
<1>9. OutcomesStay
  BY <1>5, <1>6 DEF OutcomesStay
<1> QED
  BY <1>2, <1>4, <1>6, <1>7, <1>8, <1>9, Written

LEMMA ResendWriteKeeps ==
    ASSUME Inv, NEW c \in Calls, ResendWrite(c) PROVE Inv' /\ RowsStay /\ OutcomesStay
<1>1. InviteTypes /\ Addressed
  BY DEF Inv, InviteInv
<1>2. /\ finish(c) /\ UNCHANGED <<memberVars, admitted, hasty>>
      /\ invite' = [invite EXCEPT ![call[c].invite].late = FALSE]
  BY DEF ResendWrite
<1>3. /\ invite' \in [Invites -> Invite]
      /\ \A j \in Invites : /\ invite'[j].email = invite[j].email
                            /\ invite'[j].role = invite[j].role
                            /\ invite'[j].status = invite[j].status
  BY <1>1, <1>2, Relimited
<1>4. Addressed' /\ InvitesStay /\ OutcomesStay
  BY <1>1, <1>3 DEF Addressed, InvitesStay, OutcomesStay
<1>5. hasty' = hasty /\ hasty \subseteq Invites
  BY <1>1, <1>2 DEF InviteTypes
<1> QED
  BY <1>2, <1>3, <1>4, <1>5, Written

\* A request the unique keys refuse leaves everything as it was.
LEMMA ConflictKeeps ==
    ASSUME Inv, NEW c \in Calls, CreateConflict(c) \/ AcceptConflict(c)
    PROVE  Inv' /\ RowsStay /\ OutcomesStay
<1>1. finish(c) /\ UNCHANGED <<memberVars, invite, admitted, hasty>>
  BY DEF CreateConflict, AcceptConflict
<1>2. InviteTypes /\ Addressed
  BY DEF Inv, InviteInv
<1>3. /\ invite' \in [Invites -> Invite] /\ hasty' = hasty /\ hasty \subseteq Invites
      /\ Addressed' /\ InvitesStay /\ OutcomesStay
  BY <1>1, <1>2 DEF InviteTypes, Addressed, InvitesStay, OutcomesStay
<1> QED
  BY <1>1, <1>3, Written

-----------------------------------------------------------------------------
\* The user of an acceptance: seen as a member, and still one, or admitted now.
LEMMA Admission ==
    ASSUME Inv, NEW c \in Calls, AcceptWrite(c)
    PROVE  /\ MemberInv' /\ RowsStay /\ call[c].email \in Users
           /\ member'[call[c].email].status # "NONE"
<1>1. /\ MemberInv /\ call[c].pc = "accept" /\ Loaded(c)
      /\ UNCHANGED <<owner, closed, req, dirty, excuses>>
      /\ call[c].member \/ member[call[c].email].status = "NONE"
      /\ member' = IF call[c].member THEN member
                   ELSE [member EXCEPT ![call[c].email] = joined(call[c].role)]
  BY DEF Inv, InviteInv, AcceptWrite
<1>2. call[c].email \in Users /\ call[c].role \in Roles
  BY <1>1 DEF Loaded
<1>3. CASE call[c].member
  <2>1. UNCHANGED memberVars
    BY <1>1, <1>3 DEF memberVars
  <2>2. member'[call[c].email].status # "NONE"
    BY <1>1, <1>3 DEF Loaded
  <2> QED
    BY <1>1, <1>2, <2>1, <2>2, MemberSteps
<1>4. CASE ~call[c].member
  <2>1. member' = [member EXCEPT ![call[c].email] = joined(call[c].role)]
        /\ member[call[c].email].status = "NONE"
    BY <1>1, <1>4
  <2>2. member'[call[c].email].status # "NONE"
    <3>1. member \in [Users -> Member]
      BY <1>1 DEF MemberInv, IInv, MemberTypeOK
    <3> QED
      BY <1>2, <2>1, <3>1 DEF joined
  <2> QED
    BY <1>1, <1>2, <2>1, <2>2, AdmissionKeeps
<1> QED
  BY <1>3, <1>4

LEMMA AcceptWriteKeeps ==
    ASSUME Inv, NEW c \in Calls, AcceptWrite(c) PROVE Inv' /\ RowsStay /\ OutcomesStay
<1> DEFINE i == call[c].invite
           u == call[c].email
<1>1. /\ InviteTypes /\ Addressed /\ Admitted /\ AdmissionsAgree
      /\ \A d \in Calls : Loaded(d)
  BY DEF Inv, InviteInv
<1>2. /\ call[c].pc = "accept" /\ finish(c)
      /\ invite' = IF call[c].late THEN invite
                   ELSE [invite EXCEPT ![i].status = "ACCEPTED"]
      /\ admitted' = IF call[c].member THEN admitted ELSE [admitted EXCEPT ![u] = i]
      /\ hasty' = hasty \cup overtaken(c) \cup (IF call[c].late THEN {i} ELSE {})
  BY DEF AcceptWrite
<1>3. MemberInv' /\ RowsStay /\ u \in Users /\ member'[u].status # "NONE"
  BY Admission
<1>4. /\ i \in Invites /\ invite[i].status # "NONE" /\ invite[i].email = u
      /\ call[c].seen = "PENDING" /\ call[c].late \in BOOLEAN
  BY <1>1, <1>2 DEF InviteTypes, Call, Loaded
<1>5. /\ hasty' \subseteq Invites /\ hasty \subseteq hasty'
      /\ invite[i].status # "PENDING" => i \in hasty'
      /\ call[c].late => i \in hasty'
  BY <1>1, <1>2, <1>4 DEF InviteTypes, overtaken
<1> HIDE DEF i, u
<1>6. /\ invite' \in [Invites -> Invite]
      /\ \A j \in Invites : /\ invite'[j].email = invite[j].email
                            /\ invite'[j].role = invite[j].role
                            /\ j # i => invite'[j] = invite[j]
      /\ IF call[c].late THEN invite'[i] = invite[i] ELSE invite'[i].status = "ACCEPTED"
  <2>1. CASE call[c].late
    BY <1>1, <1>2, <2>1 DEF InviteTypes
  <2>2. CASE ~call[c].late
    BY <1>1, <1>2, <1>4, <2>2 DEF InviteTypes, Invite, Status
  <2> QED
    BY <2>1, <2>2
<1>7. InvitesStay
  BY <1>6 DEF InvitesStay
<1>8. OutcomesStay
  BY <1>5, <1>6 DEF OutcomesStay
<1>9. \A d \in Calls : Loaded(d)'
  BY <1>1, <1>2, <1>3, <1>7, Finished, LoadedKept
<1>10. InviteTypes'
  <2>1. call' \in [Calls -> Call]
    BY <1>1, <1>2, Finished
  <2>2. admitted' \in [Users -> Invites \cup {NoInvite}]
    BY <1>1, <1>2, <1>4 DEF InviteTypes
  <2> QED
    BY <1>5, <1>6, <2>1, <2>2 DEF InviteTypes
<1>11. Addressed'
  <2>1. \A j \in Invites : invite'[j].status # "NONE" => invite[j].status # "NONE"
    BY <1>4, <1>6
  <2> QED
    BY <1>1, <1>6, <2>1 DEF Addressed
<1>12. ASSUME NEW v \in Users, admitted'[v] # NoInvite
       PROVE  /\ invite'[admitted'[v]].status # "NONE"
              /\ invite'[admitted'[v]].email = v
              /\ invite'[admitted'[v]].status = "ACCEPTED" \/ admitted'[v] \in hasty'
  <2>1. CASE v = u /\ admitted'[v] = i
    BY <1>4, <1>5, <1>6, <1>7, <2>1 DEF InvitesStay
  <2>2. CASE admitted'[v] = admitted[v]
    <3>1. /\ admitted[v] \in Invites /\ invite[admitted[v]].status # "NONE"
          /\ invite[admitted[v]].email = v
          /\ invite[admitted[v]].status = "ACCEPTED" \/ admitted[v] \in hasty
      BY <1>1, <1>12, <2>2 DEF InviteTypes, Admitted, AdmissionsAgree
    <3> QED
      BY <1>5, <1>7, <1>8, <2>2, <3>1 DEF InvitesStay, OutcomesStay
  <2> QED
    BY <1>1, <1>2, <2>1, <2>2 DEF InviteTypes
<1>13. ASSUME NEW j \in Invites, invite'[j].status = "ACCEPTED"
       PROVE  member'[invite'[j].email].status # "NONE"
  <2>1. CASE j = i
    BY <1>3, <1>4, <1>6, <2>1
  <2>2. CASE j # i
    <3>1. invite[j].status = "ACCEPTED" /\ invite'[j].email = invite[j].email
      BY <1>6, <1>13, <2>2
    <3>2. invite[j].email \in Users /\ member[invite[j].email].status # "NONE"
      BY <1>1, <3>1 DEF Addressed, AdmissionsAgree
    <3> QED
      BY <1>3, <3>1, <3>2 DEF RowsStay
  <2> QED
    BY <2>1, <2>2
<1>14. Admitted' /\ AdmissionsAgree'
  BY <1>12, <1>13 DEF Admitted, AdmissionsAgree
<1> QED
  BY <1>3, <1>8, <1>9, <1>10, <1>11, <1>14 DEF Inv, InviteInv

LEMMA ExpireKeeps ==
    ASSUME Inv, NEW i \in Invites, Expire(i) PROVE Inv' /\ RowsStay /\ OutcomesStay
<1>1. InviteInv /\ InviteTypes /\ Addressed /\ \A d \in Calls : Loaded(d)
  BY DEF Inv, InviteInv
<1>2. /\ invite' = [invite EXCEPT ![i].late = TRUE]
      /\ call' = [c \in Calls |-> IF /\ call[c].pc \in {"accepting", "accept"}
                                     /\ call[c].invite = i
                                  THEN [call[c] EXCEPT !.late = TRUE] ELSE call[c]]
      /\ UNCHANGED <<memberVars, admitted, hasty>>
  BY DEF Expire
<1>3. MemberInv' /\ RowsStay
  BY <1>2, MemberSteps DEF Inv
<1>4. /\ invite' \in [Invites -> Invite]
      /\ \A j \in Invites : /\ invite'[j].email = invite[j].email
                            /\ invite'[j].role = invite[j].role
                            /\ invite'[j].status = invite[j].status
  BY <1>1, <1>2, Relimited
<1>5. Addressed' /\ InvitesStay /\ OutcomesStay
  BY <1>1, <1>4 DEF Addressed, InvitesStay, OutcomesStay
<1>6. ASSUME NEW c \in Calls
      PROVE  call'[c] \in Call /\ (call'[c] = call[c]
                                   \/ call'[c] = [call[c] EXCEPT !.late = TRUE])
  <2>1. call[c] \in Call
    BY <1>1 DEF InviteTypes
  <2>2. [call[c] EXCEPT !.late = TRUE] \in Call
    BY <2>1 DEF Call
  <2> QED
    BY <1>2, <2>1, <2>2
<1>7. InviteTypes'
  BY <1>1, <1>2, <1>4, <1>6 DEF InviteTypes
<1>8. \A c \in Calls : Loaded(c)'
  BY <1>1, <1>3, <1>5, <1>6, LoadedKept
<1> QED
  BY <1>1, <1>2, <1>3, <1>4, <1>5, <1>7, <1>8, InviteInvKept DEF Inv

-----------------------------------------------------------------------------
LEMMA NextInv == ASSUME Inv, [Next]_vars PROVE Inv' /\ RowsStay /\ OutcomesStay
<1>1. ASSUME [MemberNext]_memberVars, UNCHANGED inviteVars
      PROVE  Inv' /\ RowsStay /\ OutcomesStay
  <2>1. MemberInv' /\ RowsStay
    BY <1>1, MemberSteps DEF Inv
  <2>2. UNCHANGED <<invite, call, admitted, hasty>>
    BY <1>1 DEF inviteVars
  <2>3. InviteInv /\ InviteTypes /\ Addressed /\ \A d \in Calls : Loaded(d)
    BY DEF Inv, InviteInv
  <2>4. InviteTypes' /\ Addressed' /\ InvitesStay /\ OutcomesStay
    BY <2>2, <2>3 DEF InviteTypes, Addressed, InvitesStay, OutcomesStay
  <2>5. \A d \in Calls : Loaded(d)'
    BY <2>1, <2>2, <2>3, <2>4, LoadedKept
  <2> QED
    BY <2>1, <2>2, <2>3, <2>4, <2>5, InviteInvKept DEF Inv
<1>2. CASE MemberNext /\ UNCHANGED inviteVars
  BY <1>1, <1>2
<1>3. ASSUME NEW c \in Calls, InviteStep(c) PROVE Inv' /\ RowsStay /\ OutcomesStay
  BY <1>3, CreateReadKeeps, CreateLookKeeps, CreateWriteKeeps, RevokeReadKeeps,
     RevokeWriteKeeps, ResendReadKeeps, ResendWriteKeeps, AcceptReadKeeps,
     AcceptLookKeeps, AcceptWriteKeeps, ConflictKeeps DEF InviteStep
<1>4. ASSUME NEW i \in Invites, Expire(i) PROVE Inv' /\ RowsStay /\ OutcomesStay
  BY <1>4, ExpireKeeps
<1>5. CASE UNCHANGED vars
  BY <1>1, <1>5 DEF vars
<1> QED
  BY <1>2, <1>3, <1>4, <1>5 DEF Next

\* Members, invitations and the requests about both keep their types.
THEOREM InvitationTypes == InvitationsSpec => []TypeOK
<1>1. Inv => TypeOK
  BY DEF Inv, MemberInv, IInv, InviteInv, InviteTypes, TypeOK
<1> QED
  BY <1>1, InvitationsInitInv, NextInv, PTL DEF InvitationsSpec

\* Whatever overlaps, a row an invitation added belongs to its addressee and
\* the invitation is ACCEPTED, unless it was written over; and an ACCEPTED
\* invitation has its user in the table.
THEOREM AdmissionsHold == InvitationsSpec => []AdmissionsAgree
<1>1. Inv => AdmissionsAgree
  BY DEF Inv, InviteInv
<1> QED
  BY <1>1, InvitationsInitInv, NextInv, PTL DEF InvitationsSpec

\* The outcome of an invitation changes only under a request that had loaded
\* it while it was PENDING.
THEOREM OutcomesAreFinal == InvitationsSpec => InviteOutcomeFinal
<1>1. Inv /\ [Next]_vars =>
        [\A i \in Invites :
          invite[i].status \in {"ACCEPTED", "REVOKED"} /\ invite'[i].status # invite[i].status
              => i \in hasty']_vars
  BY NextInv DEF OutcomesStay
<1> QED
  BY <1>1, InvitationsInitInv, NextInv, PTL DEF InvitationsSpec, InviteOutcomeFinal

\* No acceptance and no late request on a member brings back who was removed.
THEOREM RemovalsAreFinal == InvitationsSpec => RemovalFinal
<1>1. Inv /\ [Next]_vars =>
        [\A u \in Users : member[u].deleted => member'[u].deleted]_vars
  BY NextInv DEF RowsStay
<1> QED
  BY <1>1, InvitationsInitInv, NextInv, PTL DEF InvitationsSpec, RemovalFinal

\* The rule of the last owner survives acceptances.
THEOREM OwnersRemainUnderInvitations == InvitationsSpec => []OwnerRemains
<1>1. Inv => OwnerRemains
  BY DEF Inv, MemberInv, IInv
<1> QED
  BY <1>1, InvitationsInitInv, NextInv, PTL DEF InvitationsSpec

=============================================================================
