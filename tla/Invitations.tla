----------------------------- MODULE Invitations -----------------------------
(***************************************************************************)
(* The workspace_invites rows of the workspace of Membership, and the rows *)
(* that accepting an invitation adds to it.  Every endpoint reads, decides *)
(* and writes in one session without locks, and where it reads twice other *)
(* requests may come between.  revoke_invite and accept_invite of the      *)
(* repository look the row up a second time, but the identity map answers  *)
(* with the object loaded first.  What the database does enforce is two    *)
(* unique keys: one PENDING invitation per address, one membership row per *)
(* user, the soft-deleted ones included.                                   *)
(***************************************************************************)
EXTENDS Membership

CONSTANTS
    Invites,  \* the invitations that may be created
    NoInvite,
    Calls     \* requests about invitations that may be in progress at once

ASSUME InvitationsAssumption == NoInvite \notin Invites

VARIABLES
    invite,   \* the rows; email is the user it belongs to
    call,     \* what each request is doing and what its session has loaded
    admitted, \* history: the invitation by which each user got a row
    hasty     \* history: invitations written over a value their writer had not read

inviteVars == <<invite, call, admitted, hasty>>
vars == <<memberVars, inviteVars>>

Status == {"NONE", "PENDING", "ACCEPTED", "REVOKED"}

Invite == [email : Users \cup {NoUser}, role : Roles \cup {"none"},
           status : Status,
           late : BOOLEAN]  \* expires_at has passed
NoRow == [email |-> NoUser, role |-> "none", status |-> "NONE", late |-> FALSE]

Call == [pc : {"idle", "creating", "create", "revoke", "resend",
               "accepting", "accept"},
         email : Users \cup {NoUser}, role : Roles \cup {"none"},
         invite : Invites \cup {NoInvite}, \* the invitation loaded
         seen : Status,                    \* its status as loaded
         late : BOOLEAN,                   \* its expires_at as loaded has passed
         member : BOOLEAN]                 \* the accepting user was seen to be a member
NoCall == [pc |-> "idle", email |-> NoUser, role |-> "none", invite |-> NoInvite,
           seen |-> "NONE", late |-> FALSE, member |-> FALSE]

InvitationsInit ==
    /\ \E founder \in Users :
          /\ owner = founder
          /\ member = [u \in Users |-> IF u = founder THEN joined("Owner") ELSE NoMember]
          /\ admitted = [u \in Users |-> NoInvite]
    /\ closed = FALSE
    /\ req = [q \in Requests |-> Idle]
    /\ dirty = {}
    /\ excuses = {}
    /\ invite = [i \in Invites |-> NoRow]
    /\ call = [c \in Calls |-> NoCall]
    /\ hasty = {}

pending(u) == {i \in Invites : invite[i].status = "PENDING" /\ invite[i].email = u}

someoneMay == \E a \in Users : canAct(a)

start(c, pc, email, role, i) ==
    /\ call[c].pc = "idle"
    /\ call' = [call EXCEPT ![c] = [pc |-> pc, email |-> email, role |-> role,
                                    invite |-> i, late |-> FALSE, member |-> FALSE,
                                    seen |-> IF i = NoInvite THEN "NONE"
                                             ELSE invite[i].status]]
    /\ UNCHANGED <<memberVars, invite, admitted, hasty>>

finish(c) == call' = [call EXCEPT ![c] = NoCall]

\* The invitation a request is about to write, if it changed since it was loaded.
overtaken(c) ==
    {i \in Invites : i = call[c].invite /\ invite[i].status # call[c].seen}

-----------------------------------------------------------------------------
(***************************************************************************)
(* create_invite: refuse a member, look up the invitation pending for the  *)
(* address, revoke it and insert the new one.                              *)
(***************************************************************************)
CreateRead(c) ==
    \E u \in Users, r \in Roles :
        /\ someoneMay
        /\ ~visible(u)
        /\ start(c, "creating", u, r, NoInvite)

CreateLook(c) ==
    /\ call[c].pc = "creating"
    /\ \/ /\ pending(call[c].email) = {}
          /\ call' = [call EXCEPT ![c].pc = "create"]
       \/ \E i \in pending(call[c].email) :
             call' = [call EXCEPT ![c].pc = "create", ![c].invite = i,
                                  ![c].seen = "PENDING"]
    /\ UNCHANGED <<memberVars, invite, admitted, hasty>>

revoked(i) == [j \in Invites |-> IF j = i THEN [invite[j] EXCEPT !.status = "REVOKED"]
                                 ELSE invite[j]]

CreateWrite(c) ==
    LET u == call[c].email IN
    /\ call[c].pc = "create"
    /\ pending(u) \subseteq {call[c].invite}
    /\ \E i \in Invites :
          /\ invite[i].status = "NONE"
          /\ invite' = [revoked(call[c].invite) EXCEPT ![i] =
                [email |-> u, role |-> call[c].role, status |-> "PENDING", late |-> FALSE]]
    /\ hasty' = hasty \cup overtaken(c)
    /\ finish(c)
    /\ UNCHANGED <<memberVars, admitted>>

\* Another invitation for the address became PENDING: the insert violates the
\* partial unique index and the revocation is rolled back with it.
CreateConflict(c) ==
    /\ call[c].pc = "create"
    /\ ~(pending(call[c].email) \subseteq {call[c].invite})
    /\ finish(c)
    /\ UNCHANGED <<memberVars, invite, admitted, hasty>>

-----------------------------------------------------------------------------
\* An invitation that was accepted can be revoked all the same.
RevokeReadBug(c) ==
    \E i \in Invites :
        /\ someoneMay
        /\ invite[i].status # "NONE"
        /\ start(c, "revoke", NoUser, "none", i)

RevokeRead(c) ==
    \E i \in Invites :
        /\ someoneMay
        /\ invite[i].status = "PENDING"
        /\ start(c, "revoke", NoUser, "none", i)

RevokeWrite(c) ==
    /\ call[c].pc = "revoke"
    /\ invite' = revoked(call[c].invite)
    /\ hasty' = hasty \cup overtaken(c)
    /\ finish(c)
    /\ UNCHANGED <<memberVars, admitted>>

\* resend_invite sets a new expires_at, and only that.
ResendRead(c) ==
    \E i \in Invites :
        /\ someoneMay
        /\ invite[i].status = "PENDING"
        /\ start(c, "resend", NoUser, "none", i)

ResendWrite(c) ==
    /\ call[c].pc = "resend"
    /\ invite' = [invite EXCEPT ![call[c].invite].late = FALSE]
    /\ finish(c)
    /\ UNCHANGED <<memberVars, admitted, hasty>>

-----------------------------------------------------------------------------
(***************************************************************************)
(* accept_invite: any signed-in user with the token; neither the workspace *)
(* nor the inviter is looked at again.                                     *)
(***************************************************************************)
\* A revoked or accepted invitation is not turned away.
AcceptReadBug(c) ==
    \E i \in Invites :
        /\ invite[i].status # "NONE"
        /\ ~invite[i].late
        /\ start(c, "accepting", invite[i].email, invite[i].role, i)

AcceptRead(c) ==
    \E i \in Invites :
        /\ invite[i].status = "PENDING"
        /\ ~invite[i].late
        /\ start(c, "accepting", invite[i].email, invite[i].role, i)

\* get_member, after the invitation has been looked at.
AcceptLook(c) ==
    /\ call[c].pc = "accepting"
    /\ call' = [call EXCEPT ![c].pc = "accept", ![c].member = visible(call[c].email)]
    /\ UNCHANGED <<memberVars, invite, admitted, hasty>>

\* The row of a removed member is used again.
AcceptWriteBug(c) ==
    LET u == call[c].email
        i == call[c].invite IN
    /\ call[c].pc = "accept"
    /\ member' = IF call[c].member THEN member
                 ELSE [member EXCEPT ![u] = joined(call[c].role)]
    /\ admitted' = IF call[c].member THEN admitted ELSE [admitted EXCEPT ![u] = i]
    /\ invite' = IF call[c].late THEN invite ELSE [invite EXCEPT ![i].status = "ACCEPTED"]
    /\ hasty' = hasty \cup overtaken(c) \cup (IF call[c].late THEN {i} ELSE {})
    /\ finish(c)
    /\ UNCHANGED <<owner, closed, req, dirty, excuses>>

\* The repository's accept_invite does nothing if the time has run out since.
AcceptWrite(c) ==
    LET u == call[c].email
        i == call[c].invite IN
    /\ call[c].pc = "accept"
    /\ call[c].member \/ member[u].status = "NONE"
    /\ member' = IF call[c].member THEN member
                 ELSE [member EXCEPT ![u] = joined(call[c].role)]
    /\ admitted' = IF call[c].member THEN admitted ELSE [admitted EXCEPT ![u] = i]
    /\ invite' = IF call[c].late THEN invite ELSE [invite EXCEPT ![i].status = "ACCEPTED"]
    /\ hasty' = hasty \cup overtaken(c) \cup (IF call[c].late THEN {i} ELSE {})
    /\ finish(c)
    /\ UNCHANGED <<owner, closed, req, dirty, excuses>>

\* The user has a row by now, or a soft-deleted one from before: the insert
\* violates the unique key and the invitation stays as it is.
AcceptConflict(c) ==
    /\ call[c].pc = "accept"
    /\ ~call[c].member
    /\ member[call[c].email].status # "NONE"
    /\ finish(c)
    /\ UNCHANGED <<memberVars, invite, admitted, hasty>>

\* Seven days pass, for the row and for whoever has loaded it.
Expire(i) ==
    /\ invite[i].status = "PENDING"
    /\ ~invite[i].late
    /\ invite' = [invite EXCEPT ![i].late = TRUE]
    /\ call' = [c \in Calls |-> IF /\ call[c].pc \in {"accepting", "accept"}
                                   /\ call[c].invite = i
                                THEN [call[c] EXCEPT !.late = TRUE] ELSE call[c]]
    /\ UNCHANGED <<memberVars, admitted, hasty>>

InviteStep(c) ==
    \/ CreateRead(c)
    \/ CreateLook(c)
    \/ CreateWrite(c)
    \/ CreateConflict(c)
    \/ RevokeRead(c)
    \/ RevokeWrite(c)
    \/ ResendRead(c)
    \/ ResendWrite(c)
    \/ AcceptRead(c)
    \/ AcceptLook(c)
    \/ AcceptWrite(c)
    \/ AcceptConflict(c)

Next ==
    \/ MemberNext /\ UNCHANGED inviteVars
    \/ \E c \in Calls : InviteStep(c)
    \/ \E i \in Invites : Expire(i)

InvitationsSpec == InvitationsInit /\ [][Next]_vars

-----------------------------------------------------------------------------
TypeOK ==
    /\ MemberTypeOK
    /\ invite \in [Invites -> Invite]
    /\ call \in [Calls -> Call]
    /\ admitted \in [Users -> Invites \cup {NoInvite}]
    /\ hasty \subseteq Invites

\* Who is in and which invitations are spent agree: a row added by an
\* invitation belongs to the user it was addressed to, and the invitation is
\* ACCEPTED, unless a revocation, a second create or the expiry ran into the
\* acceptance; and an ACCEPTED invitation has its user in the table.
AdmissionsAgree ==
    /\ \A u \in Users : admitted[u] # NoInvite =>
          /\ invite[admitted[u]].email = u
          /\ invite[admitted[u]].status = "ACCEPTED" \/ admitted[u] \in hasty
    /\ \A i \in Invites : invite[i].status = "ACCEPTED" =>
          member[invite[i].email].status # "NONE"

\* REVOKED and ACCEPTED are final: they change only under a request that had
\* read the invitation while it was PENDING.
InviteOutcomeFinal ==
    [][\A i \in Invites :
          invite[i].status \in {"ACCEPTED", "REVOKED"} /\ invite'[i].status # invite[i].status
              => i \in hasty']_vars

\* Removal is for good: no acceptance, and no request on the member that was
\* still in progress, brings back a member who was removed.
RemovalFinal == [][\A u \in Users : member[u].deleted => member'[u].deleted]_vars

=============================================================================
