----------------------------- MODULE Membership -----------------------------
(***************************************************************************)
(* One workspace, its owner_id and its workspace_members rows, under       *)
(* requests that overlap.  A request authorizes its actor and reads its    *)
(* target in one session (Begin), counts the active owners if it is about  *)
(* to take one away (Check), and writes and commits (Write).  No row is    *)
(* locked before the write; objects the session holds keep the values they *)
(* were loaded with, and only columns changed from those are written.  The *)
(* target's row is held by the request itself; the actor's only by a local *)
(* of the dependencies that authorize him, and the session's map is weak,  *)
(* so it is left open whether the actor's row is still held when it is     *)
(* asked for again.                                                        *)
(* A request that is refused changes nothing and is not modelled, unless it *)
(* has already begun.                                                      *)
(***************************************************************************)
EXTENDS Integers, FiniteSets

CONSTANTS
    Users,     \* the people with a membership row, or who may get one
    NoUser,    \* nobody: who acts in an idle request
    Requests,  \* requests that may be in progress at once
    Roles,     \* among them "Owner"
    Managers,  \* the roles granted the permissions the endpoints ask for
    Ops        \* which operations are requested

ASSUME MembershipAssumption ==
    /\ NoUser \notin Users
    /\ "Owner" \in Managers
    /\ Managers \subseteq Roles
    /\ Ops \subseteq {"change_role", "suspend", "reactivate", "remove",
                      "transfer", "delete"}

VARIABLES
    member,  \* the row of each user in the workspace
    owner,   \* Workspace.owner_id
    closed,  \* Workspace.deleted_at is set
    req,     \* what each request is doing and what its session has loaded
    dirty,   \* history: requests another one of these committed under
    excuses  \* history: how the rule of the last owner may have been evaded

memberVars == <<member, owner, closed, req, dirty, excuses>>

Member == [role : Roles, status : {"NONE", "ACTIVE", "SUSPENDED", "REMOVED"},
           deleted : BOOLEAN]
joined(r) == [role |-> r, status |-> "ACTIVE", deleted |-> FALSE]
NoMember == [role |-> "Owner", status |-> "NONE", deleted |-> FALSE]

Request == [pc : {"idle", "checking", "writing"}, op : Ops \cup {"none"},
            actor : Users \cup {NoUser}, target : Users \cup {NoUser},
            role : Roles \cup {"none"},
            byOwner : BOOLEAN,           \* owner_id, as loaded, is the actor
            myRole : Roles \cup {"none"}, \* the role in the actor's row, as loaded
            row : Member]                \* the target's row, as loaded
Idle == [pc |-> "idle", op |-> "none", actor |-> NoUser, target |-> NoUser,
         role |-> "none", byOwner |-> FALSE, myRole |-> "none", row |-> NoMember]

\* get_member: the row unless it is soft-deleted.
visible(u) == member[u].status # "NONE" /\ ~member[u].deleted

activeOwner(m) == m.status = "ACTIVE" /\ ~m.deleted /\ m.role = "Owner"

\* The owner must be an active member like everyone else.
inWorkspaceBug(u) == ~closed /\ visible(u) /\ member[u].status = "ACTIVE"

\* get_current_workspace (the owner needs no active row) and require_permission
\* (the row's role decides; its status is not asked).
inWorkspace(u) ==
    /\ ~closed
    /\ (visible(u) /\ member[u].status = "ACTIVE") \/ owner = u
permitted(u) == IF visible(u) THEN member[u].role \in Managers ELSE owner = u
canAct(u) == inWorkspace(u) /\ permitted(u)

\* What an operation asks of the rows it loads before it goes on.
applicable(op, a, u, r) ==
    \/ op = "change_role" /\ visible(u) /\ member[u].role # r
    \/ op = "suspend"     /\ visible(u) /\ member[u].status # "SUSPENDED"
    \/ op = "reactivate"  /\ visible(u) /\ member[u].status # "ACTIVE"
    \/ op = "remove"      /\ visible(u) /\ owner = a
    \/ op = "transfer"    /\ visible(u) /\ member[u].status = "ACTIVE" /\ owner = a
    \/ op = "delete"      /\ owner = a /\ u = a

\* The founder's row, and those that invitations have added since.
Init ==
    /\ \E founder \in Users :
          /\ owner = founder
          /\ \E others \in [Users \ {founder} -> Roles] :
                member = [u \in Users |-> IF u = founder THEN joined("Owner")
                                          ELSE joined(others[u])]
    /\ req = [q \in Requests |-> Idle]
    /\ closed = FALSE
    /\ dirty = {}
    /\ excuses = {}

-----------------------------------------------------------------------------
\* Which operations count the active owners first.
protecting(op) == op \in {"change_role", "suspend", "remove"}

Begin(q) ==
    /\ req[q].pc = "idle"
    /\ \E op \in Ops, a \in Users, u \in Users, r \in Roles \cup {"none"} :
          /\ canAct(a)
          /\ applicable(op, a, u, r)
          /\ op \in {"change_role", "transfer"} <=> r # "none"
          /\ req' = [req EXCEPT ![q] =
                [pc |-> IF protecting(op) THEN "checking" ELSE "writing",
                 op |-> op, actor |-> a, target |-> u, role |-> r,
                 byOwner |-> owner = a,
                 myRole |-> IF visible(a) THEN member[a].role ELSE "none",
                 row |-> member[u]]]
    /\ UNCHANGED <<member, owner, closed, dirty, excuses>>

\* A row the session holds keeps the role it was loaded with.
roleSeen(q, held, u) ==
    CASE u = req[q].target -> req[q].row.role
      [] u = req[q].actor /\ u # req[q].target /\ held /\ req[q].myRole # "none"
            -> req[q].myRole
      [] OTHER -> member[u].role

active_owners(q, held) ==
    {u \in Users : visible(u) /\ member[u].status = "ACTIVE"
                             /\ roleSeen(q, held, u) = "Owner"}

\* Only a suspension is protected.
protect_owner_roleBug(q, held) ==
    req[q].op = "suspend" /\ activeOwner(req[q].row)
        => Cardinality(active_owners(q, held)) > 1

protect_owner_role(q, held) ==
    activeOwner(req[q].row) => Cardinality(active_owners(q, held)) > 1

\* Anyone who may change roles demotes an owner.
ownerRoleRuleBug(q) ==
    req[q].op = "change_role" /\ req[q].role = "Owner" => req[q].byOwner

\* Only the owner assigns or removes the Owner role.
ownerRoleRule(q) ==
    req[q].op = "change_role" /\ "Owner" \in {req[q].role, req[q].row.role}
        => req[q].byOwner

\* The checks, and the repository's second look for the row.
Check(q) ==
    /\ req[q].pc = "checking"
    /\ visible(req[q].target)
    /\ \E held \in BOOLEAN : protect_owner_role(q, held)
    /\ ownerRoleRule(q)
    /\ req' = [req EXCEPT ![q].pc = "writing"]
    /\ UNCHANGED <<member, owner, closed, dirty, excuses>>

CheckFails(q) ==
    /\ req[q].pc = "checking"
    /\ \E held \in BOOLEAN :
          visible(req[q].target) /\ protect_owner_role(q, held) => ~ownerRoleRule(q)
    /\ req' = [req EXCEPT ![q] = Idle]
    /\ dirty' = dirty \ {q}
    /\ UNCHANGED <<member, owner, closed, excuses>>

-----------------------------------------------------------------------------
\* The request ends; those still in progress now hold values that may be old.
commit(q) ==
    /\ req' = [req EXCEPT ![q] = Idle]
    /\ dirty' = {p \in Requests \ {q} : req[p].pc # "idle"}

overlap(q) == IF q \in dirty THEN {"overlap"} ELSE {}

\* remove_member sets the status and forgets deleted_at.
updatedBug(q) ==
    LET u == req[q].target IN
    CASE req[q].op = "change_role" -> [member EXCEPT ![u].role = req[q].role]
      [] req[q].op = "suspend"     -> [member EXCEPT ![u].status = "SUSPENDED"]
      [] req[q].op = "reactivate"  -> [member EXCEPT ![u].status = "ACTIVE"]
      [] req[q].op = "remove"      -> [member EXCEPT ![u].status = "REMOVED"]

\* The UPDATE goes by the row's id: it also reaches a row removed meanwhile.
updated(q) ==
    LET u == req[q].target IN
    CASE req[q].op = "change_role" -> [member EXCEPT ![u].role = req[q].role]
      [] req[q].op = "suspend"     -> [member EXCEPT ![u].status = "SUSPENDED"]
      [] req[q].op = "reactivate"  -> [member EXCEPT ![u].status = "ACTIVE"]
      [] req[q].op = "remove"      -> [member EXCEPT ![u].status = "REMOVED",
                                                     ![u].deleted = TRUE]

WriteMember(q) ==
    /\ req[q].pc = "writing"
    /\ req[q].op \in {"change_role", "suspend", "reactivate", "remove"}
    /\ member' = updated(q)
    /\ excuses' = excuses \cup overlap(q)
    /\ commit(q)
    /\ UNCHANGED <<owner, closed>>

\* owner_id, the new owner's role, then the old owner's; the lock on the
\* workspace row makes concurrent transfers follow each other.
withRole(m, seen, r) == IF seen # r THEN [m EXCEPT !.role = r] ELSE m

transferred(q, held) ==
    LET n == req[q].target
        o == req[q].actor
        promoted == IF visible(n)
                    THEN [member EXCEPT ![n] = withRole(@, req[q].row.role, "Owner")]
                    ELSE member
        seen == IF n = o THEN "Owner" ELSE roleSeen(q, held, o)
    IN  IF visible(o)
        THEN [promoted EXCEPT ![o] = withRole(@, seen, req[q].role)]
        ELSE promoted

WriteTransfer(q) ==
    /\ req[q].pc = "writing"
    /\ req[q].op = "transfer"
    /\ owner' = IF req[q].target # req[q].actor THEN req[q].target ELSE owner
    /\ \E held \in BOOLEAN : member' = transferred(q, held)
    /\ excuses' = excuses \cup overlap(q) \cup
          (IF req[q].target = req[q].actor THEN {"transfer to oneself"} ELSE {})
    /\ commit(q)
    /\ UNCHANGED closed

WriteDelete(q) ==
    /\ req[q].pc = "writing"
    /\ req[q].op = "delete"
    /\ closed' = TRUE
    /\ excuses' = excuses \cup overlap(q)
    /\ commit(q)
    /\ UNCHANGED <<member, owner>>

MemberNext ==
    \E q \in Requests :
        \/ Begin(q)
        \/ Check(q)
        \/ CheckFails(q)
        \/ WriteMember(q)
        \/ WriteTransfer(q)
        \/ WriteDelete(q)

Spec == Init /\ [][MemberNext]_memberVars

-----------------------------------------------------------------------------
MemberTypeOK ==
    /\ member \in [Users -> Member]
    /\ \A u \in Users : member[u].status = "REMOVED" => member[u].deleted
    /\ owner \in Users
    /\ closed \in BOOLEAN
    /\ req \in [Requests -> Request]
    /\ dirty \subseteq Requests
    /\ excuses \subseteq {"overlap", "transfer to oneself"}

\* The rule of the last owner: whatever sequence of role changes, suspensions,
\* removals and transfers is requested, an active member with the Owner role
\* remains, unless requests overlapped or the owner "transferred" the workspace
\* to himself, which demotes him without any check.
OwnerRemains == excuses = {} => \E u \in Users : activeOwner(member[u])

\* The owner who holds the Owner role cannot be locked out by others: a step
\* after which he cannot act any more (nor the one he made owner) is the end of
\* a request of his own, or of one that overlapped with another.
OwnerNotLockedOut ==
    [][canAct(owner) /\ member[owner].role = "Owner" /\ ~canAct(owner)'
          => \/ "overlap" \in excuses'
             \/ \E q \in Requests : req[q].actor = owner /\ req[q].pc = "writing"
                                    /\ req'[q].pc = "idle"]_memberVars

\* The rows as a team of members with a place and a role.
inTeam(m) ==
    IF m.status = "NONE" \/ m.deleted THEN [place |-> "out", role |-> "none"]
    ELSE [place |-> IF m.status = "ACTIVE" THEN "active" ELSE "suspended",
          role  |-> m.role]

Team == INSTANCE Team WITH
    team       <- [u \in Users |-> inTeam(member[u])],
    lead       <- owner,
    overlapped <- "overlap" \in excuses

\* Requests that do not overlap are serial: although each authorizes, checks and
\* writes in steps of its own, it changes the rows as if it did so at once, by an
\* actor who may, on the rows it finds when it commits (Team).
ChangesAreSerial == Team!TeamSpec

\* What _protect_owner_role says it ensures ("the workspace has at least one
\* active owner before removing or demoting an owner").
LastOwnerKept == \E u \in Users : activeOwner(member[u])

=============================================================================
