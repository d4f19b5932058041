-------------------------------- MODULE Team --------------------------------
(***************************************************************************)
(* What a workspace promises its members when they change it one after the *)
(* other: every change is made by someone who may make it, on the team as  *)
(* it is, and at once.  What becomes of the team once two changes have     *)
(* overlapped is not said.                                                 *)
(***************************************************************************)
CONSTANTS
    Users,
    Roles,     \* among them "Owner"
    Managers   \* the roles that may change the team

VARIABLES
    team,       \* each user's place and role
    lead,       \* to whom the workspace belongs
    closed,     \* it has been deleted
    overlapped  \* two changes have overlapped

teamVars == <<team, lead, closed, overlapped>>

in(place, r) == [place |-> place, role |-> r]
Out == in("out", "none")

inside(u) == team[u].place # "out"
active(u) == team[u].place = "active"
owners == {u \in Users : team[u] = in("active", "Owner")}

mayChange(a) ==
    /\ ~closed
    /\ active(a) \/ lead = a
    /\ IF inside(a) THEN team[a].role \in Managers ELSE lead = a

\* An active owner is taken away only if there is another one.
replaceable(u) == owners # {u}

TeamInit ==
    /\ lead \in Users
    /\ \E r \in [Users -> Roles] :
          /\ r[lead] = "Owner"
          /\ team = [u \in Users |-> in("active", r[u])]
    /\ closed = FALSE
    /\ overlapped = FALSE

ChangeRole(a, u, r) ==
    /\ inside(u) /\ team[u].role # r
    /\ replaceable(u)
    /\ "Owner" \in {r, team[u].role} => a = lead
    /\ team' = [team EXCEPT ![u].role = r]
    /\ UNCHANGED <<lead, closed>>

Suspend(u) ==
    /\ inside(u) /\ team[u].place # "suspended"
    /\ replaceable(u)
    /\ team' = [team EXCEPT ![u].place = "suspended"]
    /\ UNCHANGED <<lead, closed>>

Reactivate(u) ==
    /\ inside(u) /\ ~active(u)
    /\ team' = [team EXCEPT ![u].place = "active"]
    /\ UNCHANGED <<lead, closed>>

Remove(a, u) ==
    /\ inside(u) /\ a = lead
    /\ replaceable(u)
    /\ team' = [team EXCEPT ![u] = Out]
    /\ UNCHANGED <<lead, closed>>

\* The old owner keeps his place with another role; if he is the new owner
\* himself, he has that role too.
Transfer(a, u, r) ==
    /\ active(u) /\ a = lead
    /\ lead' = u
    /\ team' = [v \in Users |-> IF v = a /\ inside(a) THEN [team[v] EXCEPT !.role = r]
                                ELSE IF v = u THEN [team[v] EXCEPT !.role = "Owner"]
                                ELSE team[v]]
    /\ UNCHANGED closed

Close(a) ==
    /\ a = lead
    /\ closed' = TRUE
    /\ UNCHANGED <<team, lead>>

Change ==
    /\ ~overlapped /\ ~overlapped'
    /\ \E a \in Users :
          /\ mayChange(a)
          /\ \/ \E u \in Users :
                   \/ \E r \in Roles : ChangeRole(a, u, r) \/ Transfer(a, u, r)
                   \/ Suspend(u)
                   \/ Reactivate(u)
                   \/ Remove(a, u)
             \/ Close(a)

\* Anything may have happened.
Overlap == overlapped' = TRUE

TeamSpec == TeamInit /\ [][Change \/ Overlap]_teamVars

=============================================================================
