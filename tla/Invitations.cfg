SPECIFICATION InvitationsSpec
CONSTANTS
    Users = {u1, u2}
    NoUser = NoUser
    Requests = {q1}
    Roles = {"Owner"}
    Managers = {"Owner"}
    Ops = {"suspend", "reactivate", "remove"}
    Invites = {i1, i2, i3}
    NoInvite = NoInvite
    Calls = {c1, c2}
INVARIANTS TypeOK AdmissionsAgree
PROPERTIES InviteOutcomeFinal RemovalFinal
SYMMETRY Symmetric
CHECK_DEADLOCK FALSE
