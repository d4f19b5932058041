SPECIFICATION Spec
CONSTANTS
    Users = {u1, u2, u3}
    NoUser = NoUser
    Requests = {q1, q2}
    Roles = {"Owner", "Viewer"}
    Managers = {"Owner"}
    Ops = {"change_role", "suspend", "remove"}
INVARIANT LastOwnerKept
SYMMETRY Symmetric
CHECK_DEADLOCK FALSE
