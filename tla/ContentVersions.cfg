SPECIFICATION Spec
CONSTANTS
    Contents = {c1, c2, c3}
    NoContent = NoContent
    Slots = {"en", "fr"}
    Default = "en"
    Null = "null"
    Requests = {q1, q2}
INVARIANTS TypeOK VersionsFollowParents OneCurrentVersion CurrentIsNewest
PROPERTY VersionsAreHistory
SYMMETRY Symmetric
CHECK_DEADLOCK FALSE
