SPECIFICATION Spec
CONSTANTS
    Contents = {c1, c2, c3}
    NoContent = NoContent
    Slots = {"en"}
    Default = "en"
    Null = "null"
    Requests = {q1}
INVARIANT LatestIsFound
CHECK_DEADLOCK FALSE
