SPECIFICATION FairSpec
CONSTANTS
    Requests = {a, b}
    Video = {a}
    Retries = 3
    MaxSize = 3
    MaxStalls = 1
    MaxExpiries = 2
INVARIANTS
    TypeOK
    TokensReachTheRow
    AnswersAreTrue
    UploadedIsWhole
PROPERTIES
    RequestsEnd
    UploadsAdvance
CHECK_DEADLOCK FALSE
