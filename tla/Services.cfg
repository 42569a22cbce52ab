SPECIFICATION ServicesSpec
CONSTANTS
    Conn = {k1, k2}
    Exiter = {e1}
    Own = Own
    NoConn = NoConn
    MaxIdle = 1
    MaxCalls = 2
    Plans <- MCPlans
    MaxBody = 4
    Root = {1, 2}
    Key = {"a", "b"}
    Cap = 2
    MaxElems = 3
    MaxLive = 5
    DupEmptied = FALSE
    MaxText = 8
    MaxChars = 5
    MaxDigits = 5
    Width = 4
    MaxExp = 3
CHECK_DEADLOCK FALSE
INVARIANTS
    ServerOutlives
    AnswersOwnCall
    RequestsAsSent
    TreeSound
    TextRead
    ScalarsRead
PROPERTIES
    ExitEnds
