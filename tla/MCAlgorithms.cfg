CONSTANTS
    Content <- MCContent
    VersionNames <- MCVersionNames
    Parts <- MCParts
    Empty = Empty
    VersionLike = {"v1.2", "v1.10", "v2"}
    Capital <- MCCapital
    EntryName <- MCEntryName
    WellKnown <- MCWellKnown
    MaxFieldNumber = 536870911
    Modes = {"", "FORWARD", "bad"}
    Pascal = {"A", "B", "N", "E", "S", "XEntry", "MEntry", "Call"}
    Snake = {"x", "y", "z", "m", "p", "q", "key", "value"}
    UpperSnake = {"ZERO", "ONE"}
    TokenRank <- MCTokenRank
    MaxDepth = 1
SPECIFICATION Spec
INVARIANTS  ValidSurvives  
CHECK_DEADLOCK FALSE
