\* The parser is done when its calls have returned.
SPECIFICATION FairSpec
CHECK_DEADLOCK FALSE
CONSTANTS
    Alphabets <- Texts
    MaxStack = 10
INVARIANTS TypeOK BlocksMatch OperandsBindTighter
PROPERTIES Progress ThrownAwayWithError
