SPECIFICATION ConcurrentSpec
CONSTANTS
    Handlers = {h1, h2}
    NoOne = NoOne
    Policy <- OneRound
    ChallengeTimeout = 0
    MaxConnections = 4
    Messages <- PinMessages
    MaxChallenges = 3
    MaxTime = 1
    MaxSeq = 4
    Operations = {"CheckPin", "GenerateKey", "Sign"}
    Pins = {TRUE, FALSE}
SYMMETRY HandlerSymmetry
INVARIANTS
    EvaluateNeverPanics
    LocksAreReleased
    EntriesBounded
    CurrentRequestIsFresh
    RightPinNotCounted
    KnownKeysAreStored
PROPERTIES
    ChallengeIsSpent
CHECK_DEADLOCK FALSE
