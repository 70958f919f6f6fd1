SPECIFICATION ProtocolSpec
CONSTANTS
    Handlers = {h1, h2}
    NoOne = NoOne
    Policy <- OneRound
    ChallengeTimeout = 1
    MaxConnections = 4
    Messages = {}
    MaxChallenges = 3
    MaxTime = 0
    MaxSeq = 6
    Operations = {"CheckPin"}
    Pins = {FALSE}
SYMMETRY HandlerSymmetry
PROPERTIES
    BlockedIsFinal
CHECK_DEADLOCK FALSE
