SPECIFICATION FairSpec
CONSTANTS
    Handlers = {h1, h2}
    NoOne = NoOne
    Policy <- OneRound
    ChallengeTimeout = 1
    MaxConnections = 2
    Messages <- ProgressMessages
    MaxChallenges = 2
    MaxTime = 0
PROPERTIES
    EveryRequestAnswered
