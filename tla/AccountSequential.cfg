SPECIFICATION Spec
CONSTANTS
    Handlers = {h1}
    NoOne = NoOne
    Policy <- TwoRounds
    ChallengeTimeout = 1
    MaxConnections = 2
    Messages <- AllMessages
    MaxChallenges = 5
    MaxTime = 3
PROPERTIES
    RetrySpec
