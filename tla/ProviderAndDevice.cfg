SPECIFICATION SumSpec
CONSTANTS
    Policies <- SmallPolicies
    MaxTime = 6
    MaxVersion = 3
    MaxPublications = 3
    MaxFaults = 2
    Users = {1, 2}
    KeyMessages = {m1, m2}
    KeyScenes <- MCKeyScenes
    EXACT_LENGTH = 4
    MIN_UNIQUE_DIGITS = 2
    RADIX = 5
    ORDER = 11
    ScalarBits = 4
    WideBits = 8
    HkdfBits = 7
    Callers = {"ui", "background"}
    MaxCalls = 7
INVARIANTS
    ScheduleIsServed
    BlockedAtLimit
    WedgedOnlyIfCut
    InForceIsKept
    KeysServe
    PinIsSound
    KeyHasOneOwner
PROPERTIES
    PublishedIsAdopted
CHECK_DEADLOCK FALSE
