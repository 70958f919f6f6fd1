SPECIFICATION FairStoreSpec
CONSTANTS
    Tokens = {t1, t2}
    NoSession = NoSession
    Timeouts <- ShortTimeouts
    MaxSweep = 1
    MaxLag = 1
PROPERTIES
    KeepsPromise
    ExpiredIsFinal
    EverySessionRemoved
