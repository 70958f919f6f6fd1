SPECIFICATION StoreSpec
CONSTANTS
    Tokens = {t1}
    NoSession = NoSession
    Timeouts <- ShortTimeouts
    MaxSweep = 1
    MaxLag = 1
PROPERTIES
    OnlyActiveExpire
