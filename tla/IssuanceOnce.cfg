SPECIFICATION Spec
CONSTANTS
    Tokens = {t1}
    NoSession = NoSession
    Timeouts <- ShortTimeouts
    MaxSweep = 1
    MaxLag = 1
    Handlers = {h1, h2}
    MaxTokens = 3
SYMMETRY HandlerSymmetry
INVARIANTS
    IssuedOnce
