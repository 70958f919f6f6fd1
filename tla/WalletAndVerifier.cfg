SPECIFICATION PartiesSpec
CONSTANTS
    RelyingParties = {r1, r2}
    Copies = {c1, c2}
    MaxSessions = 2
    MaxMdocs = 2
    MaxUse = 2
    Tokens = {t1}
    NoSession = NoSession
    Timeouts <- ShortTimeouts
    MaxSweep = 1
    MaxLag = 0
    Devices = {d1, d2}
    Handlers = {h1, h2}
    NoHandler = NoHandler
    ReturnUrl = "SameDevice"
    LinkValidity = 0
    MaxNonce = 2
SYMMETRY PartySymmetry
INVARIANTS
    DatabaseReadable
    OneRegistration
    UsageCounted
    HistoryExact
    AnsweredOwnRequest
    EndIsKept
