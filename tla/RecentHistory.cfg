SPECIFICATION ShownSpec
CONSTANTS
    Tokens = {t1}
    NoSession = NoSession
    Timeouts <- ShortTimeouts
    MaxSweep = 1
    MaxLag = 1
    Handlers = {h1, h2}
    MaxTokens = 3
    Scenes <- MCScenes
    NationalityTable <- MCNationalityTable
    MunicipalityTable <- MCMunicipalityTable
    CountryTable <- MCCountryTable
    FourDigits <- MCFourDigits
    Numbers <- MCNumbers
    AgeOn <- MCAgeOn
    LoginScenes <- MCLoginScenes
    RequestPersonen <- request_personen
    PidAttributes <- attributes
    CanDisplay <- PreviewsDisplayable
    NoopAnswer <- NoopVraag
    AppMapping <- MCAppMapping
    AppOrder <- MCAppOrder
    AppScenes <- MCAppScenes
    PinFailures <- MCPinFailures
    TimeoutsMs <- MCTimeoutsMs
    ReaderKeys = {"r1", "r2"}
    DeviceKeys = {"d1", "d2"}
    VerifierUrls = {"u1", "u2"}
    RequestedItems <- MCRequestedItems
    Oid4vpSessions <- MCOid4vpSessions
    MaxTalks = 2
INVARIANTS
    OnlyRecentIsShown
CHECK_DEADLOCK FALSE
