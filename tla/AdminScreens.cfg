CONSTANTS
    None = None
    MaxPresses = 2
    MaxOpenings = 2
    MaxEdits = 2
    MaxText = 2
    MaxTranslations = 3
    MaxPictures = 3
    MaxCameras = 2
    MaxFiles = 3
    MaxVersions = 3
    MaxCustomers = 3
    MaxSearch = 2
    MaxRecent = 2
    MaxInvited = 2
    Threshold = 1
    MaxPage = 2
    a = a
    b = b
    Accounts = {a, b}
    Supers = {b}
    Nobody = Nobody
    NoToken = NoToken
    MaxSessions = 2
    MaxCalls = 2
SPECIFICATION SmallSpec
INVARIANTS
    TypeOK
    DuplicatesExplained
    AutomaticTextSettles
    PageFitsRecord
    ChoicesSent
    TabAgrees
PROPERTIES
    TypedTextKept
    BackToTheListLeft
    ScreensSettle
CHECK_DEADLOCK FALSE
