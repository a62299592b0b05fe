CONSTANTS
    left = left  right = right  any = any
    Tab = {left, right, any}
    Openable <- PartsOf
    Enters <- EntryOf
    MostEntries <- EntriesOf
    FromEnv = {"featuresVersionChecking", "websiteTitle", "domains"}
    MostSaves <- SavesOf
    None = None  NoChunk = NoChunk  NoSession = NoSession
    UploadScene <- UploadSituations
    Local = {1, 2, 3, 4}  Big = {3, 4}  LastChunk = 2  BatchSize = 1  MaxLength = 4
    MaxPresses = 1  MaxUploads = 2
    u1 = u1  b1 = b1  b2 = b2  Ended = Ended
    User = {u1}  Browser = {b1, b2}
    MaxSessions = 3  MaxSecrets = 2  MaxChallenges = 1
    PasskeyOver = FALSE
    Scene <- SignInSituations
    x1 = x1  x2 = x2  x3 = x3  g1 = g1  t1 = t1  t2 = t2
    PageTab = {t1, t2}
    NewestFirst <- ThreeFiles  Tag = {g1}  Limit = {"few"}
    PerPage = 2  Pages = {1, 2}  MaxCalls = 1
    PageScene <- PageSituations
    Found <- Finds
    Url = {1, 2, 3, 4}  Vanity = {"name"}  MaxUrls = 2
    UrlScene <- UrlSituations
SPECIFICATION MCSpec
CHECK_DEADLOCK FALSE
INVARIANTS UploadsKept AccountsSafe OwnDetails SettingsKept StartsUnlessOdd
PROPERTIES EndedStays NeverReopens ClientsSettle
