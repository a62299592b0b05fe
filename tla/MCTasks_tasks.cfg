CONSTANTS
    OneKey = OneKey  OtherKey = OtherKey  v1 = v1  v2 = v2
    p1 = p1  p2 = p2  s1 = s1  s2 = s2
    Key = {OneKey, OtherKey}
    EnvKey = {OtherKey}
    Val = {v1, v2}
    Default = Default
    FromEnv = Environment
    Patcher = {p1, p2}
    Installer = {s1, s2}
    Faults = TRUE
    f1 = f1  a1 = a1  empty = empty
    upload = upload  deleteFiles = deleteFiles  maxViews = maxViews
    video = video  scan = scan  jpg = jpg
    NoFile = NoFile  NoName = NoName  Torn = Torn  NoThumb = NoThumb
SPECIFICATION MCSpec
CHECK_DEADLOCK FALSE
PROPERTIES ExpiredErased EventuallyThumbnailed LiveIsStoredAlone SetupStays
