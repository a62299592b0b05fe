SPECIFICATION Spec
CONSTANTS
    x1 = x1
    x2 = x2
    x3 = x3
    g1 = g1
    t1 = t1
    None = None
    Files <- ThreeFiles
    Match <- EveryFile
    Tag = {g1}
    Limit = {"few"}
    Tab = {t1}
    PerPage = 2
    Pages = {1, 2}
    MaxCalls = 1
    Scene <- OneTagged
INVARIANT TagsAsPicked
CHECK_DEADLOCK FALSE
