CONSTANTS
    v1 = v1  v2 = v2  scan = scan  manual = manual  jpg = jpg  webp = webp
    NoThumb = NoThumb
    Format = {jpg, webp}
    Video = {v1, v2}
    Pass = {scan, manual}
    FormatOf <- FormatChanged
    Threads = 2
    Faults = {"crash", "ds", "db", "decode", "delete"}
    NVideos = 3  PoolThreads = 2  NWorkers = 3  NBatches = 3
    PoolScene <- PoolSituations
SPECIFICATION MCSpec
CHECK_DEADLOCK FALSE
INVARIANTS RowHasObject PoolKnowsWork SaidRight
PROPERTIES FollowUpsEnd
