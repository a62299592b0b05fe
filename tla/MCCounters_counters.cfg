CONSTANTS
    file = file  url = url  b1 = b1  o1 = o1  o2 = o2  task = task
    NoItem = NoItem
    File = {file}
    Url = {url}
    Browser = {b1}
    Handler = {o1, o2}
    Task = {task}
    ViewLimits = {1, 2}
    DeleteOnMaxViews = TRUE
    MaxLost = 1
    Servers = {"zipfast", "zipline"}
    Invite = {i1}
    Name = {n1, n2, n3}
    Reg = {r1, r2}
    Limits = {1, 2}
    NoInvite = NoInvite
SPECIFICATION MCSpec
CHECK_DEADLOCK FALSE
INVARIANTS OvershootBounded InviteOvershootBounded UsesAreAccounts
PROPERTIES OnlySpentRemoved EventuallySwept
