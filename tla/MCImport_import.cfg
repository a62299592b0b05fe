CONSTANTS
    u1 = u1  u2 = u2  d1 = d1  d2 = d2  f1 = f1  f2 = f2  t1 = t1  i1 = i1
    User = {u1, u2}
    Folder = {d1, d2}
    File = {f1, f2}
    Tag = {t1}
    Item = {i1}
    Exports <- MCExports
    Importer = {o1, o2}
    Hows = {"zipline4", "zipline3", "zipfast4"}
    Me = Me  Kept = Kept  None = None
    MaxEdits = 1
SPECIFICATION ImportSpec
CHECK_DEADLOCK FALSE
SYMMETRY Symmetry
INVARIANTS ImportedOnce Delivered
