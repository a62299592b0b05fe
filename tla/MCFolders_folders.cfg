CONSTANTS
    d1 = d1  d2 = d2  d3 = d3  x1 = x1  c1 = c1  c2 = c2
    f1 = f1  f2 = f2  r1 = r1  r2 = r2  e1 = e1  e2 = e2  None = None
    UserFile = {f1, f2}
    Tab = {r1, r2}
    ReferenceScene <- ReferenceSituations
    MaxRequests = 1
    Servers = {"zipline", "zipfast"}
    Archive = {e1, e2}
    Root = Root  Gone = Gone  Unborn = Unborn
    Folder = {d1, d2, d3}
    File = {x1}
    Client = {c1, c2}
    DeleteActions = {"none", "root", "folder", "cascade", "cascade-files"}
    Others = {"create", "upload", "patch", "move"}
    Faults = {"db", "ds"}
SPECIFICATION MCSpec
CHECK_DEADLOCK FALSE
INVARIANTS Acyclic CascadeExactAlone CascadeExact TreeStays ExportWhole
PROPERTIES OnlyWithin TabsEnd
