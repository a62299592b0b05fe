CONSTANTS
    f1 = f1  f2 = f2  a1 = a1  b1 = b1  a2 = a2  empty = empty
    o1 = o1  o2 = o2  t1 = t1
    File = {f1, f2}
    Name = {a1, b1, a2, empty}
    EmptyName = empty
    NamesOf <- TwoFilesNames
    Op = {o1, o2, t1}
    Tasks = {t1}
    Backend = "local"
    Kinds = {"upload", "delete", "expire", "serve", "bulk", "detach", "rename"}
    Faults = {"crash", "ds", "db", "ack"}
    NoFile = NoFile  NoName = NoName  Torn = Torn
SPECIFICATION MCSpec
CHECK_DEADLOCK FALSE
INVARIANTS AckedDurable NoLeakWhenQuiet
PROPERTIES ImplementsCatalog
