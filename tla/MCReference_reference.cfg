CONSTANTS
    NoFile = NoFile  NoName = NoName
    File = {f1, f2, f3}
    Name = {a, b}
    Op = {o1, o2}
    MaxFiles = 1
    a = a  b = b  o1 = o1  o2 = o2
    u1 = u1  u2 = u2  r1 = r1  r2 = r2  n1 = n1  n2 = n2
    google = google  discord = discord  g1 = g1  g2 = g2  d1 = d1
    None = None
    User = {u1, u2}
    UserName = {n1, n2}
    Req = {r1, r2}
    Provider = {google, discord}
    Identity = {g1, g2, d1}
    ProviderOf <- MCProviderOf
    NameOf <- MCNameOf
SPECIFICATION MCSpec
CHECK_DEADLOCK FALSE
SYMMETRY Symmetry
INVARIANTS QuotaBounded AckedServed NothingLeft
PROPERTIES AccountsKept
