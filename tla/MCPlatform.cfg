SPECIFICATION PlatformSpec
CONSTANTS
    root = root  tom = tom  ann = ann  new = new
    t1 = t1  t2 = t2  a = a  b = b  e1 = e1  e2 = e2  c1 = c1
    s1 = s1  s2 = s2  k1 = k1  k2 = k2  u1 = u1  n1 = n1  f1 = f1
    None = None
    Users <- Four
    Pages <- OpenPages
    Founders <- Begin
    MaxAsks = 1
SYMMETRY Symmetry
CONSTRAINTS OnlyRoles OnlyDeletions OnlyChecks Plain OneMarked Untouched NoAccess NothingOpened OneLoad InOrder
CHECK_DEADLOCK FALSE
INVARIANTS
    EveryMentorIsAppointed
    DeletedIsNotListed
    RowIsLatest
    PageIsOfItsStudent
PROPERTIES
    ImplementsVersions
    SavesAreWhole
    PageTellsTruth
