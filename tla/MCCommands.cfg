SPECIFICATION CommandsSpec
CONSTANTS
    a1 = a1  a2 = a2  s1 = s1  t1 = t1  t2 = t2  u1 = u1  u2 = u2  c1 = c1
    a = a  b = b  p1 = p1  p2 = p2  o1 = o1
    good = good  bad = bad  cli = cli
    None = None
    Attempt <- MCAttempt
    Student <- MCStudent
SYMMETRY Symmetry
CONSTRAINTS ToolStays StatementStays
CHECK_DEADLOCK FALSE
INVARIANTS
    SessionAgrees
    ProgressIsEarned
PROPERTIES
    AttemptsApart
    WorkKept
