SPECIFICATION ViewsSpec
CONSTANTS
    t1 = t1  t2 = t2  x = x  y = y  s1 = s1  m1 = m1  m2 = m2
    None = None
    Account <- MCAccount
    FirstVersion = 9
    LastVersion = 10
    MaxApi = 2
    MaxLoads = 1
    MaxOpens = 1
    MaxChecks = 1
SYMMETRY Symmetry
CONSTRAINTS Unhurried InSight Attentive
CHECK_DEADLOCK FALSE
INVARIANTS
    DashboardSaysWhy
PROPERTIES
    TaskViewInStep
    PanelOfItsTask
