CONSTANTS
    Workers = {w1}
    Calls = {c1, c2}
    Requests = {r1, r2, r3}
    Sessions = {s1, s2}
    Submissions = {}
    CreditIds = {i1}
    Modes = {"help"}
    Amounts = {3, 5}
    Reserve = 3
    TutorCosts = {0, 1}
    GuardCosts = {2}
    MaxTurns = 2
    MaxCrashes = 1
    None = None
SPECIFICATION Spec
SYMMETRY Symmetry
INVARIANTS
    LedgerBalanced
    SavedAnswerIsTrue
