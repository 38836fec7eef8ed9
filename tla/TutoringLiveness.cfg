CONSTANTS
    Workers = {w1}
    Calls = {c1, c2}
    Requests = {r1, r2}
    Sessions = {s1}
    Submissions = {}
    CreditIds = {i1}
    Modes = {"help"}
    Amounts = {4}
    Reserve = 2
    TutorCosts = {1}
    GuardCosts = {1}
    MaxTurns = 2
    MaxCrashes = 1
    None = None
SPECIFICATION FairSpec
PROPERTIES
    EveryTurnEnds
