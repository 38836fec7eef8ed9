CONSTANTS
    Workers = {w1}
    Calls = {c1, c2}
    Requests = {r1, r2, r3, r4}
    Sessions = {s1, s2}
    Submissions = {b1}
    CreditIds = {i1}
    Modes = {"defend"}
    Amounts = {9}
    Reserve = 2
    TutorCosts = {1}
    GuardCosts = {1}
    MaxTurns = 3
    MaxCrashes = 1
    None = None
SPECIFICATION Spec
SYMMETRY Symmetry
INVARIANTS
    TypeOK
    OneTurnAtATime
    EvidenceMatchesStages
    TwoFailuresEndDefense
PROPERTIES
    ConfirmedStays
    DeliveredUnderAccess
    ImplementsDefense
