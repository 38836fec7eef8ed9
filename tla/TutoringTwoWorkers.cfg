CONSTANTS
    Workers = {w1, w2}
    Calls = {c1, c2}
    Requests = {r1, r2}
    Sessions = {s1,s2}
    Submissions = {b1}
    CreditIds = {i1}
    Modes = {"defend"}
    Amounts = {5}
    Reserve = 3
    TutorCosts = {1}
    GuardCosts = {2}
    MaxTurns = 2
    MaxCrashes = 1
    None = None
SPECIFICATION Spec
SYMMETRY Symmetry
INVARIANTS
    NoOverdraft
PROPERTIES
    OnePaymentPerRequest
    ImplementsWallet
