CONSTANTS
    Flows = {f1, f2}
    Browsers = {b1}
    Subjects = {s1, s2}
    Names = {n1}
    Users = {u1, u2}
    Locals = {u1}
    Approvals = {a1}
    Calls = {c1, c2}
    None = None
SPECIFICATION Spec
SYMMETRY Symmetry
INVARIANTS
    TypeOK
    AccountsOneToOne
    OnlyOperatorsLink
PROPERTIES
    IdentityStays
