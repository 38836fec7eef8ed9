CONSTANTS
    Flows = {f1, f2}
    Browsers = {b1, b2}
    Subjects = {s1, s2}
    Names = {n1}
    Users = {u1, u2}
    Locals = {}
    Approvals = {}
    Calls = {c1, c2, c3}
    None = None
SPECIFICATION Spec
SYMMETRY Symmetry
INVARIANTS
    OneTokenPerFlow
    TokenOfSigner
PROPERTIES
    ImplementsHandoff
