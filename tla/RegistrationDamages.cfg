SPECIFICATION Spec
CONSTANTS
    Users = {u1, u2}
    Names = {n1, n2}
    NoName = NoName
    Conns = {c1, c2, c3}
    NoConn = NoConn
    MaxRestarts = 0
    MaxRenames = 0
    Faults = {"infoFails"}
SYMMETRY Symmetry
INVARIANT KeyedIsKept
