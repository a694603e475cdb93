SPECIFICATION FairSpec
CONSTANTS
    Users = {u1, u2}
    Names = {n1, n2}
    NoName = NoName
    Conns = {c1, c2, c3}
    NoConn = NoConn
    MaxRestarts = 1
    MaxRenames = 0
    Faults = {}
INVARIANT RowsAreHeld
PROPERTY RunsAreServed
