SPECIFICATION Spec
CONSTANTS
    Paths = {p1, p2}
    Inodes = {i1, i2}
    a = a
    b = b
    Contents <- MCContents
    Workers = {w1, w2}
    None = None
    Regimes = {"any"}
    MaxClock = 2
SYMMETRY Symmetry
INVARIANT
    StoredCoherent
