SPECIFICATION SpoolSpec
CONSTANTS
    NoFile = NoFile  NoName = NoName
    Processes = {p1, p2}
    Importers = {}
    Mortal = {}
    Records = {r1, r2}
    Files = {f1, f2, f3}
    Names = {n1, n2}
SYMMETRY Symmetry
INVARIANTS NeverSilentDrop
CHECK_DEADLOCK FALSE
