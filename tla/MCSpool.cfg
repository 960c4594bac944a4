SPECIFICATION SpoolSpec
CONSTANTS
    NoFile = NoFile  NoName = NoName
    Processes = {p1, p2, p3}
    Importers = {}
    Mortal = {p2, p3}
    Records = {r1}
    Files = {f1, f2, f3, f4}
    Names = {n1, n2, n3}
SYMMETRY Symmetry
INVARIANTS KeptUnlessLate
CHECK_DEADLOCK FALSE
