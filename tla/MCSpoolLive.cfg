SPECIFICATION FairSpoolSpec
CONSTANTS
    NoFile = NoFile  NoName = NoName
    Processes = {p1, p2}
    Importers = {}
    Mortal = {p2}
    Records = {r1}
    Files = {f1, f2, f3}
    Names = {n1, n2}
PROPERTIES SpooledRecordArrives
CHECK_DEADLOCK FALSE
