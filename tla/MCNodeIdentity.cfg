CONSTANTS
    Tokens = {t1, t2}
    NoToken = NoToken
    Absent = Absent
    Torn = Torn
    MaxKeys = 2
    MaxIds = 2
    MaxLocals = 2
SYMMETRY TokenSymmetry
SPECIFICATION Spec
CHECK_DEADLOCK FALSE
INVARIANTS TypeOK DroppedStaysDropped PanelKeyOnDisk KeyOpens
PROPERTIES NodeIdStable
