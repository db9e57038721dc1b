SPECIFICATION Spec
CONSTANTS
    c1 = c1
    c2 = c2
    Nobody = Nobody
    Clients <- Two
    MaxVersion = 3
SYMMETRY Alike
INVARIANTS
    NoLostUpdate
    VersionIdentifiesContent
    RefusalsAreReal
CHECK_DEADLOCK FALSE
