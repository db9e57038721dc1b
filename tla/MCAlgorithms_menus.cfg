SPECIFICATION MCSpec
CONSTANTS
    MaxInput = 6
    MaxIterations = 5
    Nodes = {"n1", "n2", "n3"}
    KeyOrder <- MCKeys
    Sensitive = {"pin"}
    MaxRedaction = 2
    MaxNesting = 2
    MaxKeys = 5
    Nothing <- Undefined
    Unsized <- Nulls
    Normalise <- normaliseForTruncation
    Size <- serializedSize
    Skeleton = 6
    Minimal = 2
    Previews = {8, 4, 2, 1, 0}
    Suffix <- MCSuffix
INVARIANTS
    StripSettles
    RedactionExact
    StoredFits
    HashIdentifies
    DatesKeepTheirDay
CHECK_DEADLOCK FALSE
