SPECIFICATION Spec
CONSTANTS
    n1 = n1
    n2 = n2
    o1 = o1
    o2 = o2
    p1 = p1
    p2 = p2
    Tables = {t}
    Attrs <- MCAttrs
    InvalidOid = InvalidOid
    MasterSize = 0
    MaxSize = 1
    ConfigKeys <- MCConfigKeys
    Limits = {2}
    SegRatio = 1
    SEGCOUNT = 2
    SEGMENT_SIZE_ARRAY_LENGTH = 2
    MayOverflow = TRUE
    MaxChanges = 2
    MaxFailures = 0
INVARIANTS
    UsageIsSum

    
