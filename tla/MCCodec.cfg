SPECIFICATION CodecSpec
CONSTANT MaxHits = 1
INVARIANTS
    CanonicalParse
    PrefixRoundTrip
CHECK_DEADLOCK FALSE
