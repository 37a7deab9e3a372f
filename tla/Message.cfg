SPECIFICATION Spec
CONSTANTS
    Values <- MCValues
    MaxValues = 2
    NameLength = 3
    None = None
INVARIANTS FitsBuffer RoundTrip DoubleDeleteOnlyByDrop ResultIsBacked
CHECK_DEADLOCK FALSE
