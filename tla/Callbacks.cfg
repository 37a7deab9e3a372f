SPECIFICATION Spec
CONSTANTS
    Workers = {w1, w2}
    Users = {u1}
    Listener = Listener
    MaxCallbacks = 2
    MaxCalls = 2
    None = None
INVARIANTS TypeOK NoRunAfterRemove StuckOnlyByEmbrace
PROPERTIES EverythingEnds
CHECK_DEADLOCK FALSE
