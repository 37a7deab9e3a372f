SPECIFICATION Spec
CONSTANTS
    MaxConns = 2
    MaxDisconnects = 1
    MayFail = TRUE
    MayShutdown = TRUE
INVARIANTS TypeOK  HandleIsOwn ToldOnce
PROPERTIES CloseTakesDown
CHECK_DEADLOCK FALSE
