SPECIFICATION Spec
CONSTANTS
    MaxSessions = 2
    Threads = {t1}
    MaxRequests = 2
    MaxCalls = 1
    None = None
INVARIANTS TypeOK HandleIsOwn NoSendToEnded TornOnlyByReply AnswersInOrder EndsForAReason
PROPERTIES EveryRequestEnds
CHECK_DEADLOCK FALSE
