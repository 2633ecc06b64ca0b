CONSTANTS
    Requests <- MCRequests
    Testers = {t1}
    MaxMessages = 2
    MaxFrames = 2
SPECIFICATION FairSpec
CHECK_DEADLOCK FALSE
INVARIANTS
    OwnAnswersInOrder
    QuietAfterShutdown
    CanAnswersInOrder
PROPERTIES
    DoIpControlInExtendedOnly
    ServedIsAnswered
