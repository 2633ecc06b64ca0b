CONSTANTS
    Requests <- MCRequests
    Testers = {t1}
    MaxMessages = 1
    MaxFrames = 0
SPECIFICATION FairSpec
CHECK_DEADLOCK FALSE
PROPERTY ShutdownReturns
