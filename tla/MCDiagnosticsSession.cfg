CONSTANTS
    Requests <- MCAllRequests
    Testers = {t1}
    MaxMessages = 2
    MaxFrames = 1
SPECIFICATION Spec
CHECK_DEADLOCK FALSE
PROPERTY IoControlInExtendedOnly
