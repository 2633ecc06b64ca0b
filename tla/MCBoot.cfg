SPECIFICATION FairSpec
CHECK_DEADLOCK FALSE
INVARIANTS
    EveryHardwareServes
    DiagnosisHearsFirst
    HandlerBeforeFrames
PROPERTIES
    StartEnds
