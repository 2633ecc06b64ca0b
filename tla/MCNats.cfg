SPECIFICATION Spec
CONSTANTS
    PatternSets <- MCPatternSets
    Subjects <- MCSubjects
    Publishers = {"reader"}
    MaxMessages = 2
CHECK_DEADLOCK FALSE
INVARIANTS
    HeardOnce
PROPERTIES
    SentIsHeard
