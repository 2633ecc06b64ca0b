SPECIFICATION Spec
CHECK_DEADLOCK FALSE
INVARIANTS
    SoftwareLockPublishes
