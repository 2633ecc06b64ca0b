CONSTANTS
    Platforms = {"posix", "zephyr"}
    MaxSpeed = 10
SPECIFICATION FairSpec
INVARIANTS
    QuietAgrees
PROPERTIES
    MovesSlow
    RunEntersLocked
    ComesToStop
