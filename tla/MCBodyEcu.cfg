CONSTANTS
    kLightCount = 2
    LockPin = 1
    MaxSpeed = 10
    Wired = {"doorButton", "busClients", "doorFaults", "timerFaults", "canGateway"}
    SpeedRequests <- MCSpeedRequests
    AdcSamples <- MCAdcSamples
    CanFrames <- MCCanFrames
SPECIFICATION FairSpec
INVARIANTS
    TypeOK
    SubscribersCurrent
    MotionOnlyInRun
    ActuatorFollowsLock
    LampsShowLights
PROPERTIES
    ButtonKeepsMovingInRun
    AnswersTruthful
    KeepsPromise
    CrankEnds
    OverrideTakesEffect
