SPECIFICATION FairSpec
CONSTANTS
    MaxInFlight = 2
    MaxInputs = 3
    Vin = "vin"
    MaxAttempts = 2
    Terminal = TRUE
CHECK_DEADLOCK FALSE
INVARIANTS BrokerAgrees LastCommandWins CloudAgrees
PROPERTY MainNeverStuck
