SPECIFICATION Spec
CONSTANTS
    MaxInFlight = 2
    MaxInputs = 3
    Vin = "vin"
    MaxAttempts = 2
    Terminal = TRUE
CHECK_DEADLOCK FALSE
INVARIANT VinIsTheVehicles
