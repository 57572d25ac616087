SPECIFICATION RadioSpec
CONSTANTS
    Kinds = {"base", "walk", "manhattan", "drift", "clockwise"}
    Apothem = 1
    MaxDistance2 = 1
    SpeedVars <- SpeedNoise
    MaxSpeed = 1
    TimeTargets = {2}
    Directions = {"dl", "ul"}
    Outdoor = TRUE
    Setups <- SomeSetups
    MaxRi = 2
    NumThres = 1
    Cycle = 12
INVARIANTS RadioTypeOK ReportConsistent
PROPERTIES StepsGoOn
