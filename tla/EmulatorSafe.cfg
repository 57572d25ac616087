SPECIFICATION Spec
CONSTANTS
    Wrap = 16
    IntMax = 7
    Milli = 2
    Oversleep = {0, 1}
    MaxTicks = 4
    Series = {"ue_queue", "emulator_runtime"}
    Configs <- SomeConfigs
    InitT = 1
    Costs = {0, 3}
    Freq = 2
    ProgressPeriod = 2
    EmitRuntime = TRUE
INVARIANTS TypeOK StepsAccounted AtMostTwoWindowsLost KeepsTime
PROPERTIES RunEnds
