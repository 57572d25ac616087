SPECIFICATION Spec
CONSTANTS
    Wrap = 64
    IntMax = 31
    Milli = 2
    Oversleep = {0, 1}
    MaxTicks = 6
    Series = {"ue_queue", "emulator_runtime"}
    Configs <- RealTime
    InitT = 1
    Costs = {0, 1}
    Freq = 2
    ProgressPeriod = 0
    EmitRuntime = TRUE
INVARIANT TickPacing
