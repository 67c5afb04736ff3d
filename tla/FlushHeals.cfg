\* No transfer fails, but the process may die anywhere and flush again.
SPECIFICATION ClockingSpec
CONSTANTS
    Proc = {p1}
    NumPorts = 5
    MaxCount <- MCMaxCount
    MaxFrameMemory = 9
    HwDevice = "QS"
    ChunkUnits = 9
    MaxRetries = 3
    Outcomes = {"ok"}
    Uploads <- MCClocked
INVARIANTS RetryHeals OkMeansEveryClockRuns
PROPERTY DryRunIsDry
