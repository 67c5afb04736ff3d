\* Two processes flushing at the same time, transfers interleaved.
SPECIFICATION Spec
CONSTANTS
    Proc = {p1, p2}
    NumPorts = 2
    MaxCount <- MCMaxCount
    MaxFrameMemory = 9
    HwDevice = "T"
    ChunkUnits = 9
    MaxRetries = 2
    Outcomes = {"ok", "late"}
    Uploads <- MCFour
INVARIANTS OnlyValidRuns SomeoneReports
