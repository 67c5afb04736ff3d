\* Two processes: a reset of the one clears the egress mask the other has set.
SPECIFICATION Spec
CONSTANTS
    Proc = {p1, p2}
    NumPorts = 2
    MaxCount <- MCMaxCount
    MaxFrameMemory = 9
    HwDevice = "T"
    ChunkUnits = 9
    MaxRetries = 2
    Outcomes = {"ok"}
    Uploads <- MCTwo
PROPERTY ResetOnlyWhenQuiet
