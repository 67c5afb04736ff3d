\* One process flushing again and again; every transfer may fail, the process may die.
SPECIFICATION FairClockingSpec
CONSTANTS
    Proc = {p1}
    NumPorts = 3
    MaxCount <- MCMaxCount
    MaxFrameMemory = 9
    HwDevice = "T"
    ChunkUnits = 9
    MaxRetries = 2
    Outcomes = {"ok", "lost", "late"}
    Uploads <- MCReal
    Uploader = p1
INVARIANTS TypeOK OkMeansRunning FloatingIsReported SetUpMeansClocked
PROPERTIES ResetOnlyWhenQuiet ImplementsSwitchUpdate FlushTerminates ImplementsFlush
