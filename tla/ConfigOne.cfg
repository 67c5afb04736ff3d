\* One command at a time, any transfer and any system call may fail;
\* writes are cut short anywhere.
SPECIFICATION ConfigSpec
CONSTANTS
    NumPorts = 1
    MaxCount <- MCMaxCount
    MaxFrameMemory = 9
    HwDevice = "T"
    ChunkUnits = 40
    MaxRetries = 1
    Uploads = {}
    ConfFiles <- MCConfFiles
    XmlFiles <- MCXmlFiles
    Leftovers <- MCLeftovers
    Proc = {p1}
    Outcomes = {"ok", "lost"}
    Faults = {"open", "read", "short"}
    Commands <- MCCommands
INVARIANTS ConfigTypeOK OkMeansAgreed OkMeansSaved DirtyMeansWritten ValidLoadIsFaithful LoadTakesTheDocument
PROPERTY SwitchTouchedOnlyWhenAsked
