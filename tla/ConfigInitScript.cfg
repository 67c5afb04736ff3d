\* The commands of etc/sja1105-init, nothing fails.
SPECIFICATION ConfigSpec
CONSTANTS
    NumPorts = 2
    MaxCount <- MCMaxCount
    MaxFrameMemory = 9
    HwDevice = "T"
    ChunkUnits = 9
    MaxRetries = 1
    Uploads = {}
    ConfFiles <- MCConfFiles
    XmlFiles <- MCXmlFiles
    Leftovers <- MCLeftovers
    Proc = {p1}
    Outcomes = {"ok"}
    Faults = {}
    Commands <- MCInitScript
INVARIANT HexdumpTellsValid
