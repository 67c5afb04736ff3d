\* Two commands at a time on the staging area; the process may die, writes are whole,
\* memory may run out.
SPECIFICATION ConfigSpec
CONSTANTS
    NumPorts = 2
    MaxCount <- MCMaxCount
    MaxFrameMemory = 9
    HwDevice = "T"
    ChunkUnits = 9
    MaxRetries = 1
    Uploads = {}
    ConfFiles <- MCConfFiles
    XmlFiles <- MCXmlFiles
    Leftovers <- MCLeftovers
    Proc = {p1, p2}
    Outcomes = {"ok"}
    Faults = {"malloc", "open", "read"}
    Commands <- MCOffline
INVARIANTS ValidLoadIsFaithful QuiescentFileIsLastWrite
SYMMETRY MCEither
