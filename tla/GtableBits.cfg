\* Every order of storing the fields, over one another and side by side.
SPECIFICATION Spec
CONSTANTS
    TblLen = 12
    Fields <- MCFields
    Values <- MCValues
    Neighbours <- MCNeighbours
    Polys <- MCPolys
INVARIANTS UnpackReadsTheField CrcIsIeee8023 EveryEntryInItsBin EntriesKeepApart
PROPERTY PackWritesTheField
