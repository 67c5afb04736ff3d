\* A 64-bit register: the mask of its top byte is undefined.
SPECIFICATION Spec
CONSTANTS
    TblLen = 8
    Fields <- MCRegister
    Values <- MCValues
    Neighbours <- MCNeighbours
    Polys <- MCPolys
PROPERTY EveryValueFits
