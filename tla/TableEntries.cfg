\* One entry of each table through edits, exports and imports.
SPECIFICATION Spec
CONSTANTS
    Followed <- MCFollowed
    Values <- MCValues
    FdbIndices <- MCFdbIndices
    NoXml = NoXml
    MaxEdits <- MCMaxEdits
INVARIANT TypeOK
PROPERTIES EditIsExact OthersKeepTheEntry ExportImportKeeps ImportIsAllOrNothing
