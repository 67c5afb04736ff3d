\* Two applications, any transfer failing, either killed anywhere.
SPECIFICATION LibrarySpec
CONSTANTS
    a1 = a1
    a2 = a2
    App = {a1, a2}
    Outcomes = {"ok", "lost", "late"}
    Workloads <- MCWorkloads
    TickNs = 3
    ClockMod = 8
    LowBytesMod = 4
    WordMod = 4
    StampMod = 4
    One <- MCOne
    RateUnit = 16
    Tsn = TRUE
    Routes = {0, 1}
    Shapers = {0, 1}
INVARIANT LibraryTypeOK
PROPERTIES TimestampIsExact StepIsAsAsked RegistersHoldWhatWasAsked RouteAnswersTheQuestion ShaperIsAsAsked
