SPECIFICATION FairServiceSpec
CONSTANTS
    Faults = {"anchor", "crash", "power", "corrupt"}
    MaxAppends = 3
    MaxStops = 2
    Limits = {1, 2}
    Asked = {1, 3}
INVARIANTS
    PagesAreComplete
    SeenStays
    CleanReportIsTrue
    AlarmMeansRace
    AheadReportIsExact
    ServiceIInv
PROPERTIES
    RunbookBringsBack
CHECK_DEADLOCK FALSE
