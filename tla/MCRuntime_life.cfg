\* Start, service and stop of the process, with up to two signals at any time.
SPECIFICATION FairSpec
CONSTANTS
    None = None
    Threads = {t1, t2}
    Options <- Lines
    Values <- Found
    ChipModulus = 16
    SignalBudget = 2
    CallBudget = 2
INVARIANTS
    TypeOK
    CrashTakesTwoSignals
PROPERTIES
    CaptureLivesInOrder
    InferenceLivesInOrder
    StopsWhenAsked
