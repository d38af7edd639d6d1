\* Two threads, two streams, one of the cameras stalls.
SPECIFICATION FairSpec
CONSTANTS
    None = None
    Threads = {t1, t2}
    Streams = {s1, s2}
    StreamIds = {1, 2}
    Refs = {0, 1}
    MaxSavedFrames = 3
    RefModulus = 5
    CallBudget <- LiveCalls
    Careful = TRUE
    Stalled = {2}
PROPERTIES
    EveryCallReturns
    NewFrameDespiteStall
\* Handlers wait for the stalled camera forever.
CHECK_DEADLOCK FALSE
