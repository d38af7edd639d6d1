\* A stream is deleted under a GetFrame of another client that knows it.
SPECIFICATION InformedSpec
CONSTANTS
    None = None
    Threads = {t1, t2}
    Streams = {s1}
    StreamIds = {1}
    Refs = {0, 1}
    MaxSavedFrames = 3
    RefModulus = 5
    CallBudget <- DeleteCalls
    Careful = FALSE
    Stalled = {}
INVARIANTS
    GetFrameKeepsStream
