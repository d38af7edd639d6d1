\* A known stream is not found while another one is created.
SPECIFICATION Spec
CONSTANTS
    None = None
    Threads = {t1, t2}
    Streams = {s1, s2}
    StreamIds = {1, 2}
    Refs = {0}
    MaxSavedFrames = 3
    RefModulus = 5
    CallBudget <- ChurnCalls
    Careful = TRUE
    Stalled = {}
PROPERTIES
    KnownStreamFound
