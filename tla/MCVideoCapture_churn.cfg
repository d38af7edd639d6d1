\* Streams come and go under clients that send anything at any time.
SPECIFICATION Spec
CONSTANTS
    None = None
    Threads = {t1, t2, t3}
    Streams = {s1, s2}
    StreamIds = {1}
    Refs = {0, 1}
    MaxSavedFrames = 3
    RefModulus = 5
    CallBudget <- ChurnCalls
    Careful = FALSE
    Stalled = {}
SYMMETRY Symmetry
INVARIANTS
    TypeOK
    EmplaceInserts
    BufferOwnership
