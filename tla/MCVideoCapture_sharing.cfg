\* Three threads share a stream and its successor under the same id; clients that
\* delete a stream only when they are done with it.
SPECIFICATION Spec
CONSTANTS
    None = None
    Threads = {t1, t2, t3}
    Streams = {s1, s2}
    StreamIds = {1}
    Refs = {0, 2}
    MaxSavedFrames = 3
    RefModulus = 5
    CallBudget <- SharingCalls
    Careful = TRUE
    Stalled = {}
SYMMETRY Symmetry
INVARIANTS
    SavedIsWindow
    RefsInOrder
    BufferOwnership
    CopyFromHeld
    SavedAnswerRight
    NoDanglingUse
    NoLockCycle
PROPERTIES
    RecentFramesServed
    StoreSpec
