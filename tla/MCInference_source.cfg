\* A request with a stream and a shared memory file.
SPECIFICATION Spec
CONSTANTS
    None = None
    m1 = m1
    m2 = m2
    Models = {m1, m2}
    Threads = {t1}
    Startup <- NoModels
    Inputs <- InputCounts
    Outputs <- OutputTensors
    Requests <- FileAndStream
    Fds = {0, 1, 2, 3, 4, 5}
    CallBudget = 2
INVARIANTS
    StreamImageUsed
