\* Two threads ask for a model that is loaded on first use.
SPECIFICATION Spec
CONSTANTS
    None = None
    m1 = m1
    m2 = m2
    Models = {m1, m2}
    Threads = {t1, t2}
    Startup <- NoModels
    Inputs <- InputCounts
    Outputs <- OutputTensors
    Requests <- PlainRequest
    Fds = {0, 1, 2, 3, 4, 5}
    CallBudget = 2
PROPERTIES
    LoadedModelGetsEntry
