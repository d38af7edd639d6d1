\* A request with two images of another size than the model's.
SPECIFICATION Spec
CONSTANTS
    None = None
    m1 = m1
    m2 = m2
    Models = {m1, m2}
    Threads = {t1}
    Startup <- StartModels
    Inputs <- InputCounts
    Outputs <- OutputTensors
    Requests <- TwoResized
    Fds = {0, 1, 2, 3, 4, 5}
    CallBudget = 2
INVARIANTS
    PreprocessedIfNeeded
