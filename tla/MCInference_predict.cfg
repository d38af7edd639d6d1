\* Two threads predict; one model is loaded at the start, one on first use.
SPECIFICATION FairSpec
CONSTANTS
    None = None
    m1 = m1
    m2 = m2
    Models = {m1, m2}
    Threads = {t1, t2}
    Startup <- StartModels
    Inputs <- InputCounts
    Outputs <- OutputTensors
    Requests <- MixedRequests
    Fds = {0, 1, 2, 3, 4, 5}
    CallBudget = 2
INVARIANTS
    TypeOK
    OwnTensors
    NoObjectLost
    NoFileLost
    PreprocessedIfNeeded
    FrameReferenceOfCapture
    InputsBound
    AnswerMatchesModel
PROPERTIES
    OneModelPerPrediction
    EveryPredictReturns
