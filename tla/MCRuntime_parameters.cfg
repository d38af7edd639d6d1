\* Settings are read from device parameters of which some do not exist.
SPECIFICATION Spec
CONSTANTS
    None = None
    Threads = {t1}
    Options <- Lines
    Values <- Found
    ChipModulus = 16
    SignalBudget = 0
    CallBudget = 0
INVARIANTS
    OptionKeptWithoutParameter
