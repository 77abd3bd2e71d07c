SPECIFICATION FairSpec
CONSTANTS
    Threads = {t1, t2}
    Sessions = {1}
    Budgets = {1}
    MaxRetained = 1
    MaxCalls = 3
    None = None
PROPERTY CallsReturn
CHECK_DEADLOCK FALSE
