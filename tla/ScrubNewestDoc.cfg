SPECIFICATION Spec
CONSTANTS
    Threads = {t1, t2}
    Sessions = {1, 2}
    Budgets = {2}
    MaxRetained = 1
    MaxCalls = 3
    None = None
INVARIANT NewestPreviewIsAlive
CHECK_DEADLOCK FALSE
