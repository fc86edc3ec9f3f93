\* A statement fails after the balances were committed, and the file is retried.
SPECIFICATION Spec
CONSTANTS
    a1 = a1  a2 = a2  t1 = t1  t2 = t2  t3 = t3  t4 = t4
    NULL = NULL  NoRow = NoRow
    Files <- MCFiles
    Accounts = {a1, a2}
    Txns = {t1, t2, t3, t4}
    LastInstant = 2
    DecMax = 40
    MAX_RECENT = 1
    Inputs <- LoopInputs
    PreStaged <- OneStaged
    MAX_RETRIES = 2
    QUIESCE_POLLS = 3
    RestartKinds = {"same", "new"}
    MaxFaults = 1
    MaxRuns = 1
INVARIANTS
    IdempotentFeed
CHECK_DEADLOCK FALSE
