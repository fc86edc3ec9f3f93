\* Reruns in the same container: a file given up on is recorded as processed only.
SPECIFICATION Spec
CONSTANTS
    a1 = a1  a2 = a2  t1 = t1  t2 = t2  t3 = t3  t4 = t4
    NULL = NULL  NoRow = NoRow
    Files <- MCFiles
    Accounts = {a1, a2}
    Txns = {t1, t2, t3, t4}
    LastInstant = 2
    DecMax = 40
    MAX_RECENT = 1
    Inputs <- LoopInputs
    PreStaged <- OneStaged
    MAX_RETRIES = 2
    QUIESCE_POLLS = 3
    RestartKinds = {"same"}
    MaxFaults = 2
    MaxRuns = 2
INVARIANTS
    QuiescedIsAccounted
CHECK_DEADLOCK FALSE
