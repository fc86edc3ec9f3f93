\* Every content of two files over malformed lines, and decimals that overflow.
SPECIFICATION Spec
CONSTANTS
    a1 = a1  a2 = a2  t1 = t1  t2 = t2  t3 = t3  t4 = t4
    NULL = NULL  NoRow = NoRow
    Files <- MCFiles
    Accounts = {a1, a2}
    Txns = {t1, t2, t3, t4}
    LastInstant = 2
    DecMax = 3
    MAX_RECENT = 1
    Inputs <- DirtyInputs
    PreStaged <- MCFiles
    MAX_RETRIES = 1
    QUIESCE_POLLS = 3
    RestartKinds = {"new"}
    MaxFaults = 1
    MaxRuns = 2
INVARIANTS
    TypeOK
    BalanceIsLedger
    LastTsIsNewest
    KeyedRowsBounded
    QuiescedIsAccounted
CHECK_DEADLOCK FALSE
