\* The whole of run_all, two process starts, a replaced input, an error.
SPECIFICATION FairSpec
CONSTANTS
    c1 = c1  a1 = a1  t1 = t1  t2 = t2  p1 = p1  s1 = s1
    NULL = NULL  BadTime = BadTime  NoTable = NoTable  NoRow = NoRow
    CustomerIds = {c1}
    AccountIds = {a1}
    TxnIds = {t1, t2}
    Provinces = {p1}
    TxnTypes = {"CREDIT", "DEBIT"}
    LastDay = 0
    DayLength = 1
    AgeLimits = {1}
    BatchInputs <- MCBatchInputs
    RUN_TIMESTAMP = NULL
    MinTypes = 2
    MaxProvinces = 1
    MaxChanges = 1
    MaxClock = 0
    Files <- MCFiles
    Accounts = {a1}
    Txns = {s1}
    LastInstant = 0
    DecMax = 9
    MAX_RECENT = 1
    StreamInputs <- MCStreamInputs
    PreStaged <- OneStaged
    MAX_RETRIES = 0
    QUIESCE_POLLS = 1
    RestartKinds = {"same", "new"}
    MaxFaults = 1
    MaxRuns = 2
    Configs <- MCConfigs
INVARIANTS
    TypeOK
    ExitZeroIsEarned
    FailureIsNamed
    LogTellsLayers
PROPERTIES
    StreamAfterContracts
    Terminates
    IsAJob
CHECK_DEADLOCK FALSE
