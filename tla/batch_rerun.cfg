\* Four inputs run one after the other and back again, with errors, crashes and a clock.
SPECIFICATION Spec
CONSTANTS
    c1 = c1  c2 = c2  c3 = c3  a1 = a1  a2 = a2  a3 = a3
    t1 = t1  t2 = t2  p1 = p1  p2 = p2
    NULL = NULL  BadTime = BadTime  NoTable = NoTable
    CustomerIds = {c1, c2, c3}
    AccountIds = {a1, a2, a3}
    TxnIds = {t1, t2}
    Provinces = {p1, p2}
    TxnTypes = {"CREDIT", "DEBIT", "REVERSAL", "FEE"}
    LastDay = 1
    DayLength = 2
    AgeLimits = {1, 2}
    Inputs <- RerunInputs
    RUN_TIMESTAMP = 1
    MinTypes = 2
    MaxProvinces = 2
    MaxFaults = 1
    MaxRuns = 3
    MaxChanges = 2
    MaxClock = 1
INVARIANTS
    RerunIsIdentical
    ReportAddsUp
    Q2NeverFails
PROPERTIES
    RunsAreAtomic
CHECK_DEADLOCK FALSE
