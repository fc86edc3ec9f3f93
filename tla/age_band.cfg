\* Every day of birth of four years, from the day before to the day after the
\* birthdays that begin a band.
SPECIFICATION Spec
CONSTANTS
    NULL = NULL  NotBuilt = NotBuilt
    FirstYear = 1959
    LastYear = 2028
    Cases <- MCCases
    MaxDays = 2
INVARIANTS
    TypeOK
    NeverTooOld
    LateOnlyOnBirthday
PROPERTIES
    BandsNeverFall
CHECK_DEADLOCK FALSE
