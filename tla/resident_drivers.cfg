SPECIFICATION FairSpec
CONSTANTS
    Callers = {c1, c2}
    Configs <- Settings
    Scan <- RecordsOnPath
    BufLen = 10
INVARIANTS
    TypeOK
    OneIndex
    OkVisitsEveryRecord
    ScanErrorsAgree
    ThresholdsDecide
PROPERTIES
    EveryCallReturns
