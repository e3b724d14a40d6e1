CONSTANTS
    Checks = {c1, c2}
    MaxKills <- MCMaxKills
    MaxLogs <- MCMaxLogs
    MaxAddrs <- MCMaxAddrs
    RMSendsRelease = FALSE
    DBMayFail = TRUE
    NotebookAddrFails = FALSE
SPECIFICATION Spec
PROPERTIES
    NoZombieStart
CHECK_DEADLOCK FALSE
