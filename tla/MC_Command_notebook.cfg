CONSTANTS
    Checks = {c1, c2}
    MaxKills <- MCMaxKills
    MaxLogs <- MCMaxLogs
    MaxAddrs <- MCMaxAddrs
    RMSendsRelease = FALSE
    DBMayFail = TRUE
    NotebookAddrFails = TRUE
SPECIFICATION Spec
PROPERTIES
    KillLeadsToExit
CHECK_DEADLOCK FALSE
