CONSTANTS
    Checks = {c1, c2}
    MaxKills = 0
    MaxLogs <- MCMaxLogs
    MaxAddrs <- MCMaxAddrs
    RMSendsRelease = TRUE
    DBMayFail = TRUE
    NotebookAddrFails = FALSE
SPECIFICATION Spec
PROPERTIES
    StatusRefined
CHECK_DEADLOCK FALSE
