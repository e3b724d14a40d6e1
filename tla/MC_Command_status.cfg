CONSTANTS
    Checks = {c1, c2}
    MaxKills <- MCMaxKills
    MaxLogs <- MCMaxLogs
    MaxAddrs <- MCMaxAddrs
    RMSendsRelease = FALSE
    DBMayFail = FALSE
    NotebookAddrFails = FALSE
SPECIFICATION Spec
PROPERTIES
    StatusRefined
CHECK_DEADLOCK FALSE
