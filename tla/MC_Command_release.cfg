CONSTANTS
    Checks = {c1, c2}
    MaxKills <- MCMaxKills
    MaxLogs <- MCMaxLogs
    MaxAddrs <- MCMaxAddrs
    RMSendsRelease = TRUE
    DBMayFail = TRUE
    NotebookAddrFails = FALSE
SPECIFICATION Spec
PROPERTIES
    ReleaseRequestHonoured
CHECK_DEADLOCK FALSE
