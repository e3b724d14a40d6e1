CONSTANTS
    Checks = {c1, c2}
    MaxKills <- MCMaxKills
    MaxLogs <- MCMaxLogs
    MaxAddrs <- MCMaxAddrs
    RMSendsRelease = FALSE
    DBMayFail = TRUE
    NotebookAddrFails = FALSE
SPECIFICATION Spec
INVARIANTS
    ExitedOnce
CHECK_DEADLOCK FALSE
