CONSTANTS
    Checks = {c1, c2}
    MaxKills <- MCMaxKills
    MaxLogs <- MCMaxLogs
    MaxAddrs <- MCMaxAddrs
    RMSendsRelease = TRUE
    DBMayFail = TRUE
    NotebookAddrFails = FALSE
SPECIFICATION Spec
INVARIANTS
    IInv
    
CHECK_DEADLOCK FALSE
