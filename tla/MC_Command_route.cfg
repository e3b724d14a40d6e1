\* No user kills, so that the counterexample is the plain exit of a running
\* container, not the stale-allocation path of MC_Command_zombie.cfg.
CONSTANTS
    Checks = {c1, c2}
    MaxKills = 0
    MaxLogs = 0
    MaxAddrs = 1
    RMSendsRelease = FALSE
    DBMayFail = FALSE
    NotebookAddrFails = FALSE
SPECIFICATION Spec
INVARIANTS
    RouteGoneBeforeReclaim
CHECK_DEADLOCK FALSE
