\* One allocation per grant, as the single-agent request of the GC task
\* gets; every failure of the DB except the session deletion.
CONSTANTS
    MaxAllocs = 1
    MaxGCLogs <- MCMaxGCLogs
    RMSendsRelease = TRUE
    DBMayFail = TRUE
    DeleteMayFail = FALSE
SPECIFICATION Spec
INVARIANTS TypeOK SessionLifecycle StopsAfterJob 
PROPERTIES StartedLeadsToStop GCRefined
\* The actor stops for good: a final state is not a deadlock.
CHECK_DEADLOCK FALSE
