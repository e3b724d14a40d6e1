\* A grant of two allocations: the task starts two GC containers.
CONSTANTS
    MaxAllocs = 2
    MaxGCLogs <- MCMaxGCLogs
    RMSendsRelease = FALSE
    DBMayFail = FALSE
    DeleteMayFail = FALSE
SPECIFICATION Spec
INVARIANTS StopsAfterJob
CHECK_DEADLOCK FALSE
