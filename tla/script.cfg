SPECIFICATION FairSpec
CONSTANTS
    MaxId = 4
    CHECK_DELETE_COUNT = 1
    TIMEOUT_FOR_RELEASE = 0
    HTTP = FALSE
    Faults <- NoFault
    task_min_running = 3
    task_add_once = 2
    flood_begin = FALSE
INVARIANTS
    FreedAfterLibuv
PROPERTIES
    StopCompletes
