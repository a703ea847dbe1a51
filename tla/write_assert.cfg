SPECIFICATION Spec
CONSTANTS
    MaxId = 1
    CHECK_DELETE_COUNT = 1
    TIMEOUT_FOR_RELEASE = 0
    HTTP = TRUE
    Faults <- NoFault
    task_min_running = 1
    task_add_once = 1
    flood_begin = FALSE
    task_count = 1
INVARIANTS
    WriteAssertHolds
