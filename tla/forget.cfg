SPECIFICATION Spec
CONSTANTS
    MaxId = 3
    CHECK_DELETE_COUNT = 1
    TIMEOUT_FOR_RELEASE = 0
    HTTP = TRUE
    Faults <- NotSent
    task_min_running = 1
    task_add_once = 2
    flood_begin = FALSE
INVARIANTS
    ForgetInv
    NoTaskForgotten
    TaskBound
    CleanExit
