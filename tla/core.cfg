SPECIFICATION Spec
CONSTANTS
    MaxId = 3
    CHECK_DELETE_COUNT = 2
    TIMEOUT_FOR_RELEASE = 1
    HTTP = TRUE
    Faults <- NotStarted
    task_min_running = 2
    task_add_once = 2
    flood_begin = TRUE
INVARIANTS
    TypeOK
    IInv
    RetiredOnce
    FreedAfterLibuv
    ForgottenIsOpen
    DueNotBlocked
PROPERTIES
    RefinesRegistry
    TasksRunDown
VIEW AllButAsserts
