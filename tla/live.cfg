SPECIFICATION FairSpec
CONSTANTS
    MaxId = 3
    CHECK_DELETE_COUNT = 1
    TIMEOUT_FOR_RELEASE = 0
    HTTP = TRUE
    Faults <- NameFails
    task_min_running = 1
    task_add_once = 2
    flood_begin = FALSE
PROPERTIES
    RetiredIsFreed
    PostedIsRetired
    TasksAreAdded
    StopCompletes
