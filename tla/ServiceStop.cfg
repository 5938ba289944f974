\* No failures: does SE_stop return?
CONSTANTS
    Conns = {c1}
    Wake = wake
    None = none
    Pool = 2
    QueueMax = 3
    Failures = FALSE
SPECIFICATION FairSpec
PROPERTIES StopCompletes
CHECK_DEADLOCK FALSE
