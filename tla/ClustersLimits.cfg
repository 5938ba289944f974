\* Two databases with limits of their own: is each of them kept?
CONSTANTS
    MaxServers = 2
    MaxConnection = 3
    MaxWeight = 1
    Numbers = {1, 3}
    Width = 16
SPECIFICATION Spec
INVARIANTS OwnLimits
CHECK_DEADLOCK FALSE
