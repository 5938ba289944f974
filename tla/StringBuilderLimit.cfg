\* Does the process end only when a string is larger than MaxAllocSize?
CONSTANTS
    MaxAlloc = 15
    IntMax = 31
    MinLen = 4
    Least = 2
    More = 4
    MaxText = 15
SPECIFICATION Spec
INVARIANTS ExitsOnlyPastMaxAlloc
CHECK_DEADLOCK FALSE
