\* A buffer of 4 to 15 bytes, integers up to 31, every text of up to 15 bytes.
CONSTANTS
    MaxAlloc = 15
    IntMax = 31
    MinLen = 4
    Least = 2
    More = 4
    MaxText = 15
SPECIFICATION FairSpec
INVARIANTS TypeOK InBounds NoOverflow
PROPERTIES CallEnds
\* A builder that found no room has ended the process.
CHECK_DEADLOCK FALSE
