\* Every conf.json with up to three databases of up to two connections each, and those
\* with a value that is out of range or does not fit an int32_t (of 4 bits here).
CONSTANTS
    MaxServers = 3
    MaxConnection = 2
    MaxWeight = 3
    Numbers = {0, 1, 2, 3, 4, 17}
    Width = 16
SPECIFICATION Spec
INVARIANTS TypeOK AllOrNothing RoundIsFair CreditBounded
\* Either step may fail, and nothing is drawn then.
CHECK_DEADLOCK FALSE
