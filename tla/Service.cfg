\* Three clients on a ring of three slots (two usable) and two workers: the ring
\* wraps, fills up and makes the listener retry. Every failure is possible; the
\* threads are scheduled fairly.
CONSTANTS
    Conns = {c1, c2, c3}
    Wake = wake
    None = none
    Pool = 2
    QueueMax = 3
    Failures = TRUE
SPECIFICATION FairSpec
INVARIANTS TypeOK SoleOwner NoneLost NoMissedSignal FreedAfterJoin
PROPERTIES QueueSpec QueuedServed QuietStop
\* The server stops for good after SE_stop, and after undefined behaviour.
CHECK_DEADLOCK FALSE
