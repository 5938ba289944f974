\* Two workers, one writable and two read-only connections, recycled as often as can be.
CONSTANTS
    Threads = {t1, t2}
    NoThread = nothread
    NoConn = noconn
    Writers = {0}
    Readers = {1, 2}
    Weight <- MCWeight
    MaxUse = 1
SPECIFICATION FairSpec
INVARIANTS TypeOK LeasedOnce FreeIsClean
PROPERTIES LendingSpec MutexGivenBack
