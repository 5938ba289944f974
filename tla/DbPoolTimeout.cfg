\* Connections are recycled: do statements still end?
CONSTANTS
    Threads = {t1}
    NoThread = nothread
    NoConn = noconn
    Writers = {0}
    Readers = {1, 2}
    Weight <- MCWeight
    MaxUse = 1
SPECIFICATION FairSpec
PROPERTIES StatementEnds
