\* One worker and one client, five ticks; a token lasts one tick and three at most.
CONSTANTS
    Results <- MCResults
    Keep = 1
    Life = 3
    MaxTime = 5
SPECIFICATION Spec
INVARIANTS TypeOK PlainAnswerIsJson NothingUncommittedIsTold StatusTellsOutcome AcceptedInTime
PROPERTIES LendingSpec
