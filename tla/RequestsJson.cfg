\* Are record sets JSON, with results of plain cells?
CONSTANTS
    Results <- MCPlainResults
    Keep = 1
    Life = 3
    MaxTime = 5
SPECIFICATION Spec
INVARIANTS RecordsetIsJson
