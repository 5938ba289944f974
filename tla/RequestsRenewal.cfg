\* Is a token that is used refused only when it is too old?
CONSTANTS
    Results <- MCResults
    Keep = 1
    Life = 3
    MaxTime = 5
SPECIFICATION Spec
INVARIANTS RefusedOnlyWhenLate
