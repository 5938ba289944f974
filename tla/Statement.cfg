\* Two parameters, each of thirty-odd values, and a cell of a hundred; a uuid has four
\* bytes, a digit of NUMERIC two decimals, a second four fractions. An int32_t has 18
\* bits, and holds the seconds of 36 hours.
CONSTANTS
    Count = 2
    Calls <- MCCalls
    UuidLen = 4
    UuidText = 5
    DateMax = 2
    DecDigits = 2
    UsecsPerSec = 4
    DayDiff = 4
    SecDiff = 345600
    DaySeconds = 24
    IntMax = 131071
    Infinity = 2000000000
    Results <- MCResults
    Zones <- MCZones
SPECIFICATION StatementSpec
INVARIANTS TypeOK StaysInBlock SentIsGiven NothingFreedIsSent NothingLeft CellIsShown NumericInBlock
