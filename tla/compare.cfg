SPECIFICATION CompareSpec
CONSTANTS
    RowLen = 2
    Byte = {0, 1, 2}
    AssertCalls <- MCAssertCalls
INVARIANTS CompareTypeOK VerdictExact DumpsExact InRangeExact
