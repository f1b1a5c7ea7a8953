SPECIFICATION ConsoleSpec
CONSTANTS
    NULL = NULL
    t1 = t1  t2 = t2  s1 = s1  s2 = s2
    Tests = {t1, t2}
    Suites = {s1, s2}
    Suffixes = {}
    Matching <- MCMatching
    MatchingSuites = {s1}
    Flags <- MCFlags
    Calls <- MCCalls
    Blocks <- MCBlocks
    Seeds = {826366246}
    MaxCalls = 3
    MaxAssertions = 1
    ClockRange = 3
    Clocks <- MCClocks
    MaxTicks = 2
    Width = 3
INVARIANTS ConsoleTypeOK IntervalsExact TotalCoversSuites LinesFit WordsStartLines
PROPERTY RecordedOrder
