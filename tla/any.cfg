SPECIFICATION Spec
CONSTANTS
    NULL = NULL
    t1 = t1  t2 = t2  t3 = t3  s1 = s1  s2 = s2  s3 = s3  x = x
    Tests = {t1, t2}
    Suites = {s1}
    Suffixes = {x}
    Matching <- MCMatching
    MatchingSuites = {s1}
    Flags <- MCFlags
    Calls <- AnyCall
    Blocks <- AnyBlocks
    Seeds = {1}
    MaxCalls = 3
    MaxAssertions = 1
INVARIANTS TypeOK OneTest IInv
PROPERTIES NoStaleJump ImplementsTally
