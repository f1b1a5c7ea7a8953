SPECIFICATION Spec
CONSTANTS
    NULL = NULL
    t1 = t1  t2 = t2  t3 = t3  s1 = s1  s2 = s2  s3 = s3  x = x
    Tests = {t1, t2, t3}
    Suites = {s1, s2, s3}
    Suffixes = {x}
    Matching <- MCMatching
    MatchingSuites = {s1, s2}
    Flags <- MCFlags
    Calls <- Shuffled
    Blocks <- ShuffledBlocks
    Seeds = {0, 1, 536870911}
    MaxCalls = 3
    MaxAssertions = 1
INVARIANTS ShuffleOnce
PROPERTIES ShuffleComplete Descends Terminates
