SPECIFICATION Spec
CONSTANTS
    NULL = NULL
    Char <- MCChar
    NameBufSize = 5
    Arguments <- MCArguments
    Filters <- MCFilters
    Levels <- MCLevels
    ByteRange = 4
    MaxCalls = 1
    TestNames <- MCTestNames
    TestSuffixes <- MCTestSuffixes
INVARIANTS OptionsTypeOK SelectionAsAsked UnfilteredRunsAll
PROPERTIES SettingsAsAsked 
