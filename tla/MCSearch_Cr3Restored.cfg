CONSTANTS
    PageSize = 4
    NumPages = 2
    MaximumSearchResults = 2
    Bytes = {0, 1}
    Caller = Caller
    Other = Other
    NoProc = NoProc
    Procs <- MCProcs
    MemImages <- MCMemImages
    PageMaps = {{1}, {2}, {1, 2}}
    PatternChunks <- MCPatternChunks
    MaxChunks = 2
    Addresses = {4, 5}
    Lengths = {3, 8}
SPECIFICATION Spec
INVARIANT Cr3Restored
CHECK_DEADLOCK FALSE
