CONSTANTS
    PageSize = 4
    NumPages = 2
    Current = Current
    Other = Other
    Procs <- MCProcs
    Bytes = {0, 1, 2}
    TrapByte = 2
    Unbacked = 0
    MemImages <- MCMemImages
    PageMaps = {{1}, {1, 2}}
    BpTables <- MCBpTablesEdit
    KernelStart = 8
    ReadAddresses = {}
    ReadSizes = {0, 3, 5}
    EditAddresses = {6}
    PayloadBytes = {1}
    MaxChunks = 2
    EditEnum <- MCEditEnum
SPECIFICATION Spec
INVARIANT EditSuccessWritten
