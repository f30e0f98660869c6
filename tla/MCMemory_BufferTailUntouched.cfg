CONSTANTS
    PageSize = 4
    NumPages = 2
    Current = Current
    Other = Other
    Procs <- MCProcs
    Bytes = {0, 1, 2}
    TrapByte = 2
    Unbacked = 0
    MemImages <- MCMemImages
    PageMaps = {{1}, {1, 2}}
    BpTables <- MCBpTables
    KernelStart = 8
    ReadAddresses = {0, 4, 5}
    ReadSizes = {0, 3, 5}
    EditAddresses = {}
    PayloadBytes = {1}
    MaxChunks = 2
    EditEnum <- MCEditEnum
SPECIFICATION Spec
INVARIANT BufferTailUntouched
