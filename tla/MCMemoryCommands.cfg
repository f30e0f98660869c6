CONSTANTS
    PageSize = 4
    NumPages = 2
    Current = Current
    Other = Other
    Procs <- MCProcs
    Bytes = {0, 1, 2}
    TrapByte = 2
    Unbacked = 0
    MemImages <- MCMemImages
    PageMaps = {{1}, {1, 2}}
    BpTables <- MCBpTablesMixed
    KernelStart = 8
    ReadAddresses = {0, 5}
    ReadSizes = {3}
    EditAddresses = {6}
    PayloadBytes = {1}
    MaxChunks = 1
    EditEnum <- MCEditEnum
SPECIFICATION Spec
INVARIANT TypeOK
INVARIANT ReadUnshadowed
PROPERTY EditStaysInRange
