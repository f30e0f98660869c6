CONSTANTS
    ProcessorsCount = 3
    MsrIds = {0, 1}
    Values = {0, 1}
    AllCores = AllCores
    CoreNumbers = {1, 3}
SPECIFICATION Spec
INVARIANT TypeOK
INVARIANT MsrReadReturnsCoreValues
INVARIANT MsrWriteApplied
PROPERTY RequestCompletes
PROPERTY MsrImplementsAbstract
