SPECIFICATION Spec
CONSTANTS
    Size = 4
    Mss = 2
    NSeg = 2
    MaxShut = 1
    MaxRecords <- MCMaxRecords
    Length <- MCLength
INVARIANTS StreamIntact WrittenIsKept LaterReadIsComplete NothingIsStuck
CHECK_DEADLOCK FALSE
