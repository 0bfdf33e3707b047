SPECIFICATION Spec
CONSTANTS
    MaxLen = 4
    MaxWait = 3
    Capacity = 3
INVARIANTS TypeOK InOrder ReadInTime
PROPERTIES BytesCounted EndIsKept ReadReturns
