SPECIFICATION Spec
CONSTANTS
    MaxLen = 2
    MaxWait = 2
    Capacity = 1
PROPERTY ErrorIsKept
