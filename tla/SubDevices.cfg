SPECIFICATION Spec
CONSTANTS
    Names = {n1, n2, n3}
    NoName = none
    MaxSub = 2
    MaxHandle = 3
    Faults = {"fail", "cloud", "crash"}
INVARIANTS TypeOK UniqueNames HandlesOwned LoginsKnown
PROPERTIES RightDeviceLeaves
