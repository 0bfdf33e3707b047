SPECIFICATION Spec
CONSTANTS
    Names = {n1, n2}
    NoName = none
    MaxSub = 2
    MaxHandle = 1
    Faults = {"fail", "cloud", "crash", "clash"}
PROPERTIES ImplementsMap RestartKeepsDevices
