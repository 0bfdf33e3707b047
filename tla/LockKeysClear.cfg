SPECIFICATION Spec
CONSTANTS
    Codes = {123456}
    MaxKey = 2
    FdLimit = 0
    MaxCmds = 2
    MaxReports = 2
    MaxCrash = 0
    Faults = {"clear"}
INVARIANT QuietAgreement

