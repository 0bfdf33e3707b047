SPECIFICATION Spec
CONSTANTS
    Codes = {123456}
    MaxKey = 2
    FdLimit = 0
    MaxCmds = 1
    MaxReports = 2
    MaxCrash = 1
    Faults = {"loss", "crash", "repeat", "clear", "refuse"}
INVARIANTS TypeOK HeldWasStored RestartKeepsKeys CloudKeysAreHeld KeysOfLockKnown
PROPERTY ForgottenOnReport
