SPECIFICATION FairSpec
CONSTANTS
    Devices = {d1}
    Info = info
    Relock = 2
    Retry = 1
    Period = 3
    SyncDelay = 1
    MaxLate = 1
    Faults = {"reconnect"}
PROPERTY ReconnectLists
