SPECIFICATION FairSpec
CONSTANTS
    Devices = {d1, d2}
    Info = info
    Relock = 2
    Retry = 1
    Period = 3
    SyncDelay = 1
    MaxLate = 1
    Faults = {"reconnect", "loss", "delete"}
INVARIANTS TypeOK TimerCoversQueue OpenDoorHasTask TasksCallable
PROPERTIES NotRelockedEarly DoorRelocks InfoKeepsRunning ImplementsQueue
