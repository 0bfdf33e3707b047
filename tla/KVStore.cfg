SPECIFICATION Spec
CONSTANTS
    Keys = {k1, k2}
    Values = {1, 3}
    Rooms = {4, 5}
    Threads = {t1, t2}
    Nobody = nobody
    Faults = {"crash", "full"}
INVARIANTS TypeOK DoneIsDurable
PROPERTIES FileStaysWhole ReadsAPromise LockGivenBack ImplementsMap
