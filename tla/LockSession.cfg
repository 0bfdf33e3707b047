SPECIFICATION FairSpec
CONSTANTS
    Batteries = {20, 80}
    MaxTime = 2
    MaxMessages = 2
    Faults = {"loss", "refuse", "restart"}
INVARIANTS TypeOK SeedAgrees NeverDividesByZero SessionFollows
PROPERTIES SeedConfirmed
