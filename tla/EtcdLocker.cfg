SPECIFICATION FairSpec
CONSTANTS
    Nodes = {"s1", "s2"}
    Keys = {"a"}
    maxContendTime = 2
    lockFailCountLimit = 1
    MaxFaults = 2
INVARIANTS
    TypeOK
    OneHolder
    RingFollowsHolders
PROPERTIES
    DisplacedUnregisters
CHECK_DEADLOCK FALSE
