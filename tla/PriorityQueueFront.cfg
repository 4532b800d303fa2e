CONSTANTS
    MaxLen = 8
    MaxPriority = 2
SPECIFICATION Spec
INVARIANT FrontIsMax
