CONSTANTS
    Instances = {i1, i2}
    Sessions = {s1}
    Clients = {c1, c2}
    CN = 2
    Conc <- OneThread
    MaxElems = 2
    MaxRecs = 2
    MaxAllocs = 2
    MaxEvents = 3
    MaxAcquires = 3
    None = None
SPECIFICATION Spec
INVARIANTS ThreadsConserved AvailTotalExact CancelTokenPresent
PROPERTY BindingKept
CHECK_DEADLOCK FALSE
SYMMETRY Symmetry
