SPECIFICATION PersonSpec
CONSTANTS
    c1 = c1
    c2 = c2
    e1 = e1
    e2 = e2
    e3 = e3
    People = {c1, c2}
    Sequences = {e1, e2, e3}
    Owner <- OwnerDef
    LastForm = 2
    MinimumPeople = 1
    FailureShare = 60
    MaxRungs = 2
    DailyCap = 1
    LastEra = 2
PROPERTIES OnlyTheAddressInUse
CHECK_DEADLOCK FALSE
