SPECIFICATION FairMaintenanceSpec
CONSTANTS
    Cycles = {y1, y2}
    Commands = {c1}
    Generations = {c1}
    MaxAttempts = 2
    Limit = 1
    MaxRequeues = 1
    MaxDeaths = 1
INVARIANTS AttemptsInBudget LeaseGuardsWork
PROPERTIES OutcomesAreFinal CommandsAreSettled
CHECK_DEADLOCK FALSE
