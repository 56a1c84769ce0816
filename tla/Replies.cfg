SPECIFICATION Spec
CONSTANTS
    Workers = {}
    Ingesters = {i1, i2}
    Mortal = {i1, i2}
    Records = {r1, r2}
    Nobody = Nobody
    LastStep = 1
    HoldNonTerminal = TRUE
    AutomaticFollowUps = {FALSE}
SYMMETRY Symmetry
INVARIANTS HoldsAreCounted NoScheduleForSentStep
PROPERTIES NoSubmitWhileReplyPending KeepsInStep
CHECK_DEADLOCK FALSE
