SPECIFICATION RecoveringSpec
CONSTANTS
    Workers = {}
    Ingesters = {i1, i2}
    Mortal = {i1}
    Records = {r1}
    Nobody = Nobody
    LastStep = 1
    HoldNonTerminal = TRUE
    AutomaticFollowUps = {FALSE}
PROPERTIES HoldsAreReleased
CHECK_DEADLOCK FALSE
