SPECIFICATION Spec
CONSTANTS
    Workers = {w1}
    Ingesters = {i1}
    Mortal = {}
    Records = {r1}
    Nobody = Nobody
    LastStep = 1
    HoldNonTerminal = TRUE
    AutomaticFollowUps = {TRUE}
PROPERTIES StaleInvocationsSendNothing
CHECK_DEADLOCK FALSE
