SPECIFICATION Spec
CONSTANTS
    Workers = {w1}
    Ingesters = {}
    Mortal = {}
    Records = {}
    Nobody = Nobody
    LastStep = 1
    HoldNonTerminal = TRUE
    AutomaticFollowUps = {TRUE}
PROPERTIES TerminalIsFinal
CHECK_DEADLOCK FALSE
