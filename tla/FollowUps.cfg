SPECIFICATION Spec
CONSTANTS
    Workers = {w1, w2}
    Ingesters = {i1}
    Mortal = {i1, w1}
    Records = {r1}
    Nobody = Nobody
    LastStep = 1
    HoldNonTerminal = FALSE
    AutomaticFollowUps = {FALSE, TRUE}
PROPERTIES WorkerSendsNext NoSubmitAfterTerminalReply
CHECK_DEADLOCK FALSE
