CONSTANTS
    o1 = o1
    r1 = r1
    t1 = t1
    t2 = t2
    Operators <- MCOperators
    Recoverers <- MCRecoverers
    Callers <- MCCallers
    Tokens <- MCTokens
    NoToken = NoToken
    Nobody = Nobody
    Provider = "smtp_imap"
    Crashing <- MCCallers
    Disturbances = {}
SYMMETRY TokenSymmetry
SPECIFICATION Spec
PROPERTY SentIsFinal
CHECK_DEADLOCK FALSE
