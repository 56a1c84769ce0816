CONSTANTS
    o1 = o1
    r1 = r1
    t1 = t1
    t2 = t2
    Operators <- MCOperators
    Recoverers <- MCRecoverers
    Callers <- MCCallers
    Tokens <- MCTokens
    NoToken = NoToken
    Nobody = Nobody
    Provider = "microsoft_graph"
    Crashing <- MCOperators
    Disturbances = {"slowOwner", "permission", "mailbox"}
SPECIFICATION FairSpec
INVARIANTS
    AtMostOnce
    SubmissionIsRemembered
    DecisionHoldsAtSubmission
PROPERTIES
    SentIsFinal
    ClaimsAreResolved
CHECK_DEADLOCK FALSE
