SPECIFICATION MailSpec
CONSTANTS
    Messages = {m1}
    Passes = {p1, p2}
    DayLength = 4
    WeekDays = 3
    Grain = 1
    Calendars <- MCLaneCalendars
    Recheck = 3
    AutoWithin = 1
    MailboxDelay = 1
    ContactDelay = 4
    SendLimit = 1
    PassTime = 1
    MaxClicks = 2
    MaxActivity = 1
    Horizon = 7
    Mail = {a1, a2}
    AnchorSkew = 1
    Lag = 1
    DayLen = 2
    ServerAhead = 1
    Connected = 3
    LastMinute = 4
    LastEpoch = 2
    Grants = {g1, g2, g3}
    Writes = {w1, w2, w3}
    Requests = {r1, r2}
    Callbacks = {c1, c2}
    Subs = {s1, s2}
    ClientStates = {k1, k2}
    Life = 2
    Letters = {l1, l2}
    Drains = {d1}
    GraphSkew = 1
    ShownWithin = 1
    LastTick = 2
INVARIANTS EveryClickEndsOnce NothingIsOutOfReach OpenGateIsInformed OneSubscription NoLetterIsLost
PROPERTIES PromisesAreKept LateAnswersAreHarmless
CHECK_DEADLOCK FALSE
