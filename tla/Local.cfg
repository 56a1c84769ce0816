SPECIFICATION LocalSpec
CONSTANTS
    Requests = {r1, r2, r3}
    LastAttempt = 3
    Calls = {c1, c2, c3}
    MaxConcurrency = 1
    TimeoutMs = 2
    TerminationGrace = 1
    EndOfTime = 3
    Callers = {q1, q2}
    Budget = 6
    Quiet = 1
    LongestPause = 2
    LastTime = 8
    c1 = p1
    c2 = p2
    e1 = e1
    e2 = e2
    e3 = e3
    People = {p1, p2}
    Sequences = {e1, e2, e3}
    Owner <- OwnerDef
    LastForm = 2
    MinimumPeople = 1
    FailureShare = 60
    MaxRungs = 2
    DailyCap = 1
    LastEra = 2
    send = send
    save = save
    round = round
    again = again
    Holders = {send, save, round, again}
    Sessions = {s1, s2}
    Outer <- OuterDef
    Inner <- InnerDef
    Outside = {send}
    LastKey = 3
    MaxLosses = 2
    DayLength = 4
    WeekDays = 3
    Grain = 2
    Calendars <- MCCalendars
INVARIANTS OneRunAtATime SuccessIsTheRuns NothingIsOrphaned
    SlotsAreConserved ForcedEndsLeaveNobody AnswersAreOwnAndWhole
    TheDeadStayDead OneDeathOneAddress LeaversAreLeftAlone SectionsExclude NobodyIsStuck SearchIsExact
PROPERTIES InterruptEndsStack VerdictsStand
CHECK_DEADLOCK FALSE
