---------------------------- MODULE WorkingHours ----------------------------
(***************************************************************************)
(* The operator's sending window: a span of local minutes on some local    *)
(* days.  Instants are finer than minutes (Grain of them make one), and    *)
(* the local clock may be put forward or back once.                        *)
(***************************************************************************)
EXTENDS Integers, FiniteSets

CONSTANTS DayLength,  \* minutes of a day
          WeekDays,   \* days of a week
          Grain,      \* instants of a minute
          Calendars   \* the settings in question

ASSUME HoursAssumption == {DayLength, WeekDays, Grain} \subseteq Nat \ {0}

VARIABLES now,   \* the instant
          hours  \* the settings

WeekLength == DayLength * WeekDays
NoOpening == -1

\* Settings: days, start, end, and the change of clock: at which minute since the
\* beginning, and by how much.
Settings == [days: SUBSET (0..(WeekDays - 1)), start: 0..DayLength, end: 0..DayLength,
             changeAt: Nat, change: Int]

ASSUME CalendarAssumption == Calendars \subseteq Settings

LocalMinute(t, h) ==
    LET minute == t \div Grain
    IN (minute + (IF minute >= h.changeAt THEN h.change ELSE 0)) % WeekLength

\* localWorkingPosition.
LocalPosition(t, h) ==
    [day |-> LocalMinute(t, h) \div DayLength, minute |-> LocalMinute(t, h) % DayLength]

IsWithinWorkingHours(t, h) ==
    LET here == LocalPosition(t, h)
    IN here.day \in h.days /\ here.minute >= h.start /\ here.minute < h.end

\* A week plus a day; what is jumped to lies within a day.
SearchHorizon == Grain * (WeekLength + DayLength)
SearchSteps == 20

JumpMinutes(here, h) ==
    IF here.day \in h.days /\ here.minute < h.start
    THEN h.start - here.minute
    ELSE DayLength - here.minute

\* Mutant: a change of clock within the jump goes unnoticed.
SearchStepBlind(cursor, horizon, h) ==
    LET candidate == cursor + Grain * JumpMinutes(LocalPosition(cursor, h), h)
    IN IF IsWithinWorkingHours(candidate, h)
       THEN [at |-> IF candidate > horizon THEN NoOpening ELSE candidate, done |-> TRUE]
       ELSE [at |-> candidate, done |-> FALSE]

\* One jump: to the opening or to midnight; if the clock changed on the way, the
\* interval is scanned by the minute.
SearchStep(cursor, horizon, h) ==
    LET here == LocalPosition(cursor, h)
        jump == JumpMinutes(here, h)
        candidate == cursor + Grain * jump
        changed == LocalMinute(candidate, h)
                       # (here.day * DayLength + here.minute + jump) % WeekLength
        scanned == {cursor + Grain * i : i \in 1..jump}
        open == {t \in scanned : t <= horizon /\ IsWithinWorkingHours(t, h)}
    IN CASE changed /\ open # {} ->
              [at |-> CHOOSE t \in open : \A u \in open : t <= u, done |-> TRUE]
         [] ~(changed /\ open # {}) /\ IsWithinWorkingHours(candidate, h) ->
              [at |-> IF candidate > horizon THEN NoOpening ELSE candidate, done |-> TRUE]
         [] OTHER -> [at |-> candidate, done |-> FALSE]

NextWorkingInstant(t, h) ==
    LET horizon == t + SearchHorizon
        search[n \in 0..SearchSteps] ==
            IF n = 0 THEN [at |-> t, done |-> FALSE]
            ELSE LET sofar == search[n - 1]
                 IN CASE sofar.done -> sofar
                      [] ~sofar.done /\ sofar.at > horizon -> [at |-> NoOpening, done |-> TRUE]
                      [] OTHER -> SearchStep(sofar.at, horizon, h)
    IN CASE h.days = {} \/ h.start >= h.end -> NoOpening
         [] IsWithinWorkingHours(t, h) -> t
         [] OTHER -> IF search[SearchSteps].done THEN search[SearchSteps].at ELSE NoOpening

\* The search by jumps answers like a search instant by instant, over a change of
\* the clock that skips or repeats an opening: what it returns is open, at most
\* the fraction of a minute it carries along is open before, and it returns nothing
\* only where nothing opens.
SearchIsExactFrom(t, h) ==
    LET found == NextWorkingInstant(t, h)
        Closed(last) == \A u \in t..last : ~IsWithinWorkingHours(u, h)
    IN IF found = NoOpening THEN Closed(t + SearchHorizon)
       ELSE /\ found \in t..(t + SearchHorizon)
            /\ IsWithinWorkingHours(found, h) /\ Closed(found - Grain)

\* So it does from this instant, with these settings.
SearchIsExact == SearchIsExactFrom(now, hours)

=============================================================================
