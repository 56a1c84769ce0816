---------------------------- MODULE MailboxProofs -----------------------------
(* The mailbox between the sends, part by part: the lane of scheduled sends, *)
(* the rounds over an inbox, the tokens and the subscription of a Microsoft  *)
(* connection and the rounds over its mailbox, each under its own            *)
(* specification and for every value of its constants.                       *)
EXTENDS ScheduledSends, InboundRounds, GraphTokens, GraphSubscription, GraphInbound,
        FiniteSetTheorems, SequenceTheorems, TLAPS

-----------------------------------------------------------------------------
(* The calendar (WorkingHours). *)

LEMMA NaturalOrder == OpToRel(<, Nat) = {ss \in Nat \X Nat : ss[1] < ss[2]}
BY Zenon DEF OpToRel

LEMMA LeastExists ==
    ASSUME NEW T, T \subseteq Nat, T # {}
    PROVE  \E m \in T : \A n \in T : m <= n
<1>1. PICK m \in T : \A n \in T : ~(<<n, m>> \in OpToRel(<, Nat))
  BY NatLessThanWellFounded, WFMin
<1>2. \A n \in T : <<n, m>> \notin {ss \in Nat \X Nat : ss[1] < ss[2]}
  BY <1>1, NaturalOrder
<1>3. \A n \in T : ~(n < m)
  BY <1>2
<1> QED BY <1>3

LEMMA LocalClock ==
    ASSUME NEW h \in Settings, NEW t \in Nat
    PROVE  LocalPosition(t, h).day \in Nat /\ LocalPosition(t, h).minute \in 0..(DayLength - 1)
<1>1. DayLength \in Nat \ {0} /\ WeekDays \in Nat \ {0} /\ Grain \in Nat \ {0}
  BY HoursAssumption DEF HoursAssumption
<1>2. WeekLength \in Nat \ {0}
  BY <1>1 DEF WeekLength
<1>3. t \div Grain \in Nat
  BY <1>1
<1>4. h.changeAt \in Nat /\ h.change \in Int
  BY DEF Settings
<1>5. LocalMinute(t, h) \in Nat
  <2> DEFINE x == (t \div Grain) + (IF t \div Grain >= h.changeAt THEN h.change ELSE 0)
  <2>1. x \in Int
    BY <1>3, <1>4
  <2>2. LocalMinute(t, h) = x % WeekLength
    BY DEF LocalMinute
  <2> HIDE DEF x
  <2> QED BY <2>1, <2>2, <1>2
<1> HIDE DEF LocalMinute
<1>6. LocalMinute(t, h) \div DayLength \in Nat /\ LocalMinute(t, h) % DayLength \in 0..(DayLength - 1)
  BY <1>1, <1>5
<1> QED BY <1>6 DEF LocalPosition

\* A jump leads on.
LEMMA JumpsLeadOn ==
    ASSUME NEW h \in Settings, NEW t \in Nat
    PROVE  JumpMinutes(LocalPosition(t, h), h) \in Nat \ {0}
<1>1. LocalPosition(t, h).minute \in 0..(DayLength - 1) /\ DayLength \in Nat
  BY LocalClock, HoursAssumption DEF HoursAssumption
<1>2. h.start \in Nat
  BY DEF Settings
<1> QED BY <1>1, <1>2 DEF JumpMinutes

\* Where a search may be: still under way, or at an open instant, or given up.
Sound(s, t, h) ==
    /\ s.done => \/ s.at = NoOpening
                 \/ /\ s.at \in Nat /\ t <= s.at /\ s.at <= t + SearchHorizon
                    /\ IsWithinWorkingHours(s.at, h)
    /\ ~s.done => s.at \in Nat /\ t <= s.at

LEMMA SearchNumbers == Grain \in Nat \ {0} /\ SearchHorizon \in Nat
BY HoursAssumption DEF HoursAssumption, SearchHorizon, WeekLength

LEMMA StepIsSound ==
    ASSUME NEW h \in Settings, NEW t \in Nat, NEW cursor \in Nat, t <= cursor
    PROVE  Sound(SearchStep(cursor, t + SearchHorizon, h), t, h)
<1> DEFINE here == LocalPosition(cursor, h)
           jump == JumpMinutes(here, h)
           candidate == cursor + Grain * jump
           changed == LocalMinute(candidate, h)
                       # (here.day * DayLength + here.minute + jump) % WeekLength
           scanned == {cursor + Grain * i : i \in 1..jump}
           open == {u \in scanned : u <= t + SearchHorizon /\ IsWithinWorkingHours(u, h)}
           step == SearchStep(cursor, t + SearchHorizon, h)
<1>1. jump \in Nat \ {0} /\ Grain \in Nat \ {0} /\ SearchHorizon \in Nat
  BY JumpsLeadOn, SearchNumbers
<1>2. candidate \in Nat /\ cursor <= candidate
  <2> HIDE DEF jump
  <2>1. Grain * jump \in Nat
    BY <1>1
  <2> QED BY <2>1
<1>3. open \subseteq Nat /\ \A u \in open : t <= u
  <2> HIDE DEF jump
  <2>1. \A i \in 1..jump : Grain * i \in Nat
    BY <1>1
  <2> QED BY <2>1, <1>1
<1>4. CASE changed /\ open # {}
  <2> DEFINE least == CHOOSE u \in open : \A v \in open : u <= v
  <2>1. least \in open
    <3> HIDE DEF open
    <3> QED BY <1>3, <1>4, LeastExists
  <2>2. step = [at |-> least, done |-> TRUE]
    BY <1>4, Zenon DEF SearchStep
  <2>3. least \in Nat /\ t <= least /\ least <= t + SearchHorizon /\ IsWithinWorkingHours(least, h)
    <3> HIDE DEF least
    <3> QED BY <2>1, <1>3
  <2> HIDE DEF least, step
  <2>4. step.at = least /\ step.done
    BY <2>2
  <2> QED BY <2>3, <2>4 DEF Sound, step
<1>5. CASE ~(changed /\ open # {}) /\ IsWithinWorkingHours(candidate, h)
  <2>1. step = [at |-> IF candidate > t + SearchHorizon THEN NoOpening ELSE candidate, done |-> TRUE]
    BY <1>5, Zenon DEF SearchStep
  <2> HIDE DEF candidate, step
  <2>2. step.at = (IF candidate > t + SearchHorizon THEN NoOpening ELSE candidate) /\ step.done
    BY <2>1
  <2> QED BY <1>1, <1>2, <1>5, <2>2 DEF Sound, step
<1>6. CASE ~(changed /\ open # {}) /\ ~IsWithinWorkingHours(candidate, h)
  <2>1. step = [at |-> candidate, done |-> FALSE]
    BY <1>6, Zenon DEF SearchStep
  <2> HIDE DEF candidate, step
  <2>2. step.at = candidate /\ ~step.done
    BY <2>1
  <2> QED BY <1>2, <2>2 DEF Sound, step
<1> QED BY <1>4, <1>5, <1>6

\* What a search does next.
Goes(s, t, h) ==
    CASE s.done -> s
      [] ~s.done /\ s.at > t + SearchHorizon -> [at |-> NoOpening, done |-> TRUE]
      [] OTHER -> SearchStep(s.at, t + SearchHorizon, h)

LEMMA GoingIsSound ==
    ASSUME NEW h \in Settings, NEW t \in Nat, NEW s, Sound(s, t, h), s.done \in BOOLEAN
    PROVE  Sound(Goes(s, t, h), t, h)
<1>1. CASE s.done
  BY <1>1 DEF Goes
<1>2. CASE ~s.done /\ s.at > t + SearchHorizon
  <2>1. Goes(s, t, h) = [at |-> NoOpening, done |-> TRUE]
    BY <1>2 DEF Goes
  <2> QED BY <2>1 DEF Sound
<1>3. CASE ~s.done /\ ~(s.at > t + SearchHorizon)
  <2>1. Goes(s, t, h) = SearchStep(s.at, t + SearchHorizon, h)
    BY <1>3 DEF Goes
  <2>2. s.at \in Nat /\ t <= s.at
    BY <1>3 DEF Sound
  <2> QED BY <2>1, <2>2, StepIsSound
<1> QED BY <1>1, <1>2, <1>3

LEMMA GoingIsDecided ==
    ASSUME NEW h \in Settings, NEW t \in Nat, NEW s, s.done \in BOOLEAN
    PROVE  Goes(s, t, h).done \in BOOLEAN
<1>1. SearchStep(s.at, t + SearchHorizon, h).done \in BOOLEAN
  BY Zenon DEF SearchStep
<1> QED BY <1>1 DEF Goes

\* The search as a function of the steps taken, up to n of them.
Search(f, n, t, h) ==
    f = [k \in 0..n |-> IF k = 0 THEN [at |-> t, done |-> FALSE]
                         ELSE LET sofar == f[k - 1]
                              IN CASE sofar.done -> sofar
                                   [] ~sofar.done /\ sofar.at > t + SearchHorizon -> [at |-> NoOpening, done |-> TRUE]
                                   [] OTHER -> SearchStep(sofar.at, t + SearchHorizon, h)]

LEMMA SearchGoesOn ==
    ASSUME NEW f, NEW n \in Nat, NEW t, NEW h, Search(f, n, t, h)
    PROVE  /\ f[0] = [at |-> t, done |-> FALSE]
           /\ \A k \in 1..n : f[k] = Goes(f[k - 1], t, h)
<1>1. f[0] = [at |-> t, done |-> FALSE]
  BY DEF Search
<1>2. ASSUME NEW k \in 1..n PROVE f[k] = Goes(f[k - 1], t, h)
  <2>1. k \in 0..n /\ k # 0
    OBVIOUS
  <2> QED BY <2>1, Zenon DEF Search, Goes
<1> QED BY <1>1, <1>2

\* Such a function exists: the least number of steps without one would have one.
LEMMA SearchExists == ASSUME NEW n \in Nat, NEW t, NEW h PROVE \E f : Search(f, n, t, h)
<1> DEFINE T == {k \in Nat : ~\E f : Search(f, k, t, h)}
           Next(f, k) == IF k = 0 THEN [at |-> t, done |-> FALSE] ELSE Goes(f[k - 1], t, h)
<1>1. ASSUME NEW f, NEW k \in Nat
      PROVE  Search(f, k, t, h) <=> f = [i \in 0..k |-> Next(f, i)]
  BY Zenon DEF Search, Goes
<1>2. SUFFICES ASSUME T # {} PROVE FALSE
  OBVIOUS
<1>3. PICK k \in T : \A i \in T : k <= i
  <2>1. T \subseteq Nat
    OBVIOUS
  <2> HIDE DEF T
  <2> QED BY <1>2, <2>1, LeastExists
<1> HIDE DEF Next
<1>4. CASE k = 0
  <2> DEFINE g == [i \in 0..0 |-> [at |-> t, done |-> FALSE]]
  <2>1. \A i \in 0..0 : Next(g, i) = [at |-> t, done |-> FALSE]
    BY DEF Next
  <2>2. g = [i \in 0..0 |-> Next(g, i)]
    BY <2>1
  <2>3. Search(g, 0, t, h)
    BY <1>1, <2>2
  <2> QED BY <1>4, <2>3
<1>5. CASE k # 0
  <2>1. k - 1 \in Nat /\ k \in Nat /\ ~(k <= k - 1)
    BY <1>5
  <2>2. PICK f : Search(f, k - 1, t, h)
    <3>1. k - 1 \notin T
      BY <1>3, <2>1
    <3> QED BY <3>1, <2>1
  <2> DEFINE g == [i \in 0..k |-> Next(f, i)]
  <2>3. f = [i \in 0..(k - 1) |-> Next(f, i)]
    BY <1>1, <2>1, <2>2
  <2>4. \A i \in 0..(k - 1) : g[i] = f[i]
    <3> TAKE i \in 0..(k - 1)
    <3>1. i \in 0..k
      BY <2>1
    <3> QED BY <2>3, <3>1, Zenon
  <2>5. ASSUME NEW i \in 0..k PROVE Next(g, i) = Next(f, i)
    <3>1. CASE i = 0
      BY <3>1 DEF Next
    <3>2. CASE i # 0
      <4>1. i - 1 \in 0..(k - 1)
        BY <3>2, <2>1
      <4>2. g[i - 1] = f[i - 1]
        BY <4>1, <2>4
      <4> HIDE DEF g
      <4> QED BY <3>2, <4>2 DEF Next
    <3> QED BY <3>1, <3>2
  <2>6. g = [i \in 0..k |-> Next(g, i)]
    BY <2>5
  <2> HIDE DEF g
  <2>7. Search(g, k, t, h)
    BY <1>1, <2>1, <2>6
  <2> QED BY <2>7
<1> QED BY <1>4, <1>5

\* A search stays sound, whatever it is at.
LEMMA SearchIsSound ==
    ASSUME NEW h \in Settings, NEW t \in Nat, NEW n \in Nat, NEW f, Search(f, n, t, h)
    PROVE  \A k \in 0..n : Sound(f[k], t, h) /\ f[k].done \in BOOLEAN
<1> DEFINE Good(k) == Sound(f[k], t, h) /\ f[k].done \in BOOLEAN
           T == {k \in 0..n : ~Good(k)}
<1>0. /\ f[0] = [at |-> t, done |-> FALSE]
      /\ \A k \in 1..n : f[k] = Goes(f[k - 1], t, h)
  BY SearchGoesOn
<1>1. SUFFICES ASSUME T # {} PROVE FALSE
  OBVIOUS
<1>2. PICK k \in T : \A i \in T : k <= i
  <2>1. T \subseteq Nat
    OBVIOUS
  <2> HIDE DEF T
  <2> QED BY <1>1, <2>1, LeastExists
<1>3. CASE k = 0
  <2>1. f[0].at = t /\ ~f[0].done /\ f[0].done \in BOOLEAN
    BY <1>0
  <2>2. Good(0)
    BY <2>1 DEF Sound
  <2> QED BY <1>2, <1>3, <2>2
<1>4. CASE k # 0
  <2>1. k - 1 \in 0..n /\ k \in 1..n /\ ~(k <= k - 1)
    BY <1>2, <1>4
  <2>2. Good(k - 1)
    BY <1>2, <2>1
  <2>3. f[k] = Goes(f[k - 1], t, h)
    BY <1>0, <2>1
  <2>4. Sound(Goes(f[k - 1], t, h), t, h)
    BY <2>2, GoingIsSound
  <2>5. Goes(f[k - 1], t, h).done \in BOOLEAN
    BY <2>2, GoingIsDecided
  <2>6. Good(k)
    BY <2>3, <2>4, <2>5
  <2> QED BY <1>2, <2>6
<1> QED BY <1>3, <1>4

\* What nextWorkingInstant answers is an instant within working hours, not
\* before the one it was asked at, and within the horizon; an instant within
\* working hours answers for itself.
THEOREM WhatOpensIsOpen ==
    ASSUME NEW h \in Settings, NEW t \in Nat, NEW found, found = NextWorkingInstant(t, h)
    PROVE  /\ \/ found = NoOpening
              \/ /\ found \in Nat /\ t <= found /\ found <= t + SearchHorizon
                 /\ IsWithinWorkingHours(found, h)
           /\ IsWithinWorkingHours(t, h) => found = t
<1> DEFINE search == CHOOSE f : Search(f, SearchSteps, t, h)
           last == search[SearchSteps]
<1>1. SearchSteps \in Nat
  BY DEF SearchSteps
<1>2. Search(search, SearchSteps, t, h)
  <2>1. \E f : Search(f, SearchSteps, t, h)
    BY <1>1, SearchExists
  <2> QED BY <2>1, Zenon
<1>3. Sound(last, t, h)
  <2> HIDE DEF search
  <2> QED BY <1>1, <1>2, SearchIsSound
<1>4. found = CASE h.days = {} \/ h.start >= h.end -> NoOpening
                [] IsWithinWorkingHours(t, h) -> t
                [] OTHER -> IF last.done THEN last.at ELSE NoOpening
  BY Zenon DEF NextWorkingInstant, Search
<1>5. t <= t + SearchHorizon /\ h.start \in Nat /\ h.end \in Nat
  BY SearchNumbers DEF Settings
<1> HIDE DEF search, last
<1>6. CASE h.days = {} \/ h.start >= h.end
  <2>1. ~IsWithinWorkingHours(t, h)
    BY <1>5, <1>6, LocalClock DEF IsWithinWorkingHours
  <2>2. found = NoOpening
    BY <1>4, <1>6, <2>1
  <2> QED BY <2>1, <2>2
<1>7. CASE ~(h.days = {} \/ h.start >= h.end) /\ IsWithinWorkingHours(t, h)
  <2>1. found = t
    BY <1>4, <1>7
  <2> QED BY <1>5, <1>7, <2>1
<1>8. CASE ~(h.days = {} \/ h.start >= h.end) /\ ~IsWithinWorkingHours(t, h)
  <2>1. found = IF last.done THEN last.at ELSE NoOpening
    BY <1>4, <1>8
  <2>2. CASE last.done
    <3>1. found = last.at
      BY <2>1, <2>2
    <3>2. \/ found = NoOpening
          \/ found \in Nat /\ t <= found /\ found <= t + SearchHorizon /\ IsWithinWorkingHours(found, h)
      BY <1>3, <2>2, <3>1 DEF Sound
    <3> QED BY <1>8, <3>2
  <2>3. CASE ~last.done
    <3>1. found = NoOpening
      BY <2>1, <2>3
    <3> QED BY <1>8, <3>1
  <2> QED BY <2>2, <2>3
<1> QED BY <1>6, <1>7, <1>8

-----------------------------------------------------------------------------
(* Quotients and remainders. *)

LEMMA Multiples ==
    ASSUME NEW d \in Nat \ {0}, NEW x \in Int, NEW y \in Int, x < y
    PROVE  d * x \in Int /\ d * y \in Int /\ d * x + d <= d * y
<1>1. y = x + 1 + (y - x - 1) /\ y - x - 1 \in Nat
  OBVIOUS
<1> DEFINE z == y - x - 1
<1>2. z \in Nat /\ y = x + 1 + z
  BY <1>1
<1> HIDE DEF z
<1>3. d * z \in Nat /\ d * x \in Int
  BY <1>2
<1>4. d * y = d * x + d + d * z
  BY <1>2
<1> QED BY <1>3, <1>4

LEMMA Divides ==
    ASSUME NEW d \in Nat \ {0}, NEW a \in Int
    PROVE  a \div d \in Int /\ a % d \in 0..(d - 1) /\ a = d * (a \div d) + (a % d)
OBVIOUS

LEMMA Parts ==
    ASSUME NEW d \in Nat \ {0}, NEW a \in Int
    PROVE  \E k \in 0..(d - 1) : a = d * (a \div d) + k
<1> DEFINE k == a % d
<1>1. k \in 0..(d - 1) /\ a = d * (a \div d) + k
  BY Divides
<1> HIDE DEF k
<1> QED BY <1>1

LEMMA DividesOnce ==
    ASSUME NEW d \in Nat \ {0}, NEW x \in Int, NEW y \in 0..(d - 1), NEW a \in Int, a = d * x + y
    PROVE  a \div d = x /\ a % d = y
<1> DEFINE q == a \div d
           r == a % d
<1>1. q \in Int /\ r \in 0..(d - 1) /\ a = d * q + r
  BY Divides
<1> HIDE DEF q, r
<1>2. CASE q < x
  <2>1. d * q + d <= d * x /\ d * q \in Int /\ d * x \in Int
    BY <1>1, <1>2, Multiples
  <2> QED BY <1>1, <2>1
<1>3. CASE x < q
  <2>1. d * x + d <= d * q /\ d * q \in Int /\ d * x \in Int
    BY <1>1, <1>3, Multiples
  <2> QED BY <1>1, <2>1
<1>4. CASE x = q
  BY <1>1, <1>4 DEF q, r
<1> QED BY <1>1, <1>2, <1>3, <1>4

\* A remainder may be taken before or after an addition.
LEMMA RemainderOfSum ==
    ASSUME NEW d \in Nat \ {0}, NEW a \in Int, NEW k \in Int
    PROVE  ((a % d) + k) % d = (a + k) % d
<1> DEFINE x == a \div d
           y == a % d
           z == (y + k) \div d
           w == (y + k) % d
<1>1. x \in Int /\ y \in Int /\ a = d * x + y
  BY Divides
<1>2. y + k \in Int
  BY <1>1
<1>3. z \in Int /\ w \in 0..(d - 1) /\ y + k = d * z + w
  <2> HIDE DEF y
  <2> QED BY <1>2, Divides
<1> HIDE DEF x, y, z, w
<1>4. x + z \in Int /\ a + k \in Int /\ a + k = d * (x + z) + w
  BY <1>1, <1>3
<1>5. (a + k) % d = w
  BY <1>3, <1>4, DividesOnce
<1> QED BY <1>5 DEF w, y

\* What one sum leaves unchanged it leaves unchanged in every sum.
LEMMA NoShift ==
    ASSUME NEW d \in Nat \ {0}, NEW a \in Int, NEW b \in Int, NEW c \in Int, (a + c) % d = a % d
    PROVE  (b + c) % d = b % d
<1> DEFINE x == a \div d
           y == a % d
           u == (a + c) \div d
           v == b \div d
           w == b % d
<1>1. x \in Int /\ y \in Int /\ a = d * x + y
  BY Divides
<1>2. u \in Int /\ a + c = d * u + y
  <2>1. a + c \in Int
    OBVIOUS
  <2> QED BY <2>1, Divides
<1>3. v \in Int /\ w \in 0..(d - 1) /\ b = d * v + w
  BY Divides
<1> HIDE DEF x, y, u, v, w
<1>4. v + u - x \in Int /\ b + c \in Int /\ b + c = d * (v + u - x) + w
  BY <1>1, <1>2, <1>3
<1>5. (b + c) % d = w
  BY <1>3, <1>4, DividesOnce
<1> QED BY <1>5 DEF w

-----------------------------------------------------------------------------

\* The local minute of the week, and whether it is open: all instants of a minute
\* are, or none.
Shift(q, h) == IF q >= h.changeAt THEN h.change ELSE 0
LocalOf(q, h) == (q + Shift(q, h)) % WeekLength
OpenMinute(q, h) ==
    /\ LocalOf(q, h) \div DayLength \in h.days
    /\ LocalOf(q, h) % DayLength >= h.start
    /\ LocalOf(q, h) % DayLength < h.end

LEMMA Lengths ==
    /\ DayLength \in Nat \ {0} /\ WeekDays \in Nat \ {0} /\ Grain \in Nat \ {0}
    /\ WeekLength \in Nat \ {0} /\ WeekLength = DayLength * WeekDays
BY HoursAssumption DEF HoursAssumption, WeekLength

LEMMA MinutesOpen ==
    ASSUME NEW t, NEW h
    PROVE  /\ LocalMinute(t, h) = LocalOf(t \div Grain, h)
           /\ IsWithinWorkingHours(t, h) = OpenMinute(t \div Grain, h)
BY DEF LocalMinute, LocalOf, Shift, IsWithinWorkingHours, OpenMinute, LocalPosition

LEMMA LocalTime ==
    ASSUME NEW h \in Settings, NEW q \in Nat
    PROVE  /\ LocalOf(q, h) \in 0..(WeekLength - 1)
           /\ Shift(q, h) \in Int
           /\ LocalOf(q, h) \div DayLength \in Int /\ LocalOf(q, h) % DayLength \in 0..(DayLength - 1)
           /\ LocalOf(q, h) = DayLength * (LocalOf(q, h) \div DayLength) + (LocalOf(q, h) % DayLength)
<1>1. Shift(q, h) \in Int
  BY DEF Settings, Shift
<1>2. LocalOf(q, h) \in 0..(WeekLength - 1)
  <2>1. q + Shift(q, h) \in Int
    BY <1>1
  <2> QED BY <2>1, Divides, Lengths DEF LocalOf
<1> HIDE DEF LocalOf
<1>3. LocalOf(q, h) \in Int
  BY <1>2, Lengths
<1> QED BY <1>1, <1>2, <1>3, Divides, Lengths

\* A jump over a change of the clock that puts nothing off is one over none.
LEMMA StraightJump ==
    ASSUME NEW h \in Settings, NEW q \in Nat, NEW j \in Nat, NEW k \in 0..j,
           LocalOf(q + j, h) = (LocalOf(q, h) + j) % WeekLength
    PROVE  LocalOf(q + k, h) = (LocalOf(q, h) + k) % WeekLength
<1> DEFINE s == Shift(q, h)
           at(i) == Shift(q + i, h)
<1>1. s \in Int /\ h.changeAt \in Nat /\ h.change \in Int /\ q + k \in Nat /\ q + j \in Nat /\ k \in Int
  BY DEF Shift, Settings
<1>2. \A i \in Int : (LocalOf(q, h) + i) % WeekLength = (q + s + i) % WeekLength
  <2>1. q + s \in Int
    BY <1>1
  <2> HIDE DEF s
  <2> QED BY <2>1, RemainderOfSum, Lengths DEF LocalOf, s
<1>3. CASE at(k) = s
  <2>1. q + k + at(k) = q + s + k
    BY <1>1, <1>3
  <2>2. LocalOf(q + k, h) = (q + s + k) % WeekLength
    BY <2>1 DEF LocalOf
  <2> QED BY <1>1, <1>2, <2>2
<1>4. CASE at(k) # s
  <2>1. s = 0 /\ at(k) = h.change /\ at(j) = h.change
    BY <1>1, <1>4 DEF Shift
  <2>2. (q + j + h.change) % WeekLength = (q + j) % WeekLength
    <3>1. LocalOf(q + j, h) = (q + j + h.change) % WeekLength
      BY <2>1 DEF LocalOf
    <3>2. q + s + j = q + j
      BY <1>1, <2>1
    <3> HIDE DEF s
    <3> QED BY <1>2, <3>1, <3>2
  <2>3. (q + k + h.change) % WeekLength = (q + k) % WeekLength
    <3>1. q + j \in Int /\ q + k \in Int
      BY <1>1
    <3>2. \A a, b, c \in Int : (a + c) % WeekLength = a % WeekLength
                                => (b + c) % WeekLength = b % WeekLength
      BY NoShift, Lengths
    <3> QED BY <1>1, <2>2, <3>1, <3>2
  <2>4. LocalOf(q + k, h) = (q + k) % WeekLength
    BY <2>1, <2>3 DEF LocalOf
  <2>5. q + s + k = q + k
    BY <1>1, <2>1
  <2> HIDE DEF s
  <2> QED BY <1>1, <1>2, <2>4, <2>5
<1> QED BY <1>3, <1>4

-----------------------------------------------------------------------------
(* A jump: to the opening of the day, or to midnight. *)

\* Remainders that are plain to see.
LEMMA PlainRemainders ==
    ASSUME NEW d \in Nat \ {0}
    PROVE  /\ \A a \in 0..(d - 1) : a % d = a
           /\ d % d = 0
           /\ \A x \in Int : (d * x) % d = 0
<1>1. ASSUME NEW a \in 0..(d - 1) PROVE a % d = a
  <2>1. a \in Int /\ 0 \in Int /\ a = d * 0 + a
    OBVIOUS
  <2> QED BY <2>1, DividesOnce
<1>2. ASSUME NEW x \in Int PROVE (d * x) % d = 0
  <2> DEFINE a == d * x
  <2>1. a \in Int /\ 0 \in 0..(d - 1) /\ a = d * x + 0
    OBVIOUS
  <2> HIDE DEF a
  <2>2. a % d = 0
    BY <2>1, DividesOnce
  <2> QED BY <2>2 DEF a
<1>3. d % d = 0
  <2>1. d * 1 = d /\ 1 \in Int
    OBVIOUS
  <2> QED BY <1>2, <2>1
<1> QED BY <1>1, <1>2, <1>3

LEMMA LocalDay ==
    ASSUME NEW h \in Settings, NEW q \in Nat
    PROVE  LocalOf(q, h) \div DayLength \in 0..(WeekDays - 1)
<1> DEFINE l == LocalOf(q, h)
           x == l \div DayLength
           y == l % DayLength
<1>1. /\ l \in 0..(DayLength * WeekDays - 1) /\ x \in Int /\ y \in 0..(DayLength - 1)
      /\ l = DayLength * x + y
  BY LocalTime, Lengths
<1> HIDE DEF l, x, y
<1>2. DayLength * 0 = 0 /\ DayLength * x \in Int /\ DayLength * WeekDays \in Int
      /\ DayLength \in Nat \ {0} /\ WeekDays \in Nat
  BY <1>1, Lengths
<1>3. ~(x < 0)
  <2> SUFFICES ASSUME x < 0 PROVE FALSE
    OBVIOUS
  <2>1. DayLength * x + DayLength <= DayLength * 0
    BY <1>1, <1>2, Multiples
  <2> QED BY <1>1, <1>2, <2>1
<1>4. ~(WeekDays < x) /\ x # WeekDays
  <2>1. CASE WeekDays < x
    <3>1. DayLength * WeekDays + DayLength <= DayLength * x
      BY <1>1, <1>2, <2>1, Multiples
    <3> QED BY <1>1, <1>2, <3>1
  <2>2. CASE x = WeekDays
    BY <1>1, <1>2, <2>2
  <2> QED BY <2>1, <2>2
<1>5. x \in 0..(WeekDays - 1)
  BY <1>1, <1>2, <1>3, <1>4
<1> QED BY <1>5 DEF x, l

LEMMA WithinTheDay ==
    ASSUME NEW h \in Settings, NEW q \in Nat, NEW k \in Nat, (LocalOf(q, h) % DayLength) + k < DayLength
    PROVE  LET on == (LocalOf(q, h) + k) % WeekLength
           IN /\ on \div DayLength = LocalOf(q, h) \div DayLength
              /\ on % DayLength = (LocalOf(q, h) % DayLength) + k
<1> DEFINE l == LocalOf(q, h)
           x == l \div DayLength
           y == l % DayLength
           on == (l + k) % WeekLength
<1>1. /\ l \in Nat /\ x \in 0..(WeekDays - 1) /\ y \in 0..(DayLength - 1)
      /\ l = DayLength * x + y /\ y + k < DayLength
  BY LocalTime, LocalDay
<1> HIDE DEF l, x, y, on
<1>2. DayLength * x + DayLength <= DayLength * WeekDays /\ DayLength * x \in Int
      /\ WeekLength \in Nat \ {0} /\ WeekLength = DayLength * WeekDays /\ DayLength \in Nat \ {0}
  <2>1. x < WeekDays /\ x \in Int /\ WeekDays \in Int
    BY <1>1, Lengths
  <2> QED BY <2>1, Multiples, Lengths
<1>3. l + k \in 0..(WeekLength - 1)
  BY <1>1, <1>2
<1>4. on = l + k /\ on \in Int
  BY <1>2, <1>3, PlainRemainders DEF on
<1>5. y + k \in 0..(DayLength - 1) /\ l + k = DayLength * x + (y + k) /\ x \in Int
  BY <1>1, <1>2
<1>6. on \div DayLength = x /\ on % DayLength = y + k
  <2> DEFINE z == y + k
  <2>1. z \in 0..(DayLength - 1) /\ on = DayLength * x + z
    BY <1>4, <1>5
  <2> HIDE DEF z
  <2>2. on \div DayLength = x /\ on % DayLength = z
    <3>1. DayLength \in Nat \ {0} /\ x \in Int /\ on \in Int
      BY <1>2, <1>4, <1>5
    <3> QED BY <2>1, <3>1, DividesOnce, Zenon
  <2> QED BY <2>2 DEF z
<1> QED BY <1>6 DEF on, x, y, l

LEMMA ToMidnight ==
    ASSUME NEW h \in Settings, NEW q \in Nat
    PROVE  ((LocalOf(q, h) + (DayLength - (LocalOf(q, h) % DayLength))) % WeekLength) % DayLength = 0
<1> DEFINE l == LocalOf(q, h)
           x == l \div DayLength
           y == l % DayLength
           next == l + (DayLength - y)
<1>1. /\ l \in Nat /\ x \in 0..(WeekDays - 1) /\ y \in 0..(DayLength - 1)
      /\ l = DayLength * x + y
  BY LocalTime, LocalDay
<1> HIDE DEF l, x, y
<1>2. /\ WeekLength \in Nat \ {0} /\ WeekLength = DayLength * WeekDays
      /\ DayLength \in Nat \ {0} /\ WeekDays \in Nat \ {0}
      /\ x + 1 \in Int /\ DayLength * (x + 1) \in Int /\ DayLength * x \in Int
  BY <1>1, Lengths
<1>3. next = DayLength * (x + 1) /\ next \in Nat
  BY <1>1, <1>2
<1> HIDE DEF next
<1>4. CASE x + 1 = WeekDays
  <2>1. next = WeekLength /\ 0 \in 0..(DayLength - 1)
    BY <1>2, <1>3, <1>4
  <2>2. next % WeekLength = 0 /\ 0 % DayLength = 0
    BY <1>2, <2>1, PlainRemainders
  <2> QED BY <2>2 DEF next, y, l
<1>5. CASE x + 1 < WeekDays
  <2>1. DayLength * (x + 1) + DayLength <= DayLength * WeekDays
    BY <1>2, <1>5, Multiples
  <2>2. next \in 0..(WeekLength - 1)
    BY <1>2, <1>3, <2>1
  <2>3. next % WeekLength = next
    BY <1>2, <2>2, PlainRemainders
  <2>4. next % DayLength = 0
    <3> DEFINE z == x + 1
    <3>1. z \in Int /\ next = DayLength * z
      BY <1>2, <1>3
    <3> HIDE DEF z
    <3> QED BY <1>2, <3>1, PlainRemainders
  <2> QED BY <2>3, <2>4 DEF next, y, l
<1> QED BY <1>1, <1>2, <1>4, <1>5

JumpFrom(q, h) ==
    IF LocalOf(q, h) \div DayLength \in h.days /\ LocalOf(q, h) % DayLength < h.start
    THEN h.start - (LocalOf(q, h) % DayLength)
    ELSE DayLength - (LocalOf(q, h) % DayLength)

LEMMA JumpTyped ==
    ASSUME NEW h \in Settings, NEW q \in Nat
    PROVE  JumpFrom(q, h) \in 1..DayLength
<1>1. /\ LocalOf(q, h) % DayLength \in 0..(DayLength - 1) /\ DayLength \in Nat
      /\ h.start \in 0..DayLength
  BY LocalTime, Lengths DEF Settings
<1> QED BY <1>1 DEF JumpFrom

\* A straight jump from a closed minute passes over closed ones; it ends at an
\* opening or at midnight.
LEMMA JumpsOverClosed ==
    ASSUME NEW h \in Settings, NEW q \in Nat, h.start < h.end, ~OpenMinute(q, h),
           NEW k \in Nat, k < JumpFrom(q, h),
           LocalOf(q + k, h) = (LocalOf(q, h) + k) % WeekLength
    PROVE  ~OpenMinute(q + k, h)
<1> DEFINE x == LocalOf(q, h) \div DayLength
           y == LocalOf(q, h) % DayLength
           on == LocalOf(q + k, h)
<1>1. y \in 0..(DayLength - 1) /\ DayLength \in Nat /\ h.start \in 0..DayLength /\ h.end \in Nat
  BY LocalTime, Lengths DEF Settings
<1>2. JumpFrom(q, h) = IF x \in h.days /\ y < h.start THEN h.start - y ELSE DayLength - y
  BY DEF JumpFrom
<1>3. ~(x \in h.days /\ y >= h.start /\ y < h.end)
  BY DEF OpenMinute
<1>4. y + k < DayLength
  <2> HIDE DEF x, y
  <2> QED BY <1>1, <1>2
<1>5. on \div DayLength = x /\ on % DayLength = y + k
  BY <1>4, WithinTheDay
<1> HIDE DEF x, y
<1>6. ~(x \in h.days /\ y + k >= h.start /\ y + k < h.end)
  BY <1>1, <1>2, <1>3
<1> QED BY <1>5, <1>6 DEF OpenMinute

LEMMA JumpEnds ==
    ASSUME NEW h \in Settings, NEW q \in Nat, h.start < h.end, NEW j, j = JumpFrom(q, h),
           LocalOf(q + j, h) = (LocalOf(q, h) + j) % WeekLength
    PROVE  \/ OpenMinute(q + j, h)
           \/ /\ LocalOf(q + j, h) % DayLength = 0
              /\ j = DayLength - (LocalOf(q, h) % DayLength)
<1> DEFINE x == LocalOf(q, h) \div DayLength
           y == LocalOf(q, h) % DayLength
<1>1. /\ y \in 0..(DayLength - 1) /\ DayLength \in Nat /\ h.start \in 0..DayLength
      /\ h.end \in 0..DayLength /\ j \in Nat
  BY LocalTime, Lengths, JumpTyped DEF Settings
<1>2. CASE x \in h.days /\ y < h.start
  <2>1. j = h.start - y /\ y + j < DayLength
    <3>1. j = h.start - y
      BY <1>2 DEF JumpFrom
    <3> HIDE DEF x, y
    <3> QED BY <1>1, <3>1
  <2>2. LocalOf(q + j, h) \div DayLength = x /\ LocalOf(q + j, h) % DayLength = y + j
    BY <1>1, <2>1, WithinTheDay
  <2> HIDE DEF x, y
  <2>3. y + j = h.start
    BY <1>1, <2>1
  <2>4. h.start >= h.start
    BY <1>1
  <2> QED BY <1>2, <2>2, <2>3, <2>4 DEF OpenMinute
<1>3. CASE ~(x \in h.days /\ y < h.start)
  <2>1. j = DayLength - y
    BY <1>3 DEF JumpFrom
  <2> QED BY <2>1, ToMidnight
<1> QED BY <1>2, <1>3

-----------------------------------------------------------------------------
(* The search: nothing open is passed over. *)

\* The instant of a minute that a search from t comes by, the last such minute, and
\* that none before q was open.
InstantOf(q, t) == Grain * q + (t % Grain)
LastMinuteOf(t) == (t \div Grain) + WeekLength + DayLength
Clear(q, t, h) ==
    \A u \in Nat : t \div Grain <= u /\ u < q /\ u <= LastMinuteOf(t) => ~OpenMinute(u, h)

\* After n steps a search is a day further for each, but for the first and the two
\* about the change of the clock.
Pace(q, n, t, h) ==
    /\ q < h.changeAt => /\ q >= (t \div Grain) + (n - 1) * DayLength
                         /\ n = 0 \/ LocalOf(q, h) % DayLength = 0
    /\ q >= h.changeAt => \/ q >= (t \div Grain) + (n - 2) * DayLength
                          \/ /\ q >= (t \div Grain) + (n - 3) * DayLength
                             /\ LocalOf(q, h) % DayLength = 0

Exact(s, n, t, h) ==
    /\ s.done => \/ s.at = NoOpening /\ Clear(LastMinuteOf(t) + 1, t, h)
                 \/ \E q \in Nat : s.at = InstantOf(q, t) /\ Clear(q, t, h)
    /\ ~s.done => \E q \in Nat : /\ s.at = InstantOf(q, t) /\ Clear(q, t, h)
                                /\ t \div Grain <= q /\ ~OpenMinute(q, h) /\ Pace(q, n, t, h)

LEMMA InstantsOfMinutes ==
    ASSUME NEW t \in Nat
    PROVE  /\ t \div Grain \in Nat /\ t = InstantOf(t \div Grain, t) /\ LastMinuteOf(t) \in Nat
           /\ \A q \in Nat : /\ InstantOf(q, t) \in Nat /\ InstantOf(q, t) \div Grain = q
                             /\ InstantOf(q, t) <= t + SearchHorizon <=> q <= LastMinuteOf(t)
           /\ \A q, i \in Nat : InstantOf(q, t) + Grain * i = InstantOf(q + i, t)
           /\ \A q, u \in Nat : q < u => InstantOf(q, t) < InstantOf(u, t)
<1> DEFINE m == t \div Grain
           r == t % Grain
<1>0. /\ Grain \in Nat \ {0} /\ WeekLength \in Nat /\ DayLength \in Nat
      /\ SearchHorizon = Grain * (WeekLength + DayLength)
  BY Lengths DEF SearchHorizon
<1>1. m \in Nat /\ r \in 0..(Grain - 1) /\ t = Grain * m + r
  <2>1. t \in Int
    OBVIOUS
  <2>2. m \in Int /\ r \in 0..(Grain - 1) /\ t = Grain * m + r
    BY <1>0, <2>1, Divides
  <2> HIDE DEF m, r
  <2>3. ~(m < 0)
    <3> SUFFICES ASSUME m < 0 PROVE FALSE
      OBVIOUS
    <3>1. Grain * m + Grain <= Grain * 0 /\ Grain * 0 = 0 /\ Grain * m \in Int
      BY <1>0, <2>2, Multiples
    <3> QED BY <1>0, <2>2, <3>1
  <2> QED BY <2>2, <2>3
<1> HIDE DEF m, r
<1>2. \A q \in Int : InstantOf(q, t) = Grain * q + r
  BY DEF InstantOf, r
<1>3. LastMinuteOf(t) = m + WeekLength + DayLength /\ LastMinuteOf(t) \in Nat
  BY <1>0, <1>1 DEF LastMinuteOf, m
<1>4. ASSUME NEW q \in Nat, NEW u \in Nat, q < u PROVE InstantOf(q, t) < InstantOf(u, t)
  <2>1. Grain * q + Grain <= Grain * u /\ Grain * q \in Int /\ Grain * u \in Int
    BY <1>0, <1>4, Multiples
  <2> QED BY <1>0, <1>1, <1>2, <2>1
<1>5. ASSUME NEW q \in Nat
      PROVE  /\ InstantOf(q, t) \in Nat /\ InstantOf(q, t) \div Grain = q
             /\ InstantOf(q, t) <= t + SearchHorizon <=> q <= LastMinuteOf(t)
  <2> DEFINE a == InstantOf(q, t)
             last == LastMinuteOf(t)
  <2>1. Grain * q \in Nat /\ a = Grain * q + r /\ a \in Nat
    BY <1>0, <1>1, <1>2
  <2>2. a \div Grain = q
    <3> HIDE DEF a
    <3>1. a \in Int /\ q \in Int
      BY <2>1
    <3> QED BY <1>0, <1>1, <2>1, <3>1, DividesOnce
  <2>3. t + SearchHorizon = InstantOf(last, t) /\ InstantOf(last, t) \in Nat
    <3>1. Grain * (m + WeekLength + DayLength) = Grain * m + Grain * (WeekLength + DayLength)
      BY <1>0, <1>1
    <3>2. t + SearchHorizon \in Nat
      BY SearchNumbers
    <3> QED BY <1>0, <1>1, <1>2, <1>3, <3>1, <3>2
  <2>4. q <= last \/ last < q
    BY <1>3
  <2>5. last < q => t + SearchHorizon < a
    BY <1>3, <1>4, <2>3
  <2>6. q < last => a < t + SearchHorizon
    BY <1>3, <1>4, <2>3
  <2>7. q = last => a = t + SearchHorizon
    BY <2>3
  <2> HIDE DEF a, last
  <2>8. a <= t + SearchHorizon <=> q <= last
    BY <2>1, <2>3, <2>4, <2>5, <2>6, <2>7, <1>3, SearchNumbers DEF last
  <2> QED BY <2>1, <2>2, <2>8 DEF a, last
<1>6. \A q, i \in Nat : InstantOf(q, t) + Grain * i = InstantOf(q + i, t)
  BY <1>0, <1>1, <1>2
<1>7. t = InstantOf(m, t)
  BY <1>1, <1>2
<1> QED BY <1>1, <1>3, <1>4, <1>5, <1>6, <1>7 DEF m

LEMMA HorizonOfMinutes ==
    ASSUME NEW t \in Nat
    PROVE  t + SearchHorizon = InstantOf(LastMinuteOf(t), t)
<1> DEFINE m == t \div Grain
           r == t % Grain
<1>1. Grain \in Nat /\ WeekLength \in Nat /\ DayLength \in Nat /\ m \in Nat /\ r \in Int /\ t = Grain * m + r
      /\ SearchHorizon = Grain * (WeekLength + DayLength)
  <2>1. Grain \in Nat /\ WeekLength \in Nat /\ DayLength \in Nat
        /\ SearchHorizon = Grain * (WeekLength + DayLength)
    BY Lengths DEF SearchHorizon
  <2>2. t \in Int /\ r \in Int /\ t = Grain * m + r
    BY Divides, Lengths
  <2> QED BY <2>1, <2>2, InstantsOfMinutes
<1>2. LastMinuteOf(t) = m + WeekLength + DayLength /\ InstantOf(LastMinuteOf(t), t) = Grain * LastMinuteOf(t) + r
  BY DEF LastMinuteOf, InstantOf
<1> HIDE DEF m, r
<1>3. Grain * (m + WeekLength + DayLength) = Grain * m + Grain * (WeekLength + DayLength)
      /\ Grain * (WeekLength + DayLength) \in Nat /\ Grain * m \in Nat
  BY <1>1
<1> QED BY <1>1, <1>2, <1>3

LEMMA OrderOfMinutes ==
    ASSUME NEW t \in Nat, NEW u \in Nat, t <= u
    PROVE  t \div Grain <= u \div Grain
<1> DEFINE m == t \div Grain
           v == u \div Grain
<1>1. /\ Grain \in Nat \ {0} /\ m \in Nat /\ v \in Nat
      /\ \E r \in 0..(Grain - 1) : t = Grain * m + r
      /\ \E r \in 0..(Grain - 1) : u = Grain * v + r
  <2>1. t \in Int /\ u \in Int /\ Grain \in Nat \ {0}
    BY Lengths
  <2>2. m \in Nat /\ v \in Nat
    BY InstantsOfMinutes
  <2>3. \E r \in 0..(Grain - 1) : t = Grain * m + r
    BY <2>1, Parts, Zenon
  <2>4. \E r \in 0..(Grain - 1) : u = Grain * v + r
    BY <2>1, Parts, Zenon
  <2> QED BY <2>1, <2>2, <2>3, <2>4
<1> HIDE DEF m, v
<1>2. SUFFICES ASSUME v < m PROVE FALSE
  BY <1>1 DEF m, v
<1>3. Grain * v + Grain <= Grain * m /\ Grain * v \in Int /\ Grain * m \in Int
  BY <1>1, <1>2, Multiples
<1> QED BY <1>1, <1>3

\* A search that goes on keeps its pace.
LEMMA PaceIsKept ==
    ASSUME NEW h \in Settings, h.start < h.end, NEW t \in Nat, NEW n \in Nat, NEW q \in Nat,
           t \div Grain <= q, Pace(q, n, t, h), ~OpenMinute(q + JumpFrom(q, h), h)
    PROVE  Pace(q + JumpFrom(q, h), n + 1, t, h)
<1> DEFINE j == JumpFrom(q, h)
           m == t \div Grain
           y == LocalOf(q, h) % DayLength
           z == LocalOf(q + j, h) % DayLength
<1>1. j \in 1..DayLength /\ DayLength \in Nat \ {0} /\ h.changeAt \in Nat /\ m \in Nat
  BY JumpTyped, Lengths, InstantsOfMinutes DEF Settings
<1> HIDE DEF j
<1>2. /\ q < h.changeAt => q >= m + (n - 1) * DayLength /\ (n = 0 \/ y = 0)
      /\ q >= h.changeAt => \/ q >= m + (n - 2) * DayLength
                            \/ q >= m + (n - 3) * DayLength /\ y = 0
  BY DEF Pace
<1>3. (j = DayLength - y /\ z = 0) \/ (q < h.changeAt /\ h.changeAt <= q + j)
  <2>1. CASE LocalOf(q + j, h) = (LocalOf(q, h) + j) % WeekLength
    BY <2>1, JumpEnds DEF j
  <2>2. CASE LocalOf(q + j, h) # (LocalOf(q, h) + j) % WeekLength
    <3>1. Shift(q, h) # Shift(q + j, h)
      <4> SUFFICES ASSUME Shift(q, h) = Shift(q + j, h) PROVE FALSE
        OBVIOUS
      <4> DEFINE s == Shift(q, h)
      <4>1. s \in Int /\ q + s \in Int /\ j \in Int
        BY <1>1, LocalTime
      <4> HIDE DEF s
      <4>2. (((q + s) % WeekLength) + j) % WeekLength = (q + s + j) % WeekLength
        BY <4>1, RemainderOfSum, Lengths
      <4>3. q + s + j = q + j + s
        BY <1>1, <4>1
      <4> QED BY <2>2, <4>2, <4>3 DEF LocalOf, s
    <3> QED BY <1>1, <3>1 DEF Shift
  <2> QED BY <2>1, <2>2
<1> HIDE DEF m, y, z
<1>4. q \in Nat /\ m <= q /\ n \in Nat
  BY DEF m
<1> DEFINE d == n * DayLength
<1>5. d \in Nat /\ (n - 1) * DayLength = d - DayLength
      /\ (n - 2) * DayLength = d - 2 * DayLength
      /\ (n - 3) * DayLength = d - 3 * DayLength
      /\ (n + 1 - 1) * DayLength = d
      /\ (n + 1 - 2) * DayLength = d - DayLength
      /\ (n + 1 - 3) * DayLength = d - 2 * DayLength
      /\ (n = 0 => d = 0)
  BY <1>1, <1>4
<1> HIDE DEF d
<1>6. q + j < h.changeAt => q + j >= m + d /\ z = 0
  <2> SUFFICES ASSUME q + j < h.changeAt PROVE q + j >= m + d /\ z = 0
    OBVIOUS
  <2>1. q < h.changeAt /\ j = DayLength - y /\ z = 0
    BY <1>1, <1>3, <1>4
  <2>2. CASE n = 0
    BY <1>1, <1>4, <1>5, <2>1, <2>2
  <2>3. CASE n # 0
    BY <1>1, <1>2, <1>4, <1>5, <2>1, <2>3
  <2> QED BY <2>2, <2>3
<1> DEFINE Kept == \/ q + j >= m + (d - DayLength)
                   \/ q + j >= m + (d - 2 * DayLength) /\ z = 0
<1>7. q + j >= h.changeAt => Kept
  <2>1. CASE q < h.changeAt
    BY <1>1, <1>2, <1>4, <1>5, <2>1
  <2>2. CASE q >= h.changeAt
    <3>1. j = DayLength - y /\ z = 0
      BY <1>1, <1>3, <1>4, <2>2
    <3>2. CASE q >= m + (d - 2 * DayLength)
      BY <1>1, <1>4, <1>5, <3>1, <3>2
    <3>3. CASE q >= m + (d - 3 * DayLength) /\ y = 0
      BY <1>1, <1>4, <1>5, <3>1, <3>3
    <3> QED BY <1>2, <1>5, <2>2, <3>2, <3>3
  <2> QED BY <1>1, <1>4, <2>1, <2>2
<1> QED BY <1>5, <1>6, <1>7 DEF Pace, z, m, d, j

LEMMA StepIsExact ==
    ASSUME NEW h \in Settings, h.start < h.end, NEW t \in Nat, NEW n \in Nat, NEW q \in Nat,
           t \div Grain <= q, Clear(q, t, h), ~OpenMinute(q, h), Pace(q, n, t, h)
    PROVE  Exact(SearchStep(InstantOf(q, t), t + SearchHorizon, h), n + 1, t, h)
<1> DEFINE cursor == InstantOf(q, t)
           horizon == t + SearchHorizon
           here == LocalPosition(cursor, h)
           jump == JumpMinutes(here, h)
           candidate == cursor + Grain * jump
           changed == LocalMinute(candidate, h)
                       # (here.day * DayLength + here.minute + jump) % WeekLength
           scanned == {cursor + Grain * i : i \in 1..jump}
           open == {u \in scanned : u <= horizon /\ IsWithinWorkingHours(u, h)}
           step == SearchStep(cursor, horizon, h)
           j == JumpFrom(q, h)
<1>1. jump = j /\ here.day * DayLength + here.minute = LocalOf(q, h)
  <2>1. LocalMinute(cursor, h) = LocalOf(q, h)
    BY MinutesOpen, InstantsOfMinutes
  <2>2. here.day = LocalOf(q, h) \div DayLength /\ here.minute = LocalOf(q, h) % DayLength
    BY <2>1 DEF LocalPosition
  <2>3. jump = j
    BY <2>2 DEF JumpMinutes, JumpFrom
  <2>4. LocalOf(q, h) = DayLength * here.day + here.minute /\ here.day \in Int /\ here.minute \in Int
    BY <2>2, LocalTime
  <2> HIDE DEF here
  <2>5. here.day * DayLength = DayLength * here.day
    BY <2>4, Lengths
  <2> QED BY <2>3, <2>4, <2>5
<1>2. j \in 1..DayLength /\ DayLength \in Nat /\ q + j \in Nat /\ LastMinuteOf(t) \in Nat
  <2>1. j \in 1..DayLength
    BY JumpTyped
  <2>2. DayLength \in Nat
    BY Lengths
  <2> HIDE DEF j
  <2> QED BY <2>1, <2>2, InstantsOfMinutes
<1>3. candidate = InstantOf(q + j, t) /\ candidate \div Grain = q + j
  BY <1>1, <1>2, InstantsOfMinutes
<1>4. /\ changed <=> LocalOf(q + j, h) # (LocalOf(q, h) + j) % WeekLength
      /\ IsWithinWorkingHours(candidate, h) <=> OpenMinute(q + j, h)
  BY <1>1, <1>3, MinutesOpen
<1>5. \A u : u \in open <=> \E i \in 1..j : /\ u = InstantOf(q + i, t) /\ q + i <= LastMinuteOf(t)
                                         /\ OpenMinute(q + i, h)
  <2>1. \A i \in 1..j : /\ cursor + Grain * i = InstantOf(q + i, t)
                        /\ InstantOf(q + i, t) <= horizon <=> q + i <= LastMinuteOf(t)
                        /\ IsWithinWorkingHours(InstantOf(q + i, t), h) <=> OpenMinute(q + i, h)
    <3> TAKE i \in 1..j
    <3>1. i \in Nat /\ q + i \in Nat
      BY <1>2
    <3>2. InstantOf(q + i, t) \div Grain = q + i
      BY <3>1, InstantsOfMinutes
    <3>3. IsWithinWorkingHours(InstantOf(q + i, t), h) = OpenMinute(q + i, h)
      BY <3>2, MinutesOpen
    <3> QED BY <3>1, <3>3, InstantsOfMinutes
  <2>2. scanned = {cursor + Grain * i : i \in 1..j}
    BY <1>1
  <2> HIDE DEF cursor, horizon, j
  <2> QED BY <2>1, <2>2
<1> HIDE DEF changed, open, candidate, j
<1>6. CASE changed /\ open # {}
  <2> DEFINE least == CHOOSE u \in open : \A v \in open : u <= v
  <2>1. least \in open /\ \A v \in open : least <= v
    <3>1. \A i \in 1..j : InstantOf(q + i, t) \in Nat
      <4>1. \A i \in 1..j : q + i \in Nat
        BY <1>2
      <4> QED BY <4>1, InstantsOfMinutes
    <3>2. open \subseteq Nat
      BY <1>5, <3>1
    <3> QED BY <1>6, <3>2, LeastExists
  <2>2. step = [at |-> least, done |-> TRUE]
    BY <1>6, Zenon DEF SearchStep, changed, open, candidate
  <2> HIDE DEF least
  <2>3. PICK i \in 1..j : least = InstantOf(q + i, t) /\ q + i <= LastMinuteOf(t)
    BY <1>5, <2>1
  <2>4. Clear(q + i, t, h)
    <3> SUFFICES ASSUME NEW u \in Nat, t \div Grain <= u, u < q + i, u <= LastMinuteOf(t)
                 PROVE  ~OpenMinute(u, h)
      BY DEF Clear
    <3>1. CASE u <= q
      BY <3>1 DEF Clear
    <3>2. CASE ~(u <= q)
      <4> DEFINE k == u - q
      <4>1. k \in 1..j /\ u = q + k /\ q + i \in Nat
        BY <1>2, <3>2
      <4>2. InstantOf(u, t) < InstantOf(q + i, t) /\ InstantOf(u, t) \in Nat /\ InstantOf(q + i, t) \in Nat
        BY <4>1, InstantsOfMinutes
      <4>3. InstantOf(u, t) \notin open
        BY <2>1, <2>3, <4>2
      <4> HIDE DEF k
      <4> QED BY <1>5, <4>1, <4>3
    <3> QED BY <3>1, <3>2
  <2>5. q + i \in Nat
    BY <1>2
  <2>6. step.done /\ step.at = InstantOf(q + i, t)
    BY <2>2, <2>3
  <2> HIDE DEF step
  <2> QED BY <2>4, <2>5, <2>6 DEF Exact, step
<1>7. ASSUME ~(changed /\ open # {}) PROVE Clear(q + j, t, h)
  <2> SUFFICES ASSUME NEW u \in Nat, t \div Grain <= u, u < q + j, u <= LastMinuteOf(t)
               PROVE  ~OpenMinute(u, h)
    BY DEF Clear
  <2>1. CASE u <= q
    BY <2>1 DEF Clear
  <2>2. CASE ~(u <= q)
    <3> DEFINE k == u - q
    <3>1. k \in 1..j /\ k \in 0..j /\ k \in Nat /\ k < j /\ u = q + k /\ j \in Nat
      BY <1>2, <2>2
    <3> HIDE DEF k
    <3>2. CASE changed
      <4>1. open = {}
        BY <1>7, <3>2
      <4> QED BY <1>5, <3>1, <4>1
    <3>3. CASE ~changed
      <4>1. LocalOf(q + k, h) = (LocalOf(q, h) + k) % WeekLength
        BY <1>4, <3>1, <3>3, StraightJump
      <4>2. ~OpenMinute(q + k, h)
        BY <3>1, <4>1, JumpsOverClosed DEF j
      <4> QED BY <3>1, <4>2
    <3> QED BY <3>2, <3>3
  <2> QED BY <2>1, <2>2
<1>8. CASE ~(changed /\ open # {}) /\ IsWithinWorkingHours(candidate, h)
  <2>1. step = [at |-> IF candidate > horizon THEN NoOpening ELSE candidate, done |-> TRUE]
    BY <1>8, Zenon DEF SearchStep, changed, open, candidate
  <2> HIDE DEF step
  <2>2. step.done /\ step.at = IF candidate > horizon THEN NoOpening ELSE candidate
    BY <2>1
  <2>3. CASE candidate > horizon
    <3>1. ~(q + j <= LastMinuteOf(t))
      <4>1. q + j <= LastMinuteOf(t) => candidate <= horizon
        BY <1>2, <1>3, InstantsOfMinutes
      <4>2. candidate \in Nat /\ horizon \in Nat
        <5>1. horizon \in Nat
          BY SearchNumbers
        <5>2. InstantOf(q + j, t) \in Nat
          BY <1>2, InstantsOfMinutes
        <5> QED BY <1>3, <5>1, <5>2
      <4> QED BY <2>3, <4>1, <4>2
    <3>2. Clear(LastMinuteOf(t) + 1, t, h)
      BY <1>2, <1>7, <1>8, <3>1 DEF Clear
    <3> QED BY <2>2, <2>3, <3>2 DEF Exact, step
  <2>4. CASE ~(candidate > horizon)
    <3>1. step.at = InstantOf(q + j, t) /\ Clear(q + j, t, h)
      BY <1>3, <1>7, <1>8, <2>2, <2>4
    <3> QED BY <1>2, <2>2, <3>1 DEF Exact, step
  <2> QED BY <2>3, <2>4
<1>9. CASE ~(changed /\ open # {}) /\ ~IsWithinWorkingHours(candidate, h)
  <2>1. step = [at |-> candidate, done |-> FALSE]
    BY <1>9, Zenon DEF SearchStep, changed, open, candidate
  <2> HIDE DEF step
  <2>2. ~step.done /\ step.at = InstantOf(q + j, t) /\ Clear(q + j, t, h) /\ ~OpenMinute(q + j, h)
    BY <1>3, <1>4, <1>7, <1>9, <2>1
  <2>3. Pace(q + j, n + 1, t, h)
    BY <2>2, PaceIsKept DEF j
  <2>4. t \div Grain <= q + j
    BY <1>2, InstantsOfMinutes
  <2> QED BY <1>2, <2>2, <2>3, <2>4 DEF Exact, step
<1> QED BY <1>6, <1>8, <1>9

LEMMA GoingIsExact ==
    ASSUME NEW h \in Settings, h.start < h.end, NEW t \in Nat, NEW n \in Nat, NEW s,
           Exact(s, n, t, h), s.done \in BOOLEAN
    PROVE  Exact(Goes(s, t, h), n + 1, t, h)
<1>1. CASE s.done
  BY <1>1 DEF Goes, Exact
<1>2. CASE ~s.done
  <2>1. PICK q \in Nat : /\ s.at = InstantOf(q, t) /\ Clear(q, t, h)
                         /\ t \div Grain <= q /\ ~OpenMinute(q, h) /\ Pace(q, n, t, h)
    BY <1>2 DEF Exact
  <2>2. CASE s.at > t + SearchHorizon
    <3>1. Goes(s, t, h) = [at |-> NoOpening, done |-> TRUE]
      BY <1>2, <2>2 DEF Goes
    <3>2. ~(q <= LastMinuteOf(t)) /\ LastMinuteOf(t) \in Nat
      <4>1. s.at \in Nat
        BY <2>1, InstantsOfMinutes
      <4>2. t + SearchHorizon \in Nat
        BY SearchNumbers
      <4>3. q <= LastMinuteOf(t) => InstantOf(q, t) <= t + SearchHorizon
        BY InstantsOfMinutes
      <4>4. LastMinuteOf(t) \in Nat
        BY InstantsOfMinutes
      <4> QED BY <2>1, <2>2, <4>1, <4>2, <4>3, <4>4
    <3>3. Clear(LastMinuteOf(t) + 1, t, h)
      BY <2>1, <3>2 DEF Clear
    <3> QED BY <3>1, <3>3 DEF Exact
  <2>3. CASE ~(s.at > t + SearchHorizon)
    <3>1. Goes(s, t, h) = SearchStep(InstantOf(q, t), t + SearchHorizon, h)
      BY <1>2, <2>1, <2>3 DEF Goes
    <3> QED BY <2>1, <3>1, StepIsExact
  <2> QED BY <2>2, <2>3
<1> QED BY <1>1, <1>2

LEMMA SearchStaysExact ==
    ASSUME NEW h \in Settings, h.start < h.end, NEW t \in Nat, ~IsWithinWorkingHours(t, h),
           NEW n \in Nat, NEW f, Search(f, n, t, h)
    PROVE  \A k \in 0..n : Exact(f[k], k, t, h)
<1> DEFINE T == {k \in 0..n : ~Exact(f[k], k, t, h)}
<1>0. /\ f[0] = [at |-> t, done |-> FALSE]
      /\ \A k \in 1..n : f[k] = Goes(f[k - 1], t, h)
  BY SearchGoesOn
<1>1. SUFFICES ASSUME T # {} PROVE FALSE
  OBVIOUS
<1>2. PICK k \in T : \A i \in T : k <= i
  <2>1. T \subseteq Nat
    OBVIOUS
  <2> HIDE DEF T
  <2> QED BY <1>1, <2>1, LeastExists
<1>3. CASE k = 0
  <2> DEFINE q == t \div Grain
  <2>1. f[0].at = InstantOf(q, t) /\ ~f[0].done /\ q \in Nat
    BY <1>0, InstantsOfMinutes
  <2>2. ~OpenMinute(q, h)
    BY MinutesOpen
  <2>3. Clear(q, t, h)
    BY <2>1 DEF Clear
  <2> HIDE DEF q
  <2>4. DayLength \in Nat /\ q \in Nat /\ h.changeAt \in Nat
        /\ (0 - 1) * DayLength = -DayLength /\ (0 - 2) * DayLength = -(2 * DayLength)
    BY <2>1, Lengths DEF Settings
  <2>5. Pace(q, 0, t, h)
    <3>1. q >= q + (0 - 1) * DayLength /\ q >= q + (0 - 2) * DayLength
      BY <2>4
    <3> QED BY <3>1 DEF Pace, q
  <2>6. t \div Grain <= q
    BY <2>4 DEF q
  <2> QED BY <1>2, <1>3, <2>1, <2>2, <2>3, <2>5, <2>6 DEF Exact
<1>4. CASE k # 0
  <2>1. k - 1 \in 0..n /\ k \in 1..n /\ ~(k <= k - 1) /\ k - 1 \in Nat /\ k - 1 + 1 = k
    BY <1>2, <1>4
  <2>2. Exact(f[k - 1], k - 1, t, h)
    BY <1>2, <2>1
  <2>3. f[k - 1].done \in BOOLEAN
    BY <2>1, SearchIsSound
  <2>4. Exact(Goes(f[k - 1], t, h), k - 1 + 1, t, h)
    BY <2>1, <2>2, <2>3, GoingIsExact
  <2> QED BY <1>0, <1>2, <2>1, <2>4
<1> QED BY <1>3, <1>4

\* nextWorkingInstant answers like a search instant by instant, from any instant
\* and over any change of the clock: it passes over nothing open but, at most, the
\* fraction of a minute it carries along, and gives up only where nothing opens.
\* The twenty jumps it allows itself do for weeks of up to fifteen days.
THEOREM TheSearchIsExact ==
    ASSUME WeekDays <= 15, NEW h \in Settings, NEW t \in Nat
    PROVE  SearchIsExactFrom(t, h)
<1> DEFINE found == NextWorkingInstant(t, h)
           open == {u \in t..(t + SearchHorizon) : IsWithinWorkingHours(u, h)}
           search == CHOOSE f : Search(f, SearchSteps, t, h)
           last == search[SearchSteps]
<1>1. /\ found = NoOpening \/ (found \in Nat /\ found \in open)
      /\ IsWithinWorkingHours(t, h) => found = t
  <2>1. /\ \/ found = NoOpening
           \/ found \in Nat /\ t <= found /\ found <= t + SearchHorizon /\ IsWithinWorkingHours(found, h)
        /\ IsWithinWorkingHours(t, h) => found = t
    BY WhatOpensIsOpen
  <2> HIDE DEF found
  <2> QED BY <2>1, SearchNumbers
<1>2. SUFFICES IF found = NoOpening THEN open = {} ELSE \A u \in open : u > found - Grain
  <2> SUFFICES ASSUME IF found = NoOpening THEN open = {} ELSE \A u \in open : u > found - Grain
               PROVE  SearchIsExactFrom(t, h)
    OBVIOUS
  <2>1. SearchHorizon \in Nat /\ Grain \in Nat \ {0}
    BY SearchNumbers
  <2>2. CASE found = NoOpening
    <3>1. \A u \in t..(t + SearchHorizon) : ~IsWithinWorkingHours(u, h)
      BY <2>2
    <3> QED BY <2>2, <3>1, Zenon DEF SearchIsExactFrom
  <2>3. CASE found # NoOpening
    <3>1. found \in Nat /\ found \in t..(t + SearchHorizon) /\ IsWithinWorkingHours(found, h)
      BY <1>1, <2>3
    <3> HIDE DEF found
    <3>2. ASSUME NEW u \in t..(found - Grain) PROVE ~IsWithinWorkingHours(u, h)
      <4>1. u \in t..(t + SearchHorizon) /\ ~(u > found - Grain)
        BY <2>1, <3>1
      <4> QED BY <2>3, <4>1
    <3> USE DEF found
    <3> QED BY <2>3, <3>1, <3>2, Zenon DEF SearchIsExactFrom
  <2> QED BY <2>2, <2>3
<1>3. Grain \in Nat \ {0} /\ SearchHorizon \in Nat /\ h.start \in Nat /\ h.end \in Nat /\ open \subseteq Nat
  BY SearchNumbers DEF Settings
<1>4. found = CASE h.days = {} \/ h.start >= h.end -> NoOpening
                [] IsWithinWorkingHours(t, h) -> t
                [] OTHER -> IF last.done THEN last.at ELSE NoOpening
  BY Zenon DEF NextWorkingInstant, Search
<1>5. CASE h.days = {} \/ h.start >= h.end
  <2>1. \A u \in Nat : ~IsWithinWorkingHours(u, h)
    BY <1>3, <1>5, LocalClock DEF IsWithinWorkingHours
  <2>2. open = {}
    BY <1>3, <2>1
  <2>3. found = NoOpening
    <3> HIDE DEF search, found
    <3> QED BY <1>1, <2>2
  <2> QED BY <2>2, <2>3
<1>6. CASE IsWithinWorkingHours(t, h)
  <2>1. found = t /\ found # NoOpening
    BY <1>1, <1>6 DEF NoOpening
  <2>2. \A u \in open : u >= t
    OBVIOUS
  <2> HIDE DEF found, open
  <2> QED BY <1>3, <2>1, <2>2
<1>7. CASE ~(h.days = {} \/ h.start >= h.end) /\ ~IsWithinWorkingHours(t, h)
  <2>1. Search(search, SearchSteps, t, h) /\ SearchSteps \in Nat
    <3>1. SearchSteps \in Nat
      BY DEF SearchSteps
    <3>2. \E f : Search(f, SearchSteps, t, h)
      BY <3>1, SearchExists
    <3> QED BY <3>1, <3>2, Zenon
  <2>2. h.start < h.end
    BY <1>3, <1>7
  <2>3. Exact(last, SearchSteps, t, h)
    <3> HIDE DEF search
    <3>1. SearchSteps \in 0..SearchSteps
      BY <2>1
    <3> QED BY <1>7, <2>1, <2>2, <3>1, SearchStaysExact
  <2>4. found = IF last.done THEN last.at ELSE NoOpening
    BY <1>4, <1>7
  <2> HIDE DEF search, last, found
  <2>5. \A u \in open : /\ u \in Nat /\ u \div Grain \in Nat /\ t \div Grain <= u \div Grain
                      /\ u \div Grain <= LastMinuteOf(t) /\ OpenMinute(u \div Grain, h)
    <3> TAKE u \in open
    <3>1. u \in Nat /\ t <= u /\ u <= t + SearchHorizon /\ OpenMinute(u \div Grain, h)
      BY <1>3, MinutesOpen
    <3>2. t \div Grain <= u \div Grain
      BY <1>3, <3>1, OrderOfMinutes
    <3>3. u \div Grain <= (t + SearchHorizon) \div Grain
      <4>1. t + SearchHorizon \in Nat
        BY <1>3
      <4> QED BY <1>3, <3>1, <4>1, OrderOfMinutes
    <3>4. t + SearchHorizon = InstantOf(LastMinuteOf(t), t)
      BY HorizonOfMinutes
    <3>5. (t + SearchHorizon) \div Grain = LastMinuteOf(t)
      BY <3>4, InstantsOfMinutes
    <3> QED BY <3>1, <3>2, <3>3, <3>5, InstantsOfMinutes
  <2>6. Clear(LastMinuteOf(t) + 1, t, h) => open = {}
    <3>1. LastMinuteOf(t) \in Nat
      BY InstantsOfMinutes
    <3> HIDE DEF open
    <3> QED BY <2>5, <3>1 DEF Clear
  <2>7. CASE ~last.done
    <3>1. PICK q \in Nat : Clear(q, t, h) /\ Pace(q, SearchSteps, t, h)
      BY <2>3, <2>7 DEF Exact
    <3>2. q >= (t \div Grain) + 17 * DayLength
      <4>1. SearchSteps = 20 /\ DayLength \in Nat /\ t \div Grain \in Nat /\ h.changeAt \in Nat
        BY Lengths, InstantsOfMinutes DEF SearchSteps, Settings
      <4>2. \/ q >= (t \div Grain) + (20 - 1) * DayLength
            \/ q >= (t \div Grain) + (20 - 2) * DayLength
            \/ q >= (t \div Grain) + (20 - 3) * DayLength
        BY <3>1, <4>1 DEF Pace
      <4> DEFINE m == t \div Grain
      <4>3. m \in Nat
        BY <4>1
      <4> HIDE DEF m
      <4>4. \/ q >= m + 19 * DayLength \/ q >= m + 18 * DayLength \/ q >= m + 17 * DayLength
        BY <4>1, <4>2 DEF m
      <4> QED BY <4>1, <4>3, <4>4 DEF m
    <3>3. LastMinuteOf(t) < q
      <4>1. WeekLength = DayLength * WeekDays /\ DayLength \in Nat \ {0} /\ t \div Grain \in Nat
            /\ WeekDays \in Nat /\ WeekDays < 16 /\ 16 \in Int
        BY Lengths, InstantsOfMinutes
      <4>2. DayLength * WeekDays + DayLength <= DayLength * 16 /\ DayLength * WeekDays \in Int
        BY <4>1, Multiples
      <4> DEFINE m == t \div Grain
                 w == DayLength * WeekDays
      <4>3. m \in Nat /\ w \in Int /\ w + DayLength <= DayLength * 16
        BY <4>1, <4>2
      <4>4. LastMinuteOf(t) = m + w + DayLength /\ q >= m + 17 * DayLength
        BY <3>2, <4>1 DEF LastMinuteOf
      <4> HIDE DEF m, w
      <4> QED BY <4>1, <4>3, <4>4
    <3>4. Clear(LastMinuteOf(t) + 1, t, h)
      <4>1. LastMinuteOf(t) \in Nat
        BY InstantsOfMinutes
      <4> QED BY <3>1, <3>3, <4>1 DEF Clear
    <3> HIDE DEF open
    <3> QED BY <2>4, <2>6, <2>7, <3>4
  <2>8. CASE last.done
    <3>1. CASE last.at = NoOpening /\ Clear(LastMinuteOf(t) + 1, t, h)
      <4> HIDE DEF open
      <4> QED BY <2>4, <2>6, <2>8, <3>1
    <3>2. ASSUME NEW q \in Nat, last.at = InstantOf(q, t), Clear(q, t, h)
          PROVE  IF found = NoOpening THEN open = {} ELSE \A u \in open : u > found - Grain
      <4>1. found = InstantOf(q, t) /\ found \in Nat /\ found \div Grain = q /\ found # NoOpening
        <5>1. InstantOf(q, t) \in Nat /\ InstantOf(q, t) \div Grain = q
          BY InstantsOfMinutes
        <5> QED BY <2>4, <2>8, <3>2, <5>1 DEF NoOpening
      <4>2. ASSUME NEW u \in open PROVE u > found - Grain
        <5>1. ~(u \div Grain < q) /\ u \in Nat /\ u \div Grain \in Nat
          BY <2>5, <3>2 DEF Clear
        <5> DEFINE v == u \div Grain
        <5>0. u \in Int /\ found \in Int
          BY <4>1, <5>1
        <5>2. \E k \in 0..(Grain - 1) : u = Grain * v + k
          BY <1>3, <5>0, Parts, Zenon
        <5>3. \E k \in 0..(Grain - 1) : found = Grain * q + k
          <6>1. \E k \in 0..(Grain - 1) : found = Grain * (found \div Grain) + k
            BY <1>3, <5>0, Parts, Zenon
          <6>2. found \div Grain = q
            BY <4>1
          <6> QED BY <6>1, <6>2, Zenon
        <5>4. Grain * q <= Grain * v /\ Grain * q \in Int /\ Grain * v \in Int
          <6>1. v \in Int /\ q \in Int /\ (q < v \/ q = v)
            BY <5>1
          <6> HIDE DEF v
          <6>2. CASE q < v
            <7>1. Grain * q + Grain <= Grain * v /\ Grain * q \in Int /\ Grain * v \in Int
              BY <1>3, <6>1, <6>2, Multiples
            <7> QED BY <1>3, <7>1
          <6>3. CASE q = v
            <7>1. Grain * q \in Int
              BY <1>3
            <7> QED BY <6>3, <7>1
          <6> QED BY <6>1, <6>2, <6>3
        <5> HIDE DEF v, open
        <5> QED BY <1>3, <4>1, <5>1, <5>2, <5>3, <5>4
      <4> HIDE DEF open
      <4> QED BY <4>1, <4>2
    <3> HIDE DEF open
    <3> QED BY <2>3, <2>8, <3>1, <3>2 DEF Exact
  <2> QED BY <2>7, <2>8
<1> QED BY <1>5, <1>6, <1>7

-----------------------------------------------------------------------------
(* The lane of scheduled sends (ScheduledSends). *)

\* The columns that count: an intent is none or one, whoever wrote it.
IntentsCount ==
    /\ clicks \in [Messages -> Nat] /\ consumed \in [Messages -> Nat]
    /\ intent = [m \in Messages |-> intent[m]]
    /\ \A m \in Messages : intent[m] = {} \/ \E i \in intent[m] : intent[m] = {i}

ClicksInv == IntentsCount /\ EveryClickEndsOnce

LEMMA NoneOrOne ==
    Cardinality({}) = 0 /\ \A x : Cardinality({x}) = 1
BY FS_EmptySet, FS_Singleton

LEMMA CardinalityOfIntent ==
    ASSUME ClicksInv, NEW m \in Messages
    PROVE  /\ Cardinality(intent[m]) \in Nat
           /\ intent[m] = {} => Cardinality(intent[m]) = 0
           /\ intent[m] # {} => Cardinality(intent[m]) = 1
           /\ clicks[m] = consumed[m] + Cardinality(intent[m])
           /\ clicks[m] \in Nat /\ consumed[m] \in Nat
<1>1. intent[m] = {} \/ \E i \in intent[m] : intent[m] = {i}
  BY DEF ClicksInv, IntentsCount
<1>2. clicks[m] = consumed[m] + Cardinality(intent[m]) /\ clicks[m] \in Nat /\ consumed[m] \in Nat
  BY DEF ClicksInv, IntentsCount, EveryClickEndsOnce
<1>3. CASE intent[m] = {}
  BY <1>2, <1>3, NoneOrOne
<1>4. CASE \E i \in intent[m] : intent[m] = {i}
  <2>1. PICK i : intent[m] = {i}
    BY <1>4
  <2>2. Cardinality(intent[m]) = 1
    BY <2>1, NoneOrOne
  <2> QED BY <1>2, <2>1, <2>2
<1> QED BY <1>1, <1>3, <1>4

LEMMA ClicksInvInit == ScheduleInit => ClicksInv
<1> SUFFICES ASSUME ScheduleInit PROVE ClicksInv
  OBVIOUS
<1>1. /\ intent = [m \in Messages |-> {}] /\ clicks = [m \in Messages |-> 0]
      /\ consumed = [m \in Messages |-> 0]
  BY DEF ScheduleInit
<1> QED BY <1>1, NoneOrOne DEF ClicksInv, IntentsCount, EveryClickEndsOnce

\* One message's intent is written, with the counts that go with it.
LEMMA OneIntentWritten ==
    ASSUME ClicksInv, NEW m, NEW new, NEW click \in Nat, NEW ended \in Nat,
           intent' = [intent EXCEPT ![m] = new],
           clicks' = [clicks EXCEPT ![m] = click],
           consumed' = [consumed EXCEPT ![m] = ended],
           m \in Messages => /\ new = {} \/ \E i \in new : new = {i}
                             /\ click = ended + Cardinality(new)
    PROVE  ClicksInv'
<1>1. IntentsCount
  BY DEF ClicksInv
<1>2. /\ clicks' \in [Messages -> Nat] /\ consumed' \in [Messages -> Nat] /\ intent' = [n \in Messages |-> intent'[n]]
      /\ \A n \in Messages : n # m => intent'[n] = intent[n] /\ clicks'[n] = clicks[n]
                                      /\ consumed'[n] = consumed[n]
      /\ m \in Messages => intent'[m] = new /\ clicks'[m] = click /\ consumed'[m] = ended
  BY <1>1 DEF IntentsCount
<1>3. \A n \in Messages :
        /\ intent'[n] = {} \/ \E i \in intent'[n] : intent'[n] = {i}
        /\ clicks'[n] = consumed'[n] + Cardinality(intent'[n])
  <2> TAKE n \in Messages
  <2>1. CASE n = m
    BY <1>2, <2>1
  <2>2. CASE n # m
    <3>1. intent'[n] = intent[n] /\ clicks'[n] = clicks[n] /\ consumed'[n] = consumed[n]
      BY <1>2, <2>2
    <3> QED BY <1>1, <3>1, CardinalityOfIntent DEF IntentsCount
  <2> QED BY <2>1, <2>2
<1> QED BY <1>2, <1>3 DEF ClicksInv, IntentsCount, EveryClickEndsOnce

\* An intent that is written where there was none.
LEMMA ScheduleKeeps ==
    ASSUME ClicksInv, NEW m \in Messages, NEW by, NEW notBefore, NEW lifetime,
           ScheduleSendIntent(m, by, notBefore, lifetime), consumed' = consumed
    PROVE  ClicksInv'
<1> DEFINE new == [at |-> Opens(Most(now, notBefore)),
                   expires |-> Opens(Most(now, notBefore)) + lifetime,
                   by |-> by, clickedAt |-> now, click |-> clicks[m] + 1]
<1>1. intent[m] = {} /\ clicks' = [clicks EXCEPT ![m] = clicks[m] + 1]
      /\ intent' = [intent EXCEPT ![m] = {new}]
  BY DEF ScheduleSendIntent
<1> HIDE DEF new
<1>2. clicks[m] = consumed[m] /\ clicks[m] + 1 \in Nat /\ consumed[m] \in Nat
  BY <1>1, CardinalityOfIntent
<1>3. consumed' = [consumed EXCEPT ![m] = consumed[m]]
  BY DEF ClicksInv, IntentsCount
<1>4. Cardinality({new}) = 1 /\ clicks[m] + 1 = consumed[m] + Cardinality({new})
  BY <1>2, NoneOrOne
<1>5. m \in Messages => /\ {new} = {} \/ \E i \in {new} : {new} = {i}
                        /\ clicks[m] + 1 = consumed[m] + Cardinality({new})
  BY <1>4
<1> QED BY <1>1, <1>2, <1>3, <1>5, OneIntentWritten

\* An intent that ends, if there is one.
LEMMA EndKeeps ==
    ASSUME ClicksInv, NEW m, NEW ended \in Nat, intent' = [intent EXCEPT ![m] = {}],
           consumed' = [consumed EXCEPT ![m] = ended], clicks' = clicks,
           m \in Messages => ended = clicks[m]
    PROVE  ClicksInv'
<1>1. CASE m \in Messages
  <2>1. clicks' = [clicks EXCEPT ![m] = clicks[m]] /\ clicks[m] \in Nat
    BY <1>1 DEF ClicksInv, IntentsCount
  <2>2. clicks[m] = ended + Cardinality({})
    BY <1>1, NoneOrOne
  <2> QED BY <1>1, <2>1, <2>2, OneIntentWritten
<1>2. CASE m \notin Messages
  <2>1. intent' = intent /\ consumed' = consumed
    BY <1>2 DEF ClicksInv, IntentsCount
  <2> QED BY <2>1 DEF ClicksInv, IntentsCount, EveryClickEndsOnce
<1> QED BY <1>1, <1>2

LEMMA Untouched == ASSUME ClicksInv, UNCHANGED <<intent, clicks, consumed>> PROVE ClicksInv'
BY DEF ClicksInv, IntentsCount, EveryClickEndsOnce

LEMMA ClaimedKeeps == ASSUME ClicksInv, NEW m, Claimed(m), clicks' = clicks PROVE ClicksInv'
<1> DEFINE ended == consumed[m] + Cardinality(intent[m])
<1>1. intent' = [intent EXCEPT ![m] = {}] /\ consumed' = [consumed EXCEPT ![m] = ended]
  BY DEF Claimed
<1>2. CASE m \in Messages
  <2>1. ended \in Nat /\ ended = clicks[m]
    BY <1>2, CardinalityOfIntent
  <2> HIDE DEF ended
  <2> QED BY <1>1, <2>1, EndKeeps
<1>3. CASE m \notin Messages
  <2>1. intent' = intent /\ consumed' = consumed
    BY <1>1, <1>3 DEF ClicksInv, IntentsCount
  <2> QED BY <2>1, Untouched
<1> QED BY <1>2, <1>3

LEMMA EndIntentKeeps ==
    ASSUME ClicksInv, NEW p \in Passes, EndIntent(p), clicks' = clicks PROVE ClicksInv'
<1> DEFINE m == Row(p).message
<1>1. CASE m \notin Messages
  <2>1. intent' = intent /\ consumed' = consumed
    BY <1>1 DEF EndIntent, ClicksInv, IntentsCount
  <2> QED BY <2>1, Untouched
<1>2. CASE m \in Messages /\ ~StillThere(p)
  <2>1. intent' = intent /\ consumed' = consumed
    BY <1>2 DEF EndIntent, ClicksInv, IntentsCount
  <2> QED BY <2>1, Untouched
<1>3. CASE m \in Messages /\ StillThere(p)
  <2> DEFINE ended == consumed[m] + 1
  <2>1. intent[m] # {}
    BY <1>3 DEF StillThere
  <2>2. ended \in Nat /\ ended = clicks[m]
    BY <1>3, <2>1, CardinalityOfIntent
  <2>3. intent' = [intent EXCEPT ![m] = {}] /\ consumed' = [consumed EXCEPT ![m] = ended]
    BY <1>3 DEF EndIntent
  <2> HIDE DEF m, ended
  <2> QED BY <2>2, <2>3, EndKeeps
<1> QED BY <1>1, <1>2, <1>3

LEMMA PushKeeps == ASSUME ClicksInv, NEW p \in Passes, Push(p) PROVE ClicksInv'
<1> DEFINE m == Row(p).message
           new == IF StillThere(p) THEN {[i EXCEPT !.at = NextLook(p)] : i \in intent[m]} ELSE intent[m]
<1>1. intent' = [intent EXCEPT ![m] = new] /\ UNCHANGED <<clicks, consumed>>
  BY DEF Push
<1>2. CASE m \notin Messages
  <2>1. intent' = intent
    BY <1>1, <1>2 DEF ClicksInv, IntentsCount
  <2> QED BY <1>1, <2>1, Untouched
<1>3. CASE m \in Messages
  <2>1. (new = {} /\ intent[m] = {}) \/ \E i : new = {i} /\ intent[m] # {}
    <3>1. intent[m] = {} \/ \E i \in intent[m] : intent[m] = {i}
      BY <1>3 DEF ClicksInv, IntentsCount
    <3>2. CASE intent[m] = {}
      BY <3>2
    <3>3. CASE \E i \in intent[m] : intent[m] = {i}
      <4>1. PICK i : intent[m] = {i}
        BY <3>3
      <4>2. new = {[i EXCEPT !.at = NextLook(p)]} \/ new = {i}
        BY <4>1
      <4> QED BY <4>1, <4>2
    <3> QED BY <3>1, <3>2, <3>3
  <2>2. clicks[m] = consumed[m] + Cardinality(intent[m]) /\ clicks[m] \in Nat /\ consumed[m] \in Nat
    BY <1>3, CardinalityOfIntent
  <2>3. Cardinality(new) = Cardinality(intent[m])
    <3> HIDE DEF new, m
    <3> QED BY <1>3, <2>1, CardinalityOfIntent, NoneOrOne
  <2>4. clicks' = [clicks EXCEPT ![m] = clicks[m]] /\ consumed' = [consumed EXCEPT ![m] = consumed[m]]
    BY <1>1 DEF ClicksInv, IntentsCount
  <2>5. m \in Messages => /\ new = {} \/ \E i \in new : new = {i}
                          /\ clicks[m] = consumed[m] + Cardinality(new)
    BY <2>1, <2>2, <2>3
  <2>6. intent' = [intent EXCEPT ![m] = new]
    BY <1>1
  <2> HIDE DEF new, m
  <2> QED BY <2>2, <2>4, <2>5, <2>6, OneIntentWritten
<1> QED BY <1>2, <1>3

LEMMA OperatorKeeps == ASSUME ClicksInv, NEW m \in Messages, OperatorStep(m) PROVE ClicksInv'
<1>1. CASE ScheduleClick(m) \/ AutoSchedule(m)
  BY <1>1, ScheduleKeeps DEF ScheduleClick, AutoSchedule
<1>2. CASE Cancel(m)
  <2> DEFINE ended == consumed[m] + 1
  <2>1. intent[m] # {} /\ intent' = [intent EXCEPT ![m] = {}]
        /\ consumed' = [consumed EXCEPT ![m] = ended] /\ clicks' = clicks
    BY <1>2 DEF Cancel
  <2>2. ended \in Nat /\ ended = clicks[m]
    BY <2>1, CardinalityOfIntent
  <2> HIDE DEF ended
  <2> QED BY <2>1, <2>2, EndKeeps
<1>3. CASE SendNow(m)
  BY <1>3, ClaimedKeeps DEF SendNow
<1>4. CASE Activity(m) \/ Close(m)
  BY <1>4, Untouched DEF Activity, Close
<1> QED BY <1>1, <1>2, <1>3, <1>4 DEF OperatorStep

LEMMA PassKeeps == ASSUME ClicksInv, NEW p \in Passes, PassStep(p) PROVE ClicksInv'
<1>1. CASE Expire(p) \/ GiveUp(p) \/ Take(p)
  BY <1>1, EndIntentKeeps DEF Expire, GiveUp, Take
<1>2. CASE Push(p)
  BY <1>2, PushKeeps
<1>3. CASE Send(p)
  <2>1. clicks' = clicks /\ (Claimed(Row(p).message) \/ UNCHANGED <<intent, consumed>>)
    BY <1>3 DEF Send
  <2> QED BY <2>1, ClaimedKeeps, Untouched
<1>4. CASE PassBegins(p) \/ Judge(p) \/ OverLimit(p) \/ PassDies(p)
  BY <1>4, Untouched DEF PassBegins, Judge, OverLimit, PassDies
<1> QED BY <1>1, <1>2, <1>3, <1>4 DEF PassStep

LEMMA ClicksStep == ClicksInv /\ [ScheduleNext]_scheduleVars => ClicksInv'
<1> SUFFICES ASSUME ClicksInv, [ScheduleNext]_scheduleVars PROVE ClicksInv'
  OBVIOUS
<1>1. CASE Tick \/ UNCHANGED scheduleVars
  BY <1>1, Untouched DEF Tick, scheduleVars
<1> QED BY <1>1, OperatorKeeps, PassKeeps DEF ScheduleNext

\* Every intent ends once: whoever says he cancelled, took or ended one did, and
\* nobody else says it of the same intent, however passes, clicks and sends
\* overlap (scheduleSendIntent, cancelSendIntent, clearIntent, the claim).
THEOREM ClicksEndOnce == ScheduleSpec => []EveryClickEndsOnce
<1>1. ClicksInv => EveryClickEndsOnce
  BY DEF ClicksInv
<1> QED BY <1>1, ClicksStep, ClicksInvInit, PTL DEF ScheduleSpec

\* What a pass under way knows, and how it stands to what was clicked since.
IntentRows == [at: Nat, expires: Int, by: {"operator", "button"}, clickedAt: Nat, click: Nat]
ReadRows == [message: Messages, read: IntentRows]
PassRows == [at: Nat, rows: Seq(ReadRows), step: {"off", "judge", "act", "send"},
             verdict: Codes, sent: Nat]

LaneTyped ==
    /\ now \in Nat /\ hours \in Settings
    /\ pass \in [Passes -> PassRows]
    /\ \A m \in Messages : intent[m] \subseteq IntentRows

\* An intent comes after its click, and what nobody asked for ends soon after.
IntentOK(i) ==
    /\ i.clickedAt <= i.at
    /\ i.by = "button" => i.expires <= i.clickedAt + 2 * AutoWithin

SameIntent(i, j) == i.click = j.click /\ i.clickedAt = j.clickedAt /\ i.expires = j.expires

\* What a pass has read was due when it began, and a click that is not the one it
\* read came later.
RowOK(pin, row) ==
    /\ IntentOK(row.read) /\ row.read.at <= pin
    /\ \A i \in intent[row.message] : SameIntent(i, row.read) \/ pin < i.clickedAt

\* A pass that is under way: it has not sent yet and is in time, or has; and what
\* it acts on had not run out when it began.
PassOK(row) ==
    row.step # "off" =>
        /\ row.at <= now
        /\ row.rows # <<>>
        /\ \A k \in 1..Len(row.rows) : RowOK(row.at, row.rows[k])
        /\ row.step = "send" => row.sent > 0
        /\ row.step # "send" /\ row.sent = 0 => now <= row.at + PassTime
        /\ row.step = "act" => row.at < Head(row.rows).read.expires

LaneInv ==
    /\ ClicksInv /\ LaneTyped
    /\ \A m \in Messages : \A i \in intent[m] : IntentOK(i)
    /\ \A p \in Passes : PassOK(pass[p])

LEMMA LaneNumbers ==
    /\ Recheck \in Nat \ {0} /\ AutoWithin \in Nat \ {0} /\ SendLimit \in Nat \ {0}
    /\ MailboxDelay \in Nat /\ ContactDelay \in Nat /\ PassTime \in Nat
    /\ LifetimeAfterOpening \in Nat /\ AnchorMax \in Nat
    /\ Calendars \subseteq Settings /\ IsFiniteSet(Messages)
<1>1. DayLength \in Nat /\ Grain \in Nat
  BY HoursAssumption DEF HoursAssumption
<1>2. LifetimeAfterOpening \in Nat
  BY <1>1 DEF LifetimeAfterOpening
<1> QED BY <1>2, ScheduleAssumption, CalendarAssumption
    DEF ScheduleAssumption, CalendarAssumption, AnchorMax

LEMMA LaneInvInit == ScheduleInit => LaneInv
<1> SUFFICES ASSUME ScheduleInit PROVE LaneInv
  OBVIOUS
<1>1. /\ intent = [m \in Messages |-> {}] /\ now = 0 /\ hours \in Calendars
      /\ pass = [p \in Passes |-> Idle]
  BY DEF ScheduleInit
<1>2. Idle \in PassRows /\ Idle.step = "off"
  BY DEF Idle, PassRows, Codes
<1>3. LaneTyped
  BY <1>1, <1>2, LaneNumbers DEF LaneTyped
<1>4. ClicksInv
  BY ClicksInvInit
<1>5. \A p \in Passes : PassOK(pass[p])
  BY <1>1, <1>2 DEF PassOK
<1> QED BY <1>1, <1>3, <1>4, <1>5 DEF LaneInv

\* What the calendar answers.
LEMMA OpensLater ==
    ASSUME hours \in Settings, NEW t \in Nat
    PROVE  /\ Opens(t) \in Nat \cup {NoOpening}
           /\ Opens(t) # NoOpening => /\ Opens(t) \in Nat /\ t <= Opens(t)
                                  /\ Opens(Opens(t)) = Opens(t)
<1> DEFINE found == Opens(t)
<1>1. \/ found = NoOpening
      \/ found \in Nat /\ t <= found /\ IsWithinWorkingHours(found, hours)
  BY WhatOpensIsOpen DEF Opens
<1>2. found \in Nat /\ IsWithinWorkingHours(found, hours) => Opens(found) = found
  BY WhatOpensIsOpen DEF Opens
<1> HIDE DEF found
<1>3. found \in Nat \cup {NoOpening}
      /\ (found # NoOpening => found \in Nat /\ t <= found /\ Opens(found) = found)
  BY <1>1, <1>2
<1> QED BY <1>3 DEF found

LEMMA Larger ==
    ASSUME NEW a \in Int, NEW b \in Int
    PROVE  /\ Most(a, b) \in {a, b} /\ a <= Most(a, b) /\ b <= Most(a, b)
           /\ Least(a, b) \in {a, b} /\ (a <= b => Most(a, b) = b)
BY DEF Most, Least

\* A lifetime is a number.
LEMMA Lifetimes ==
    ASSUME LaneTyped, NEW code
    PROVE  OperatorIntentLifetime(code) \in Int
<1>1. WorstConfiguredWait(code) \in Nat
  BY LaneNumbers DEF WorstConfiguredWait, Most
<1>2. Least(WorstConfiguredWait(code), AnchorMax) \in Nat
  BY <1>1, LaneNumbers DEF Least
<1> DEFINE reachable == Opens(now + Least(WorstConfiguredWait(code), AnchorMax))
<1>3. Opens(now) \in Int /\ reachable \in Int
  BY <1>2, OpensLater DEF LaneTyped, NoOpening
<1> HIDE DEF reachable
<1>4. Least(Most(0, reachable - Opens(now)), AnchorMax) \in Int
  BY <1>3, LaneNumbers DEF Least, Most
<1> QED BY <1>4, LaneNumbers DEF OperatorIntentLifetime, reachable

\* An intent is written that is the one a pass knew, or newer; the passes are
\* as they should be for what was there.
LEMMA LaneMoves ==
    ASSUME LaneInv, ClicksInv', now' = now, hours' = hours,
           pass' \in [Passes -> PassRows], \A p \in Passes : PassOK(pass'[p]),
           NEW m \in Messages, NEW new \in SUBSET IntentRows, intent' = [intent EXCEPT ![m] = new],
           \A i \in new : /\ IntentOK(i)
                          /\ \/ \E j \in intent[m] : SameIntent(i, j)
                             \/ \A p \in Passes : pass'[p].step # "off" => pass'[p].at < i.clickedAt
    PROVE  LaneInv'
<1>1. intent'[m] = new /\ \A n \in Messages : n # m => intent'[n] = intent[n]
  BY DEF LaneInv, ClicksInv, IntentsCount
<1>2. LaneTyped'
  BY <1>1 DEF LaneInv, LaneTyped
<1>3. \A n \in Messages : \A i \in intent'[n] : IntentOK(i)
  BY <1>1 DEF LaneInv
<1>4. ASSUME NEW p \in Passes PROVE PassOK(pass[p])'
  <2>1. SUFFICES ASSUME pass'[p].step # "off" PROVE PassOK(pass[p])'
    BY DEF PassOK
  <2>2. PassOK(pass'[p]) /\ pass'[p] \in PassRows
    OBVIOUS
  <2>3. ASSUME NEW k \in 1..Len(pass'[p].rows) PROVE RowOK(pass[p].at, pass[p].rows[k])'
    <3> DEFINE row == pass'[p].rows[k]
    <3>1. RowOK(pass'[p].at, row)
      BY <2>1, <2>2, <2>3 DEF PassOK
    <3>2. row.message \in Messages
      <4>1. pass'[p].rows \in Seq(ReadRows)
        BY <2>2 DEF PassRows
      <4>2. row \in ReadRows
        BY <4>1
      <4> QED BY <4>2 DEF ReadRows
    <3> HIDE DEF row
    <3>3. \A i \in intent'[row.message] : SameIntent(i, row.read) \/ pass'[p].at < i.clickedAt
      <4>1. CASE row.message = m
        BY <1>1, <2>1, <3>1, <4>1 DEF RowOK, SameIntent
      <4>2. CASE row.message # m
        BY <1>1, <3>1, <3>2, <4>2 DEF RowOK
      <4> QED BY <4>1, <4>2
    <3>4. IntentOK(row.read) /\ row.read.at <= pass'[p].at
      BY <3>1 DEF RowOK
    <3> QED BY <3>3, <3>4 DEF RowOK, row
  <2> QED BY <2>1, <2>2, <2>3 DEF PassOK
<1> QED BY <1>2, <1>3, <1>4 DEF LaneInv

\* The same, when no pass moves.
LEMMA RowsStay ==
    ASSUME LaneInv, ClicksInv', UNCHANGED <<now, hours, pass>>,
           NEW m \in Messages, NEW new \in SUBSET IntentRows, intent' = [intent EXCEPT ![m] = new],
           \A i \in new : /\ IntentOK(i)
                          /\ \/ \E j \in intent[m] : SameIntent(i, j)
                             \/ \A p \in Passes : pass[p].step # "off" => pass[p].at < i.clickedAt
    PROVE  LaneInv'
<1>1. pass' \in [Passes -> PassRows] /\ \A p \in Passes : PassOK(pass'[p])
  BY DEF LaneInv, LaneTyped
<1> QED BY <1>1, LaneMoves

\* One pass moves, no intent does.
LEMMA PassMoves ==
    ASSUME LaneInv, ClicksInv', UNCHANGED <<now, hours, intent>>,
           NEW p \in Passes, NEW row \in PassRows, PassOK(row), pass' = [pass EXCEPT ![p] = row]
    PROVE  LaneInv'
<1>1. pass' \in [Passes -> PassRows] /\ \A q \in Passes : PassOK(pass'[q])
  BY DEF LaneInv, LaneTyped
<1>2. \A q \in Passes : PassOK(pass[q])'
  BY <1>1 DEF PassOK, RowOK
<1> QED BY <1>1, <1>2 DEF LaneInv, LaneTyped

\* A click writes an intent that begins after it, to passes under way as well.
LEMMA ClickFits ==
    ASSUME LaneInv, NEW m \in Messages, NEW by \in {"operator", "button"},
           NEW notBefore \in Nat, NEW lifetime \in Int,
           ScheduleSendIntent(m, by, notBefore, lifetime), consumed' = consumed,
           UNCHANGED <<now, hours, pass>>,
           by = "button" => /\ now <= notBefore /\ notBefore - now <= AutoWithin
                            /\ Opens(notBefore) = notBefore /\ lifetime = AutoWithin
    PROVE  LaneInv'
<1> DEFINE at == Opens(Most(now, notBefore))
           new == [at |-> at, expires |-> at + lifetime,
                   by |-> by, clickedAt |-> now, click |-> clicks[m] + 1]
<1>1. ClicksInv /\ ClicksInv'
  BY ScheduleKeeps DEF LaneInv
<1>2. now \in Nat /\ hours \in Settings /\ Most(now, notBefore) \in Nat
      /\ now <= Most(now, notBefore)
  BY Larger DEF LaneInv, LaneTyped
<1>3. at \in Nat /\ now <= at
  <2>1. at # NoOpening
    BY DEF ScheduleSendIntent
  <2>2. at \in Nat /\ Most(now, notBefore) <= at
    BY <1>2, <2>1, OpensLater
  <2> HIDE DEF at
  <2> QED BY <1>2, <2>2
<1>4. by = "button" => at + lifetime <= now + 2 * AutoWithin
  <2> SUFFICES ASSUME by = "button" PROVE at + lifetime <= now + 2 * AutoWithin
    OBVIOUS
  <2>1. at = notBefore
    BY <1>2, Larger
  <2> HIDE DEF at
  <2> QED BY <1>2, <2>1, LaneNumbers
<1>5. clicks[m] + 1 \in Nat
  BY <1>1, CardinalityOfIntent
<1> HIDE DEF at
<1>6. new \in IntentRows /\ IntentOK(new) /\ new.clickedAt = now
  BY <1>2, <1>3, <1>4, <1>5 DEF IntentRows, IntentOK
<1>7. intent' = [intent EXCEPT ![m] = {new}]
      /\ \A p \in Passes : pass[p].step # "off" => pass[p].at < now
  BY DEF ScheduleSendIntent, at
<1> HIDE DEF new
<1>8. {new} \in SUBSET IntentRows
      /\ \A i \in {new} : IntentOK(i) /\ \A p \in Passes : pass[p].step # "off" => pass[p].at < i.clickedAt
  BY <1>6, <1>7
<1> QED BY <1>1, <1>7, <1>8, RowsStay

\* An intent that ends, and what leaves intents, passes and the clock alone.
LEMMA LaneEnds ==
    ASSUME LaneInv, ClicksInv', NEW m \in Messages, intent' = [intent EXCEPT ![m] = {}],
           UNCHANGED <<now, hours, pass>>
    PROVE  LaneInv'
<1>1. {} \in SUBSET IntentRows
  OBVIOUS
<1> QED BY <1>1, RowsStay

LEMMA LaneStays == ASSUME LaneInv, ClicksInv', UNCHANGED <<intent, now, hours, pass>> PROVE LaneInv'
BY DEF LaneInv, LaneTyped, PassOK, RowOK

LEMMA OperatorFits == ASSUME LaneInv, NEW m \in Messages, OperatorStep(m) PROVE LaneInv'
<1>1. ClicksInv /\ ClicksInv' /\ now \in Nat /\ hours \in Settings
  BY OperatorKeeps DEF LaneInv, LaneTyped
<1>2. CASE ScheduleClick(m)
  <2> DEFINE code == Verdict(m, now)
             lifetime == IF code \in Transient THEN OperatorIntentLifetime(code) ELSE LifetimeAfterOpening
  <2>1. lifetime \in Int
    BY Lifetimes, LaneNumbers DEF LaneInv
  <2>2. ScheduleSendIntent(m, "operator", now, lifetime) /\ UNCHANGED <<now, hours, consumed, pass>>
    BY <1>2 DEF ScheduleClick
  <2> HIDE DEF lifetime
  <2> QED BY <1>1, <2>1, <2>2, ClickFits
<1>3. CASE AutoSchedule(m)
  <2> DEFINE instant == NextLegalSendInstant(Verdict(m, now))
  <2>1. /\ ShouldAutoSchedule(instant) /\ ScheduleSendIntent(m, "button", instant, AutoWithin)
        /\ UNCHANGED <<now, hours, consumed, pass>>
    BY <1>3 DEF AutoSchedule
  <2>2. instant # NoOpening /\ instant - now <= AutoWithin
    BY <2>1 DEF ShouldAutoSchedule
  <2>3. PICK t \in Nat : now <= t /\ instant = Opens(t)
    <3>1. instant \in {Opens(now), Opens(now + MailboxDelay), Opens(now + ContactDelay)}
      BY <2>2, Zenon DEF NextLegalSendInstant
    <3>2. now + MailboxDelay \in Nat /\ now + ContactDelay \in Nat
          /\ now <= now + MailboxDelay /\ now <= now + ContactDelay /\ now <= now
      BY <1>1, LaneNumbers
    <3> HIDE DEF instant
    <3> QED BY <1>1, <3>1, <3>2
  <2> HIDE DEF instant
  <2>4. instant \in Nat /\ now <= instant /\ Opens(instant) = instant
    <3>1. instant \in Nat /\ t <= instant /\ Opens(instant) = instant
      BY <1>1, <2>2, <2>3, OpensLater
    <3> QED BY <1>1, <2>3, <3>1
  <2> QED BY <2>1, <2>2, <2>4, LaneNumbers, ClickFits
<1>4. CASE Cancel(m)
  BY <1>1, <1>4, LaneEnds DEF Cancel
<1>5. CASE SendNow(m)
  BY <1>1, <1>5, LaneEnds DEF SendNow, Claimed
<1>6. CASE Activity(m) \/ Close(m)
  BY <1>1, <1>6, LaneStays DEF Activity, Close
<1> QED BY <1>2, <1>3, <1>4, <1>5, <1>6 DEF OperatorStep

-----------------------------------------------------------------------------

LEMMA ShorterList ==
    ASSUME NEW S, NEW s \in Seq(S), s # <<>>, Len(s) # 1
    PROVE  /\ Tail(s) \in Seq(S) /\ Len(Tail(s)) = Len(s) - 1 /\ Tail(s) # <<>>
           /\ \A k \in 1..Len(Tail(s)) : k + 1 \in 1..Len(s) /\ Tail(s)[k] = s[k + 1]
<1>1. Len(s) \in Nat /\ Len(s) > 1
  BY EmptySeq
<1>2. Tail(s) \in Seq(S) /\ Len(Tail(s)) = Len(s) - 1
  BY HeadTailProperties
<1>3. Tail(s) # <<>>
  BY <1>1, <1>2
<1>4. \A k \in 1..(Len(s) - 1) : Tail(s)[k] = s[k + 1]
  BY HeadTailProperties
<1> QED BY <1>1, <1>2, <1>3, <1>4

LEMMA AfterRowFits ==
    ASSUME LaneInv, NEW p \in Passes, pass[p].step # "off"
    PROVE  AfterRow(pass[p]) \in PassRows /\ PassOK(AfterRow(pass[p]))
<1> DEFINE row == pass[p]
<1>1. row \in PassRows /\ PassOK(row)
  BY DEF LaneInv, LaneTyped
<1>2. row.rows \in Seq(ReadRows) /\ row.rows # <<>> /\ row.sent \in Nat /\ row.at \in Nat
  BY <1>1 DEF PassRows, PassOK
<1>3. CASE Len(row.rows) = 1
  BY <1>3 DEF AfterRow, Idle, PassRows, Codes, PassOK
<1>4. CASE Len(row.rows) # 1
  <2> DEFINE on == AfterRow(row)
  <2>1. on = [row EXCEPT !.rows = Tail(row.rows), !.step = "judge"]
    BY <1>4 DEF AfterRow
  <2>2. /\ Tail(row.rows) \in Seq(ReadRows) /\ Len(Tail(row.rows)) = Len(row.rows) - 1
        /\ Tail(row.rows) # <<>>
        /\ \A k \in 1..Len(Tail(row.rows)) : k + 1 \in 1..Len(row.rows) /\ Tail(row.rows)[k] = row.rows[k + 1]
    BY <1>2, <1>4, ShorterList
  <2> HIDE DEF row, on
  <2>3. on.at = row.at /\ on.rows = Tail(row.rows) /\ on.step = "judge" /\ on.sent = row.sent /\ on \in PassRows
    BY <1>1, <2>1, <2>2 DEF PassRows
  <2>4. row.step # "off"
    BY DEF row
  <2>5. \A k \in 1..Len(on.rows) : RowOK(on.at, on.rows[k])
    BY <1>1, <2>2, <2>3, <2>4 DEF PassOK
  <2>6. on.sent = 0 => now <= on.at + PassTime
    BY <1>1, <2>3, <2>4 DEF PassOK
  <2>7. on.at <= now /\ on.rows # <<>>
    BY <1>1, <2>2, <2>3, <2>4 DEF PassOK
  <2>8. PassOK(on)
    BY <2>3, <2>5, <2>6, <2>7 DEF PassOK
  <2> QED BY <2>3, <2>8 DEF on, row
<1> QED BY <1>3, <1>4

\* The list a pass begins with.
LEMMA BeginFits == ASSUME LaneInv, ClicksInv', NEW p \in Passes, PassBegins(p) PROVE LaneInv'
<1> DEFINE rows == UNION {{[message |-> m, read |-> i] : i \in intent[m]} : m \in Due}
<1>1. PICK list \in [1..Cardinality(rows) -> rows] :
        pass' = [pass EXCEPT ![p] = [at |-> now, rows |-> list, step |-> "judge",
                                     verdict |-> "ok", sent |-> 0]]
  BY DEF PassBegins
<1>2. ASSUME NEW row \in rows
      PROVE  row \in ReadRows /\ RowOK(now, row)
  <2>1. PICK m \in Due : \E i \in intent[m] : row = [message |-> m, read |-> i]
    BY <1>2
  <2>2. PICK i \in intent[m] : row = [message |-> m, read |-> i]
    BY <2>1
  <2>3. m \in Messages /\ \E j \in intent[m] : j.at <= now
    BY DEF Due
  <2>4. intent[m] = {i}
    BY <2>3 DEF LaneInv, ClicksInv, IntentsCount
  <2>5. i.at <= now /\ i \in IntentRows /\ IntentOK(i)
    BY <2>3, <2>4 DEF LaneInv, LaneTyped
  <2> QED BY <2>2, <2>3, <2>4, <2>5 DEF ReadRows, RowOK, SameIntent
<1>3. IsFiniteSet(rows) /\ rows # {}
  <2>1. rows = UNION {{[message |-> m, read |-> i] : i \in intent[m]} : m \in Due}
    OBVIOUS
  <2>0. ASSUME NEW m \in Due, NEW i \in intent[m] PROVE [message |-> m, read |-> i] \in rows
    <3>1. [message |-> m, read |-> i] \in {[message |-> m, read |-> j] : j \in intent[m]}
      OBVIOUS
    <3> QED BY <3>1, Zenon
  <2>2. IsFiniteSet(Due)
    BY LaneNumbers, FS_Subset DEF Due
  <2> DEFINE First == [m \in Due |-> [message |-> m, read |-> CHOOSE i : i \in intent[m]]]
  <2>3. \A m \in Due : \E i : intent[m] = {i} /\ First[m] = [message |-> m, read |-> i]
    <3> TAKE m \in Due
    <3>1. PICK i \in intent[m] : intent[m] = {i}
      BY DEF Due, LaneInv, ClicksInv, IntentsCount
    <3>2. (CHOOSE j : j \in intent[m]) = i
      BY <3>1
    <3> QED BY <3>1, <3>2
  <2>4. First \in Surjection(Due, rows)
    <3>1. \A m \in Due : First[m] \in rows
      <4> HIDE DEF First, rows
      <4> TAKE m \in Due
      <4>1. PICK i : intent[m] = {i} /\ First[m] = [message |-> m, read |-> i]
        BY <2>3
      <4>2. i \in intent[m]
        BY <4>1
      <4>3. [message |-> m, read |-> i] \in rows
        BY <2>0, <4>2
      <4> QED BY <4>1, <4>3
    <3>2. \A row \in rows : \E m \in Due : First[m] = row
      BY <2>3
    <3>3. First \in [Due -> rows]
      BY <3>1
    <3> HIDE DEF First, rows
    <3> QED BY <3>2, <3>3 DEF Surjection
  <2>5. IsFiniteSet(rows)
    <3> HIDE DEF First, rows
    <3> QED BY <2>2, <2>4, FS_Surjection
  <2>6. rows # {}
    <3>1. PICK m \in Due : TRUE
      BY DEF PassBegins
    <3>2. \E i : i \in intent[m]
      BY DEF Due
    <3> HIDE DEF rows
    <3> QED BY <2>0, <3>2
  <2> QED BY <2>5, <2>6
<1> HIDE DEF rows
<1>4. Cardinality(rows) \in Nat \ {0}
  BY <1>3, FS_CardinalityType, FS_EmptySet
<1>5. /\ list \in Seq(ReadRows) /\ Len(list) = Cardinality(rows) /\ list # <<>>
      /\ \A k \in 1..Len(list) : RowOK(now, list[k])
  <2>1. list \in Seq(ReadRows) /\ Len(list) = Cardinality(rows)
    BY <1>2, <1>4
  <2> QED BY <1>2, <1>4, <2>1
<1> DEFINE new == [at |-> now, rows |-> list, step |-> "judge", verdict |-> "ok", sent |-> 0]
<1>7. now \in Nat
  BY DEF LaneInv, LaneTyped
<1>8. new \in PassRows
  BY <1>5, <1>7 DEF PassRows, Codes
<1>9. PassOK(new)
  BY <1>5, <1>7, LaneNumbers DEF PassOK
<1>10. UNCHANGED <<now, hours, intent>>
  BY DEF PassBegins
<1> HIDE DEF new
<1> QED BY <1>1, <1>8, <1>9, <1>10, PassMoves DEF new

\* What a pass writes to the intent it is at.
LEMMA WriteFits ==
    ASSUME LaneInv, ClicksInv', UNCHANGED <<now, hours>>, NEW p \in Passes, pass[p].step # "off",
           NEW m \in Messages, NEW new \in SUBSET IntentRows, intent' = [intent EXCEPT ![m] = new],
           \A i \in new : IntentOK(i) /\ \E j \in intent[m] : SameIntent(i, j),
           NEW row \in PassRows, PassOK(row), pass' = [pass EXCEPT ![p] = row]
    PROVE  LaneInv'
<1>1. pass' \in [Passes -> PassRows] /\ \A q \in Passes : PassOK(pass'[q])
  BY DEF LaneInv, LaneTyped
<1>2. \A i \in new : /\ IntentOK(i)
                     /\ \/ \E j \in intent[m] : SameIntent(i, j)
                        \/ \A q \in Passes : pass'[q].step # "off" => pass'[q].at < i.clickedAt
  OBVIOUS
<1>3. now' = now /\ hours' = hours
  OBVIOUS
<1> QED BY <1>1, <1>2, <1>3, LaneMoves

\* What a pass is at: the row it read, and what stands there if it is still that
\* one.
LEMMA AtRow ==
    ASSUME LaneInv, NEW p \in Passes, pass[p].step # "off"
    PROVE  /\ Row(p).message \in Messages /\ Row(p).read \in IntentRows
           /\ RowOK(pass[p].at, Row(p)) /\ pass[p].at \in Nat
           /\ StillThere(p) => \E i \in intent[Row(p).message] :
                 /\ intent[Row(p).message] = {i} /\ SameIntent(i, Row(p).read) /\ i.at = Row(p).read.at
                 /\ i \in IntentRows /\ IntentOK(i) /\ i.clickedAt <= pass[p].at
<1>1. pass[p] \in PassRows /\ PassOK(pass[p])
  BY DEF LaneInv, LaneTyped
<1>2. pass[p].rows \in Seq(ReadRows) /\ pass[p].rows # <<>> /\ pass[p].at \in Nat
  BY <1>1 DEF PassRows, PassOK
<1>3. Row(p) = pass[p].rows[1] /\ 1 \in 1..Len(pass[p].rows)
  BY <1>2, EmptySeq DEF Row
<1>4. RowOK(pass[p].at, Row(p)) /\ Row(p) \in ReadRows
  BY <1>1, <1>2, <1>3 DEF PassOK
<1>5. Row(p).message \in Messages /\ Row(p).read \in IntentRows
  BY <1>4 DEF ReadRows
<1>6. ASSUME StillThere(p)
      PROVE  \E i \in intent[Row(p).message] :
                 /\ intent[Row(p).message] = {i} /\ SameIntent(i, Row(p).read) /\ i.at = Row(p).read.at
                 /\ i \in IntentRows /\ IntentOK(i) /\ i.clickedAt <= pass[p].at
  <2>1. PICK i \in intent[Row(p).message] : i.at = Row(p).read.at
    BY <1>6 DEF StillThere
  <2>2. intent[Row(p).message] = {i}
    BY <1>5 DEF LaneInv, ClicksInv, IntentsCount
  <2>3. i \in IntentRows /\ IntentOK(i)
    BY <1>5 DEF LaneInv, LaneTyped
  <2>4. i.clickedAt <= i.at /\ i.at <= pass[p].at /\ i.clickedAt \in Nat /\ i.at \in Nat
    BY <1>4, <2>1, <2>3 DEF IntentOK, RowOK, IntentRows
  <2>5. i.clickedAt <= pass[p].at /\ ~(pass[p].at < i.clickedAt)
    BY <1>2, <2>4
  <2>6. SameIntent(i, Row(p).read)
    BY <1>4, <2>5 DEF RowOK
  <2> QED BY <2>1, <2>2, <2>3, <2>5, <2>6
<1> QED BY <1>2, <1>4, <1>5, <1>6

\* What stands in an intent may be written again.
LEMMA Standing ==
    ASSUME LaneInv, NEW m \in Messages
    PROVE  /\ {} \in SUBSET IntentRows /\ intent[m] \in SUBSET IntentRows
           /\ \A i \in intent[m] : IntentOK(i) /\ \E j \in intent[m] : SameIntent(i, j)
BY DEF LaneInv, LaneTyped, SameIntent

LEMMA EndFits ==
    ASSUME LaneInv, ClicksInv', UNCHANGED <<now, hours>>, NEW p \in Passes, pass[p].step # "off",
           EndIntent(p),
           NEW row \in PassRows, PassOK(row), pass' = [pass EXCEPT ![p] = row]
    PROVE  LaneInv'
<1> DEFINE m == Row(p).message
           new == IF StillThere(p) THEN {} ELSE intent[m]
<1>1. intent' = [intent EXCEPT ![m] = new] /\ m \in Messages
  BY AtRow DEF EndIntent
<1>2. /\ new \in SUBSET IntentRows
      /\ \A i \in new : IntentOK(i) /\ \E j \in intent[m] : SameIntent(i, j)
  BY <1>1, Standing
<1> HIDE DEF m, new
<1> QED BY <1>1, <1>2, WriteFits

\* A refused send is looked at again, later.
LEMMA PushFits == ASSUME LaneInv, ClicksInv', NEW p \in Passes, Push(p) PROVE LaneInv'
<1> DEFINE m == Row(p).message
           look == NextLook(p)
           new == IF StillThere(p) THEN {[i EXCEPT !.at = look] : i \in intent[m]} ELSE intent[m]
<1>1. /\ pass[p].step = "act" /\ intent' = [intent EXCEPT ![m] = new]
      /\ pass' = [pass EXCEPT ![p] = AfterRow(pass[p])] /\ UNCHANGED <<now, hours>>
  <2>1. pass[p].step = "act" /\ NextRow(p) /\ UNCHANGED <<now, hours>>
        /\ intent' = [intent EXCEPT ![m] = new]
    BY DEF Push
  <2> QED BY <2>1, Zenon DEF NextRow
<1>2. AfterRow(pass[p]) \in PassRows /\ PassOK(AfterRow(pass[p])) /\ m \in Messages /\ pass[p].at \in Nat
  BY <1>1, AfterRowFits, AtRow
<1>3. look \in Nat /\ pass[p].at <= look
  <2>1. pass[p].at + Recheck \in Nat /\ pass[p].at <= pass[p].at + Recheck
    BY <1>2, LaneNumbers
  <2>2. Opens(pass[p].at + Recheck) \in Int
    BY <2>1, OpensLater DEF LaneInv, LaneTyped, NoOpening
  <2>3. look \in Int /\ pass[p].at + Recheck <= look
    BY <2>1, <2>2, Larger DEF NextLook
  <2> HIDE DEF look
  <2> QED BY <1>2, <2>1, <2>3
<1>4. /\ new \in SUBSET IntentRows
      /\ \A i \in new : IntentOK(i) /\ \E j \in intent[m] : SameIntent(i, j)
  <2>1. CASE StillThere(p)
    <3>1. PICK i \in intent[m] : /\ intent[m] = {i} /\ i \in IntentRows /\ IntentOK(i)
                                /\ i.clickedAt <= pass[p].at
      BY <1>1, <2>1, AtRow
    <3> DEFINE next == [i EXCEPT !.at = look]
    <3>2. new = {next}
      BY <2>1, <3>1
    <3> HIDE DEF look
    <3>3. next.at = look /\ next.clickedAt = i.clickedAt /\ next.click = i.click /\ next.by = i.by
          /\ next.expires = i.expires /\ next \in IntentRows
      BY <1>3, <3>1 DEF IntentRows
    <3>4. i.clickedAt <= look
      BY <1>2, <1>3, <3>1 DEF IntentRows
    <3>5. IntentOK(next)
      BY <3>1, <3>3, <3>4 DEF IntentOK
    <3> HIDE DEF next, new, m
    <3> QED BY <3>1, <3>2, <3>3, <3>5 DEF SameIntent
  <2>2. CASE ~StillThere(p)
    <3>1. new = intent[m]
      BY <2>2
    <3> HIDE DEF new, m
    <3> QED BY <1>2, <3>1, Standing
  <2> QED BY <2>1, <2>2
<1> HIDE DEF m, new, look
<1> QED BY <1>1, <1>2, <1>4, WriteFits

\* The intent is taken: the pass is about to send, for the first time or again.
LEMMA TakeFits == ASSUME LaneInv, ClicksInv', NEW p \in Passes, Take(p) PROVE LaneInv'
<1> DEFINE row == [pass[p] EXCEPT !.step = "send", !.sent = pass[p].sent + 1]
<1>1. /\ pass[p].step = "act" /\ EndIntent(p) /\ UNCHANGED <<now, hours>>
      /\ pass' = [pass EXCEPT ![p] = IF StillThere(p) THEN row ELSE AfterRow(pass[p])]
  <2>1. /\ pass[p].step = "act" /\ EndIntent(p) /\ UNCHANGED <<now, hours>>
        /\ IF StillThere(p) THEN pass' = [pass EXCEPT ![p].step = "send", ![p].sent = @ + 1]
           ELSE NextRow(p)
    BY DEF Take
  <2>2. CASE StillThere(p)
    <3>1. pass' = [pass EXCEPT ![p].step = "send", ![p].sent = @ + 1]
      BY <2>1, <2>2
    <3>2. pass' = [pass EXCEPT ![p] = row]
      BY <3>1 DEF LaneInv, LaneTyped
    <3> QED BY <2>1, <2>2, <3>2
  <2>3. CASE ~StillThere(p)
    BY <2>1, <2>3, Zenon DEF NextRow
  <2> QED BY <2>2, <2>3
<1>2. AfterRow(pass[p]) \in PassRows /\ PassOK(AfterRow(pass[p]))
  BY <1>1, AfterRowFits
<1>3. row \in PassRows /\ PassOK(row)
  <2> DEFINE old == pass[p]
  <2>1. old \in PassRows /\ PassOK(old) /\ old.step = "act" /\ old.sent + 1 \in Nat /\ old.sent + 1 > 0
    BY <1>1 DEF LaneInv, LaneTyped, PassRows
  <2>2. row = [old EXCEPT !.step = "send", !.sent = old.sent + 1]
    OBVIOUS
  <2> HIDE DEF old, row
  <2>3. row.at = old.at /\ row.rows = old.rows /\ row.step = "send" /\ row.sent = old.sent + 1 /\ row \in PassRows
    BY <2>1, <2>2 DEF PassRows
  <2> QED BY <2>1, <2>3 DEF PassOK
<1> DEFINE next == IF StillThere(p) THEN row ELSE AfterRow(pass[p])
<1>4. next \in PassRows /\ PassOK(next) /\ pass' = [pass EXCEPT ![p] = next]
  BY <1>1, <1>2, <1>3
<1> HIDE DEF next, row
<1> QED BY <1>1, <1>4, EndFits

LEMMA JudgeFits ==
    ASSUME LaneInv, ClicksInv', NEW p \in Passes, Judge(p), ~Lapsed(p) PROVE LaneInv'
<1> DEFINE old == pass[p]
           verdict == Verdict(Row(p).message, pass[p].at)
           row == [old EXCEPT !.step = "act", !.verdict = verdict]
<1>1. old \in PassRows /\ PassOK(old) /\ old.step = "judge" /\ UNCHANGED <<now, hours, intent>>
  BY DEF LaneInv, LaneTyped, Judge
<1>2. verdict \in Codes
  BY DEF Verdict, Codes, Transient
<1>3. pass' = [pass EXCEPT ![p] = row]
  BY DEF Judge, LaneInv, LaneTyped
<1>4. old.at < Head(old.rows).read.expires
  <2>1. Row(p).read \in IntentRows /\ old.at \in Nat
    BY <1>1, AtRow
  <2>2. Row(p).read.expires \in Int /\ ~(Row(p).read.expires <= old.at)
    BY <2>1 DEF IntentRows, Lapsed
  <2> HIDE DEF old
  <2>3. old.at < Row(p).read.expires
    BY <2>1, <2>2
  <2> QED BY <2>3 DEF Row, old
<1> HIDE DEF old, verdict
<1>5. row.at = old.at /\ row.rows = old.rows /\ row.step = "act" /\ row.sent = old.sent /\ row \in PassRows
  BY <1>1, <1>2 DEF PassRows
<1> HIDE DEF row
<1>6. PassOK(row)
  BY <1>1, <1>4, <1>5 DEF PassOK
<1> QED BY <1>1, <1>3, <1>5, <1>6, PassMoves

\* The attempt may use up what stands, and the pass goes on.
LEMMA SendFits == ASSUME LaneInv, ClicksInv', NEW p \in Passes, Send(p) PROVE LaneInv'
<1> DEFINE m == Row(p).message
           new == IF Verdict(m, now) = "ok" THEN {} ELSE intent[m]
<1>1. /\ pass[p].step = "send" /\ UNCHANGED <<now, hours>>
      /\ pass' = [pass EXCEPT ![p] = AfterRow(pass[p])]
  BY DEF Send, NextRow
<1>2. m \in Messages /\ intent = [n \in Messages |-> intent[n]]
  BY <1>1, AtRow DEF LaneInv, ClicksInv, IntentsCount
<1>3. intent' = [intent EXCEPT ![m] = new]
  <2>1. IF Verdict(m, now) = "ok" THEN intent' = [intent EXCEPT ![m] = {}] ELSE intent' = intent
    BY DEF Send, Claimed
  <2> HIDE DEF m
  <2> QED BY <1>2, <2>1
<1>4. /\ new \in SUBSET IntentRows
      /\ \A i \in new : IntentOK(i) /\ \E j \in intent[m] : SameIntent(i, j)
  BY <1>2, Standing
<1>5. AfterRow(pass[p]) \in PassRows /\ PassOK(AfterRow(pass[p]))
  BY <1>1, AfterRowFits
<1> HIDE DEF m, new
<1> QED BY <1>1, <1>2, <1>3, <1>4, <1>5, WriteFits

LEMMA PassFits == ASSUME LaneInv, ClicksInv', NEW p \in Passes, PassStep(p) PROVE LaneInv'
<1>1. CASE PassBegins(p)
  BY <1>1, BeginFits
<1>2. CASE ~(pass[p].step = "judge" /\ Lapsed(p)) /\ Judge(p)
  BY <1>2, JudgeFits DEF Judge
<1>3. CASE Expire(p) \/ GiveUp(p)
  <2>1. pass[p].step # "off" /\ EndIntent(p) /\ UNCHANGED <<now, hours>>
        /\ pass' = [pass EXCEPT ![p] = AfterRow(pass[p])]
    BY <1>3 DEF Expire, GiveUp, NextRow
  <2> QED BY <2>1, AfterRowFits, EndFits
<1>4. CASE Push(p)
  BY <1>4, PushFits
<1>5. CASE OverLimit(p)
  <2>1. pass[p].step # "off" /\ UNCHANGED <<now, hours, intent>>
        /\ pass' = [pass EXCEPT ![p] = AfterRow(pass[p])]
    BY <1>5 DEF OverLimit, NextRow
  <2> QED BY <2>1, AfterRowFits, PassMoves
<1>6. CASE Take(p)
  BY <1>6, TakeFits
<1>7. CASE Send(p)
  BY <1>7, SendFits
<1>8. CASE PassDies(p)
  <2>1. Idle \in PassRows /\ PassOK(Idle)
    BY DEF Idle, PassRows, Codes, PassOK
  <2>2. pass' = [pass EXCEPT ![p] = Idle] /\ UNCHANGED <<now, hours, intent>>
    BY <1>8 DEF PassDies
  <2> QED BY <2>1, <2>2, PassMoves
<1> QED BY <1>1, <1>2, <1>3, <1>4, <1>5, <1>6, <1>7, <1>8 DEF PassStep

LEMMA TickFits == ASSUME LaneInv, ClicksInv', Tick PROVE LaneInv'
<1>1. /\ now' = now + 1 /\ UNCHANGED <<hours, intent, pass>>
      /\ \A p \in Passes : pass[p].step \in {"judge", "act"} => now < pass[p].at + PassTime
  BY DEF Tick
<1>2. now \in Nat /\ now' \in Nat
  BY <1>1 DEF LaneInv, LaneTyped
<1>3. ASSUME NEW p \in Passes PROVE PassOK(pass[p])'
  <2> DEFINE row == pass[p]
  <2>1. row \in PassRows /\ PassOK(row) /\ row' = row
    BY <1>1 DEF LaneInv, LaneTyped
  <2>2. row.at \in Nat /\ row.step \in {"off", "judge", "act", "send"}
    BY <2>1 DEF PassRows
  <2>3. row.step \in {"judge", "act"} => now < row.at + PassTime
    BY <1>1
  <2>4. \A k \in 1..Len(row.rows) : RowOK(row.at, row.rows[k]) => RowOK(row.at, row.rows[k])'
    BY <1>1 DEF RowOK
  <2> HIDE DEF row
  <2>5. SUFFICES ASSUME row.step # "off" PROVE PassOK(row)'
    BY <2>1 DEF PassOK, row
  <2>6. now' <= row.at + PassTime \/ row.step = "send"
    BY <1>1, <1>2, <2>2, <2>3, <2>5, LaneNumbers
  <2>7. row.at <= now'
    BY <1>1, <1>2, <2>1, <2>2, <2>5 DEF PassOK
  <2> QED BY <2>1, <2>4, <2>5, <2>6, <2>7 DEF PassOK
<1> QED BY <1>1, <1>2, <1>3 DEF LaneInv, LaneTyped

LEMMA LaneStep == LaneInv /\ [ScheduleNext]_scheduleVars => LaneInv'
<1> SUFFICES ASSUME LaneInv, [ScheduleNext]_scheduleVars PROVE LaneInv'
  OBVIOUS
<1>1. ClicksInv'
  BY ClicksStep DEF LaneInv
<1>2. CASE \E m \in Messages : OperatorStep(m)
  BY <1>2, OperatorFits
<1>3. CASE \E p \in Passes : PassStep(p)
  BY <1>1, <1>3, PassFits
<1>4. CASE Tick
  BY <1>1, <1>4, TickFits
<1>5. CASE UNCHANGED scheduleVars
  BY <1>1, <1>5, LaneStays DEF scheduleVars
<1> QED BY <1>2, <1>3, <1>4, <1>5 DEF ScheduleNext

LEMMA LaneInvariance == ScheduleSpec => []LaneInv
BY LaneStep, LaneInvInit, PTL DEF ScheduleSpec

\* Wherever the lane is in time and whatever the operator's settings, the search
\* for the next opening answers like a search instant by instant.
THEOREM TheSearchStaysExact ==
    ASSUME WeekDays <= 15
    PROVE  ScheduleSpec => []SearchIsExact
<1>1. ASSUME LaneInv PROVE SearchIsExact
  <2>1. now \in Nat /\ hours \in Settings
    BY <1>1 DEF LaneInv, LaneTyped
  <2> QED BY <2>1, TheSearchIsExact, Zenon DEF SearchIsExact
<1> QED BY <1>1, LaneInvariance, PTL

\* Which steps move a pass: its own.
LEMMA OwnStep ==
    ASSUME LaneInv, [ScheduleNext]_scheduleVars, NEW p \in Passes, pass'[p] # pass[p]
    PROVE  PassStep(p)
<1>1. \A m \in Messages : OperatorStep(m) => pass' = pass
  BY DEF OperatorStep, ScheduleClick, AutoSchedule, Cancel, SendNow, Activity, Close
<1>2. ASSUME NEW q \in Passes, PassStep(q) PROVE q = p
  <2>1. \E row : pass' = [pass EXCEPT ![q] = row]
    <3>1. CASE PassBegins(q)
      BY <3>1, Zenon DEF PassBegins
    <3>2. CASE Judge(q)
      <4>1. pass' = [pass EXCEPT ![q] = [pass[q] EXCEPT !.step = "act", !.verdict = Verdict(Row(q).message, pass[q].at)]]
        BY <3>2 DEF Judge, LaneInv, LaneTyped
      <4> QED BY <4>1, Zenon
    <3>3. CASE NextRow(q)
      BY <3>3, Zenon DEF NextRow
    <3>4. CASE Take(q) /\ ~NextRow(q)
      <4>1. pass' = [pass EXCEPT ![q].step = "send", ![q].sent = @ + 1]
        BY <3>4 DEF Take
      <4>2. pass' = [pass EXCEPT ![q] = [pass[q] EXCEPT !.step = "send", !.sent = pass[q].sent + 1]]
        BY <4>1 DEF LaneInv, LaneTyped
      <4> QED BY <4>2, Zenon
    <3>5. CASE PassDies(q)
      BY <3>5, Zenon DEF PassDies
    <3> QED BY <1>2, <3>1, <3>2, <3>3, <3>4, <3>5 DEF PassStep, Expire, GiveUp, Push, OverLimit, Send
  <2>2. PICK row : pass' = [pass EXCEPT ![q] = row]
    BY <2>1
  <2> QED BY <2>2 DEF LaneInv, LaneTyped
<1> QED BY <1>1, <1>2 DEF ScheduleNext, scheduleVars, Tick

\* What a pass that looks or acts changes is the intent it read.
LEMMA OwnIntent ==
    ASSUME LaneInv, NEW p \in Passes, PassStep(p), pass[p].step \in {"judge", "act"},
           NEW i \in intent[Row(p).message], intent'[Row(p).message] # {i}
    PROVE  i.click = Row(p).read.click
<1>1. /\ Row(p).message \in Messages /\ intent[Row(p).message] = {i}
      /\ StillThere(p) => i.click = Row(p).read.click
  BY AtRow DEF LaneInv, ClicksInv, IntentsCount, SameIntent
<1>2. StillThere(p) \/ intent'[Row(p).message] = intent[Row(p).message]
  <2>1. CASE PassBegins(p) \/ Judge(p) \/ OverLimit(p) \/ PassDies(p)
    BY <2>1 DEF PassBegins, Judge, OverLimit, PassDies
  <2>2. CASE Expire(p) \/ GiveUp(p) \/ Take(p)
    BY <1>1, <2>2 DEF Expire, GiveUp, Take, EndIntent, LaneInv, ClicksInv, IntentsCount
  <2>3. CASE Push(p)
    BY <1>1, <2>3 DEF Push, LaneInv, ClicksInv, IntentsCount
  <2>4. CASE Send(p)
    BY <2>4 DEF Send
  <2> QED BY <2>1, <2>2, <2>3, <2>4 DEF PassStep
<1> QED BY <1>1, <1>2

\* What the operator cancelled and asked for again stands, whatever a pass under
\* way had read.
THEOREM NewIntentsSurvive == ScheduleSpec => NewIntentSurvives
<1>1. LaneInv /\ [ScheduleNext]_scheduleVars =>
        [\A p \in Passes :
            pass'[p] # pass[p] /\ pass[p].step \in {"judge", "act"} =>
                LET m == Row(p).message
                IN \A i \in intent[m] :
                    (intent'[m] # {i}) => (i.click = Row(p).read.click)]_scheduleVars
  BY OwnStep, OwnIntent
<1> QED BY <1>1, LaneInvariance, PTL DEF ScheduleSpec, NewIntentSurvives

\* With one delivery a pass, as the maintenance cycle has it, what the send button
\* took on without asking leaves within two hours of the click and the time of a
\* pass, or not at all.
THEOREM UnattendedSendsAreSoonAfter ==
    ASSUME SendLimit = 1
    PROVE  ScheduleSpec => UnattendedSendsAreSoon
<1>1. ASSUME LaneInv, [ScheduleNext]_scheduleVars, NEW p \in Passes,
             pass[p].step = "act", pass'[p].step = "send", Row(p).read.by = "button"
      PROVE  now <= Row(p).read.clickedAt + 2 * AutoWithin + PassTime
  <2>1. Take(p)
    <3>1. PassStep(p)
      BY <1>1, OwnStep
    <3>2. NextRow(p) => pass'[p].step # "send"
      <4>1. AfterRow(pass[p]).step # "send"
        <5>1. CASE Len(pass[p].rows) = 1
          BY <5>1 DEF AfterRow, Idle
        <5>2. CASE Len(pass[p].rows) # 1
          BY <1>1, <5>2 DEF AfterRow, LaneInv, LaneTyped, PassRows
        <5> QED BY <5>1, <5>2
      <4> QED BY <1>1, <4>1 DEF NextRow, LaneInv, LaneTyped
    <3>3. ~PassDies(p) /\ ~Judge(p) /\ ~PassBegins(p)
      BY <1>1 DEF PassDies, Idle, Judge, PassBegins, LaneInv, LaneTyped
    <3> QED BY <1>1, <3>1, <3>2, <3>3 DEF PassStep, Expire, GiveUp, Push, OverLimit, Send
  <2>2. pass[p].sent < 1
    BY <2>1 DEF Take
  <2>3. pass[p] \in PassRows /\ PassOK(pass[p]) /\ pass[p].sent \in Nat
    BY <1>1 DEF LaneInv, LaneTyped, PassRows
  <2>4. now <= pass[p].at + PassTime /\ pass[p].at < Row(p).read.expires
    BY <1>1, <2>2, <2>3 DEF PassOK, Row
  <2>5. /\ Row(p).read \in IntentRows /\ IntentOK(Row(p).read) /\ pass[p].at \in Nat
    BY <1>1, AtRow DEF RowOK
  <2>6. Row(p).read.expires <= Row(p).read.clickedAt + 2 * AutoWithin
    BY <1>1, <2>5 DEF IntentOK
  <2>7. Row(p).read.expires \in Int /\ Row(p).read.clickedAt \in Nat /\ now \in Nat
    BY <1>1, <2>5 DEF IntentRows, LaneInv, LaneTyped
  <2> QED BY <2>4, <2>5, <2>6, <2>7, LaneNumbers
<1>2. LaneInv /\ [ScheduleNext]_scheduleVars =>
        [\A p \in Passes :
            pass[p].step = "act" /\ pass'[p].step = "send" /\ Row(p).read.by = "button" =>
                (now <= Row(p).read.clickedAt + 2 * AutoWithin + PassTime)]_scheduleVars
  BY <1>1
<1> QED BY <1>2, LaneInvariance, PTL DEF ScheduleSpec, UnattendedSendsAreSoon

-----------------------------------------------------------------------------
(* What the schedule button promises (ScheduledSends). *)

\* The longest wait the settings ask for, the cap's own day apart.
WorstWait == Most(MailboxDelay, ContactDelay)

\* Settings and constants the promise holds for: looks come within a day, and the
\* cap's day is no longer than the longest delay, which is a week at most.
WaitsFit ==
    /\ WeekDays <= 15
    /\ Recheck <= LifetimeAfterOpening
    /\ LifetimeAfterOpening <= WorstWait /\ WorstWait <= AnchorMax

EndsBy(m, t) == block[m].cap <= t /\ block[m].mailbox <= t /\ block[m].contact <= t

\* No refusal that time lifts lasts longer than that.
BlocksInv ==
    /\ status = [m \in Messages |-> status[m]] /\ block = [m \in Messages |-> block[m]]
    /\ \A m \in Messages :
        /\ block[m].cap \in Nat /\ block[m].mailbox \in Nat /\ block[m].contact \in Nat
        /\ EndsBy(m, now + WorstWait)

\* A promised intent is looked at while the window is open, before it ends, and
\* outlives by one look whatever refused the message at the click.
InTime(m, i) ==
    /\ now <= i.at /\ i.at < i.expires
    /\ IsWithinWorkingHours(i.at, hours) \/ Opens(i.at) = NoOpening
    /\ EndsBy(m, i.clickedAt + WorstWait)
    /\ i.clickedAt + WorstWait + Recheck <= i.expires

PromisesHold ==
    /\ promised \subseteq Messages
    /\ \A m \in promised : status[m] = "approved" /\ \A i \in intent[m] : InTime(m, i)

\* What a verdict says is still so when the pass acts on it.
Delays == Transient \ {"OUTSIDE_WORKING_HOURS"}
VerdictStands(p, m, verdict) ==
    /\ verdict = "permanent" => status[m] # "approved"
    /\ verdict = "OUTSIDE_WORKING_HOURS" => ~IsWithinWorkingHours(pass[p].at, hours)
    /\ verdict \in Delays /\ m \in promised =>
          \A i \in intent[m] : pass[p].at < i.clickedAt + WorstWait
VerdictsStand ==
    \A p \in Passes : pass[p].step = "act" => VerdictStands(p, Row(p).message, pass[p].verdict)

PromiseInv == LaneInv /\ BlocksInv /\ PromisesHold /\ VerdictsStand

LEMMA Waits ==
    ASSUME WaitsFit
    PROVE  /\ WorstWait \in Nat /\ LifetimeAfterOpening \in Nat \ {0} /\ AnchorMax \in Nat
           /\ Recheck \in Nat \ {0} /\ WeekDays <= 15
           /\ Recheck <= LifetimeAfterOpening /\ LifetimeAfterOpening <= WorstWait
           /\ WorstWait <= AnchorMax
           /\ MailboxDelay <= WorstWait /\ ContactDelay <= WorstWait
           /\ SearchHorizon \in Nat /\ Recheck <= SearchHorizon
<1>1. WorstWait \in Nat /\ MailboxDelay <= WorstWait /\ ContactDelay <= WorstWait
  BY LaneNumbers DEF WorstWait, Most
<1>2. DayLength \in Nat \ {0} /\ WeekDays \in Nat \ {0} /\ Grain \in Nat \ {0}
  BY HoursAssumption DEF HoursAssumption
<1>3. LifetimeAfterOpening \in Nat \ {0}
  <2>1. Grain * DayLength >= Grain
    BY <1>2
  <2> QED BY <1>2, <2>1 DEF LifetimeAfterOpening
<1>4. SearchHorizon \in Nat /\ LifetimeAfterOpening <= SearchHorizon
  <2>1. Grain * (WeekLength + DayLength) = Grain * WeekLength + Grain * DayLength
        /\ WeekLength \in Nat
    BY <1>2 DEF WeekLength
  <2>2. Grain * WeekLength \in Nat /\ Grain * DayLength \in Nat
    BY <1>2, <2>1
  <2> QED BY <2>1, <2>2 DEF SearchHorizon, LifetimeAfterOpening
<1>5. /\ Recheck <= LifetimeAfterOpening /\ LifetimeAfterOpening <= WorstWait
      /\ WorstWait <= AnchorMax /\ WeekDays <= 15
  BY DEF WaitsFit
<1>6. Recheck \in Nat \ {0} /\ AnchorMax \in Nat
  BY LaneNumbers
<1>7. Recheck <= SearchHorizon
  BY <1>3, <1>4, <1>5, <1>6
<1> QED BY <1>1, <1>3, <1>4, <1>5, <1>6, <1>7

\* What a verdict says at its instant.
LEMMA VerdictMeans ==
    ASSUME NEW m, NEW t
    PROVE  /\ Verdict(m, t) = "permanent" => status[m] # "approved"
           /\ Verdict(m, t) = "OUTSIDE_WORKING_HOURS" => ~IsWithinWorkingHours(t, hours)
           /\ Verdict(m, t) \in Delays =>
                t < block[m].cap \/ t < block[m].mailbox \/ t < block[m].contact
<1> DEFINE open == IsWithinWorkingHours(t, hours)
           approved == status[m] = "approved"
           delayed == IF t < block[m].cap THEN "DAILY_CAP_REACHED"
                      ELSE IF t < block[m].mailbox THEN "MAILBOX_MINIMUM_DELAY"
                      ELSE IF t < block[m].contact THEN "CONTACT_MINIMUM_DELAY" ELSE "ok"
<1>1. Verdict(m, t) = CASE ~approved -> "permanent"
                        [] ~open /\ approved -> "OUTSIDE_WORKING_HOURS"
                        [] OTHER -> delayed
  BY Zenon DEF Verdict
<1>2. delayed \in {"ok", "DAILY_CAP_REACHED", "MAILBOX_MINIMUM_DELAY", "CONTACT_MINIMUM_DELAY"}
      /\ (delayed # "ok" => t < block[m].cap \/ t < block[m].mailbox \/ t < block[m].contact)
  OBVIOUS
<1> HIDE DEF open, delayed
<1>3. CASE ~approved
  BY <1>1, <1>3 DEF Delays, Transient
<1>4. CASE approved /\ ~open
  BY <1>1, <1>4 DEF Delays, Transient, open
<1>5. CASE approved /\ open
  BY <1>1, <1>2, <1>5 DEF Delays, Transient
<1> QED BY <1>3, <1>4, <1>5

\* What is looked at next is open, or nothing opens from there.
LEMMA OpensOpen ==
    ASSUME hours \in Settings, NEW t \in Nat
    PROVE  /\ Opens(t) # NoOpening => IsWithinWorkingHours(Opens(t), hours)
           /\ IsWithinWorkingHours(t, hours) => Opens(t) = t
<1> DEFINE found == Opens(t)
<1>1. /\ found = NoOpening \/ IsWithinWorkingHours(found, hours)
      /\ IsWithinWorkingHours(t, hours) => found = t
  BY WhatOpensIsOpen DEF Opens
<1> HIDE DEF found
<1>2. found # NoOpening => IsWithinWorkingHours(found, hours)
  BY <1>1
<1> QED BY <1>1, <1>2 DEF found

LEMMA LooksOpen ==
    ASSUME hours \in Settings, NEW p, pass[p].at \in Nat
    PROVE  /\ NextLook(p) \in Nat /\ pass[p].at + Recheck <= NextLook(p)
           /\ IsWithinWorkingHours(NextLook(p), hours) \/ Opens(NextLook(p)) = NoOpening
           /\ IsWithinWorkingHours(pass[p].at + Recheck, hours) => NextLook(p) = pass[p].at + Recheck
<1> DEFINE t == pass[p].at + Recheck
           opens == Opens(t)
<1>1. t \in Nat
  BY LaneNumbers
<1>2. /\ opens \in Nat \cup {NoOpening} /\ (opens # NoOpening => opens \in Nat /\ t <= opens)
      /\ (opens # NoOpening => IsWithinWorkingHours(opens, hours))
      /\ (IsWithinWorkingHours(t, hours) => opens = t)
  <2> HIDE DEF t
  <2> QED BY <1>1, OpensLater, OpensOpen
<1>3. NextLook(p) = Most(opens, t)
  BY DEF NextLook
<1>4. opens = NoOpening => NextLook(p) = t
  <2> HIDE DEF t, opens
  <2> QED BY <1>1, <1>3 DEF Most, NoOpening
<1>5. opens # NoOpening => NextLook(p) = opens
  <2> HIDE DEF t, opens
  <2> QED BY <1>1, <1>2, <1>3 DEF Most
<1>6. IsWithinWorkingHours(t, hours) => NextLook(p) = t
  <2>1. t # NoOpening
    BY <1>1 DEF NoOpening
  <2> HIDE DEF t, opens
  <2> QED BY <1>2, <1>5, <2>1
<1>7. NextLook(p) \in Nat /\ t <= NextLook(p)
  <2> HIDE DEF t, opens
  <2> QED BY <1>1, <1>2, <1>4, <1>5
<1>8. IsWithinWorkingHours(NextLook(p), hours) \/ Opens(NextLook(p)) = NoOpening
  <2>1. CASE opens = NoOpening
    BY <1>4, <2>1
  <2>2. CASE opens # NoOpening
    <3> HIDE DEF opens
    <3> QED BY <1>2, <1>5, <2>2
  <2> QED BY <2>1, <2>2
<1> QED BY <1>6, <1>7, <1>8


\* The click the card offered: its intent outlives every refusal there is.
LEMMA OfferOutlives ==
    ASSUME WaitsFit, LaneInv, BlocksInv, NEW m \in Messages, NEW code,
           Opens(now) # NoOpening, Opens(now + WorstConfiguredWait(code)) # NoOpening
    PROVE  /\ OperatorIntentLifetime(code) \in Nat \ {0}
           /\ now + WorstWait + Recheck <= Opens(now) + OperatorIntentLifetime(code)
<1> DEFINE D == LifetimeAfterOpening
           at == Opens(now)
           clears == Opens(now + WorstWait)
           lifetime == OperatorIntentLifetime(code)
<1>1. now \in Nat /\ hours \in Settings
  BY DEF LaneInv, LaneTyped
<1>2. WorstConfiguredWait(code) = WorstWait
  BY Waits DEF WorstConfiguredWait, WorstWait, Most
<1>3. Least(WorstWait, AnchorMax) = WorstWait /\ now + WorstWait \in Nat
  BY <1>1, Waits DEF Least
<1>4. at \in Nat /\ now <= at
  BY <1>1, OpensLater
<1>5. clears \in Nat /\ now + WorstWait <= clears
  BY <1>1, <1>2, <1>3, OpensLater
<1>6. lifetime = D + Least(Most(0, clears - at), AnchorMax)
  <2>1. at # NoOpening /\ clears # NoOpening
    BY <1>2
  <2> QED BY <1>2, <1>3, <2>1, Zenon DEF OperatorIntentLifetime
<1> HIDE DEF at, clears, lifetime
<1>7. Most(0, clears - at) \in Nat /\ clears - at <= Most(0, clears - at)
  BY <1>4, <1>5 DEF Most
<1> DEFINE more == Most(0, clears - at)
<1>8. D \in Nat \ {0} /\ Recheck \in Nat /\ Recheck <= D /\ WorstWait <= AnchorMax
      /\ AnchorMax \in Nat /\ WorstWait \in Nat
  BY Waits
<1> HIDE DEF D, more
<1>9. lifetime = D + Least(more, AnchorMax) /\ more \in Nat /\ clears - at <= more
  BY <1>6, <1>7 DEF more
<1>10. CASE more <= AnchorMax
  <2>1. lifetime = D + more
    BY <1>9, <1>10 DEF Least
  <2> QED BY <1>1, <1>4, <1>5, <1>8, <1>9, <2>1 DEF at, lifetime
<1>11. CASE ~(more <= AnchorMax)
  <2>1. lifetime = D + AnchorMax
    BY <1>9, <1>11 DEF Least
  <2> QED BY <1>1, <1>4, <1>8, <2>1 DEF at, lifetime
<1> QED BY <1>10, <1>11

LEMMA OfferIsInTime ==
    ASSUME WaitsFit, LaneInv, BlocksInv, NEW m \in Messages, ScheduleClick(m), Offered(m)
    PROVE  /\ status[m] = "approved" /\ block' = block /\ now' = now /\ hours' = hours
           /\ status' = status
           /\ \E i : /\ intent'[m] = {i} /\ InTime(m, i) /\ i.clickedAt = now
<1> DEFINE code == Verdict(m, now)
           new == [at |-> Opens(now), expires |-> Opens(now) + OperatorIntentLifetime(code),
                   by |-> "operator", clickedAt |-> now, click |-> clicks[m] + 1]
<1>1. code \in Transient /\ IntentCanOutlastTheSettings(code) /\ status[m] = "approved"
  BY Zenon DEF Offered
<1>2. Opens(now) # NoOpening /\ Opens(now + WorstConfiguredWait(code)) # NoOpening
  BY <1>1, Zenon DEF IntentCanOutlastTheSettings
<1>3. now \in Nat /\ hours \in Settings /\ Most(now, now) = now
      /\ intent = [n \in Messages |-> intent[n]]
  BY DEF LaneInv, LaneTyped, Most, ClicksInv, IntentsCount
<1>4. UNCHANGED <<now, hours, status, block>> /\ intent' = [intent EXCEPT ![m] = {new}]
  <2>1. ScheduleSendIntent(m, "operator", now, OperatorIntentLifetime(code))
        /\ UNCHANGED <<now, hours, status, block>>
    BY <1>1, Zenon DEF ScheduleClick
  <2> HIDE DEF code
  <2> QED BY <1>3, <2>1 DEF ScheduleSendIntent
<1>5. intent'[m] = {new}
  <2> HIDE DEF new
  <2> QED BY <1>3, <1>4
<1> HIDE DEF code
<1>6. /\ OperatorIntentLifetime(code) \in Nat \ {0}
      /\ now + WorstWait + Recheck <= Opens(now) + OperatorIntentLifetime(code)
  BY <1>2, OfferOutlives
<1>7. Opens(now) \in Nat /\ now <= Opens(now) /\ IsWithinWorkingHours(Opens(now), hours)
  BY <1>2, <1>3, OpensLater, OpensOpen
<1>8. EndsBy(m, now + WorstWait)
  BY DEF BlocksInv
<1>9. InTime(m, new)
  <2> DEFINE at == Opens(now)
             lifetime == OperatorIntentLifetime(code)
  <2>1. at < at + lifetime
    <3> HIDE DEF at, lifetime
    <3>1. at \in Nat /\ lifetime \in Nat \ {0}
      BY <1>6, <1>7 DEF at, lifetime
    <3> QED BY <3>1
  <2>2. new.at = at /\ new.expires = at + lifetime /\ new.clickedAt = now
    OBVIOUS
  <2> HIDE DEF new, at, lifetime
  <2>3. now <= at /\ IsWithinWorkingHours(at, hours) /\ now + WorstWait + Recheck <= at + lifetime
    BY <1>6, <1>7 DEF at, lifetime
  <2> QED BY <1>8, <2>1, <2>2, <2>3 DEF InTime
<1>10. new.clickedAt = now
  OBVIOUS
<1> HIDE DEF new
<1> QED BY <1>1, <1>4, <1>5, <1>9, <1>10

\* How a promised message got here: it was promised already and nothing upset it,
\* its intent as it was, ended or pushed on; or its card was clicked just now.
Pushed(m) ==
    \E p \in Passes :
        /\ pass[p].step # "off" /\ Row(p).message = m /\ StillThere(p) /\ ~Unreachable(p)
        /\ intent'[m] = {[i EXCEPT !.at = NextLook(p)] : i \in intent[m]}

Unmoved(m) ==
    /\ m \in promised /\ block'[m] = block[m] /\ status'[m] = status[m]
    /\ \/ now' = now /\ (intent'[m] = intent[m] \/ intent'[m] = {} \/ Pushed(m))
       \/ now' = now + 1 /\ intent'[m] = intent[m] /\ m \notin Due

LEMMA OperatorMoves ==
    ASSUME LaneInv, BlocksInv, PromisesHold, NEW n \in Messages, OperatorStep(n),
           NEW m \in promised'
    PROVE  Unmoved(m) \/ (m = n /\ ScheduleClick(n) /\ Offered(n))
<1>1. /\ intent = [k \in Messages |-> intent[k]] /\ status = [k \in Messages |-> status[k]]
      /\ block = [k \in Messages |-> block[k]]
  BY DEF LaneInv, ClicksInv, IntentsCount, BlocksInv
<1>2. CASE ScheduleClick(n) /\ ~(m = n /\ Offered(n))
  <2>1. m \in promised /\ m # n /\ UNCHANGED <<now, block, status>>
    BY <1>2 DEF ScheduleClick
  <2>2. \E new : intent' = [intent EXCEPT ![n] = new]
    BY <1>2, Zenon DEF ScheduleClick, ScheduleSendIntent
  <2>3. intent'[m] = intent[m]
    BY <1>1, <2>1, <2>2 DEF PromisesHold
  <2> QED BY <2>1, <2>3 DEF Unmoved
<1>3. CASE AutoSchedule(n)
  <2>1. m \in promised /\ m # n /\ UNCHANGED <<now, block, status>>
    BY <1>3 DEF AutoSchedule
  <2>2. \E new : intent' = [intent EXCEPT ![n] = new]
    BY <1>3, Zenon DEF AutoSchedule, ScheduleSendIntent
  <2>3. intent'[m] = intent[m]
    BY <1>1, <2>1, <2>2 DEF PromisesHold
  <2> QED BY <2>1, <2>3 DEF Unmoved
<1>4. CASE Cancel(n)
  <2>1. m \in promised /\ m # n /\ UNCHANGED <<now, block, status>>
        /\ intent' = [intent EXCEPT ![n] = {}]
    BY <1>4 DEF Cancel
  <2> QED BY <1>1, <2>1 DEF Unmoved, PromisesHold
<1>5. CASE SendNow(n)
  <2>1. m \in promised /\ m # n /\ UNCHANGED <<now, block>>
        /\ intent' = [intent EXCEPT ![n] = {}]
        /\ (status' = status \/ status' = [status EXCEPT ![n] = "sent"])
    BY <1>5 DEF SendNow, Claimed
  <2> QED BY <1>1, <2>1 DEF Unmoved, PromisesHold
<1>6. CASE Activity(n)
  <2>1. m \in promised /\ m # n /\ UNCHANGED <<now, status, intent>> /\ Upset(n)
    BY <1>6 DEF Activity
  <2>2. block'[m] = block[m]
    BY <1>1, <2>1 DEF Upset, PromisesHold
  <2> QED BY <2>1, <2>2 DEF Unmoved
<1>7. CASE Close(n)
  <2>1. m \in promised /\ m # n /\ UNCHANGED <<now, block, intent>>
        /\ status' = [status EXCEPT ![n] = "closed"]
    BY <1>7 DEF Close
  <2> QED BY <1>1, <2>1 DEF Unmoved, PromisesHold
<1> QED BY <1>2, <1>3, <1>4, <1>5, <1>6, <1>7 DEF OperatorStep

LEMMA PassMovesPromised ==
    ASSUME LaneInv, BlocksInv, PromisesHold, NEW p \in Passes, PassStep(p), NEW m \in promised'
    PROVE  Unmoved(m)
<1>1. /\ intent = [k \in Messages |-> intent[k]] /\ status = [k \in Messages |-> status[k]]
  BY DEF LaneInv, ClicksInv, IntentsCount, BlocksInv
<1>2. CASE PassBegins(p) \/ Judge(p) \/ OverLimit(p)
  BY <1>2 DEF PassBegins, Judge, OverLimit, Unmoved
<1>3. CASE PassDies(p)
  BY <1>3 DEF PassDies, Unmoved
<1>4. CASE Expire(p) \/ GiveUp(p) \/ Take(p)
  <2>1. m \in promised /\ UNCHANGED <<now, block, status>> /\ EndIntent(p)
    BY <1>4 DEF Expire, GiveUp, Take
  <2>2. intent'[m] = intent[m] \/ intent'[m] = {}
    BY <1>1, <2>1 DEF EndIntent, PromisesHold
  <2> QED BY <2>1, <2>2 DEF Unmoved
<1>5. CASE Push(p)
  <2> DEFINE n == Row(p).message
             new == IF StillThere(p) THEN {[i EXCEPT !.at = NextLook(p)] : i \in intent[n]} ELSE intent[n]
  <2>1. m \in promised /\ UNCHANGED <<now, block, status>> /\ pass[p].step # "off" /\ ~Unreachable(p)
    BY <1>5 DEF Push
  <2>2. intent' = [intent EXCEPT ![n] = new]
    BY <1>5 DEF Push
  <2>3. CASE m = n /\ StillThere(p)
    <3>1. new = {[i EXCEPT !.at = NextLook(p)] : i \in intent[m]}
      BY <2>3
    <3>2. intent'[m] = new
      <4> HIDE DEF new
      <4> QED BY <1>1, <2>1, <2>2, <2>3 DEF PromisesHold
    <3>3. Pushed(m)
      BY <2>1, <2>3, <3>1, <3>2, Zenon DEF Pushed
    <3> QED BY <2>1, <3>3 DEF Unmoved
  <2>4. CASE ~(m = n /\ StillThere(p))
    <3>1. m = n => new = intent[m]
      BY <2>4
    <3> HIDE DEF new, n
    <3>2. intent'[m] = intent[m]
      BY <1>1, <2>1, <2>2, <3>1 DEF PromisesHold
    <3> QED BY <2>1, <3>2 DEF Unmoved
  <2> QED BY <2>3, <2>4
<1>6. CASE Send(p)
  <2> DEFINE n == Row(p).message
  <2>1. n \in Messages
    BY <1>6, AtRow DEF Send
  <2>2. CASE Verdict(n, now) = "ok"
    <3>1. m \in promised /\ m # n /\ UNCHANGED <<now, block>>
          /\ intent' = [intent EXCEPT ![n] = {}]
          /\ (status' = status \/ status' = [status EXCEPT ![n] = "sent"])
      BY <1>6, <2>2, Zenon DEF Send, Claimed
    <3> HIDE DEF n
    <3> QED BY <1>1, <2>1, <3>1 DEF Unmoved, PromisesHold
  <2>3. CASE Verdict(n, now) # "ok"
    <3>1. UNCHANGED <<intent, promised, status, now, block>>
      BY <1>6, <2>3, Zenon DEF Send
    <3> QED BY <3>1 DEF Unmoved
  <2> QED BY <2>2, <2>3
<1> QED BY <1>2, <1>3, <1>4, <1>5, <1>6 DEF PassStep

\* Every step moves a promised message in one of these ways.
LEMMA PromisedMoves ==
    ASSUME LaneInv, BlocksInv, PromisesHold, [ScheduleNext]_scheduleVars, NEW m \in promised'
    PROVE  Unmoved(m) \/ (m \in Messages /\ ScheduleClick(m) /\ Offered(m))
<1>1. CASE Tick
  BY <1>1 DEF Tick, Unmoved
<1>2. CASE UNCHANGED scheduleVars
  BY <1>2 DEF scheduleVars, Unmoved
<1> QED BY <1>1, <1>2, OperatorMoves, PassMovesPromised DEF ScheduleNext


\* The settings stay as they are, and a message that is not approved stays so.
LEMMA LaneConstants ==
    ASSUME [ScheduleNext]_scheduleVars PROVE hours' = hours
BY DEF ScheduleNext, scheduleVars, Tick, OperatorStep, ScheduleClick, AutoSchedule, Cancel, SendNow,
       Activity, Close, PassStep, PassBegins, Judge, Expire, GiveUp, Push, OverLimit, Take, Send, PassDies

LEMMA StatusMoves ==
    ASSUME LaneInv, BlocksInv, [ScheduleNext]_scheduleVars
    PROVE  /\ status' = [m \in Messages |-> status'[m]]
           /\ \A m \in Messages : status[m] # "approved" => status'[m] # "approved"
<1>1. status = [m \in Messages |-> status[m]]
  BY DEF BlocksInv
<1>2. status' = status \/ \E m : status' = [status EXCEPT ![m] = "sent"]
                                 \/ status' = [status EXCEPT ![m] = "closed"]
  <2>1. ASSUME NEW m \in Messages, OperatorStep(m)
        PROVE  status' = status \/ status' = [status EXCEPT ![m] = "sent"]
               \/ status' = [status EXCEPT ![m] = "closed"]
    BY <2>1 DEF OperatorStep, ScheduleClick, AutoSchedule, Cancel, SendNow, Activity, Close
  <2>2. ASSUME NEW p \in Passes, PassStep(p)
        PROVE  status' = status \/ status' = [status EXCEPT ![Row(p).message] = "sent"]
    BY <2>2 DEF PassStep, PassBegins, Judge, Expire, GiveUp, Push, OverLimit, Take, Send, PassDies
  <2> QED BY <2>1, <2>2 DEF ScheduleNext, scheduleVars, Tick
<1> QED BY <1>1, <1>2

LEMMA BlocksStep ==
    ASSUME WaitsFit, LaneInv, BlocksInv, [ScheduleNext]_scheduleVars
    PROVE  BlocksInv'
<1>1. /\ block = [m \in Messages |-> block[m]] /\ now \in Nat
      /\ \A m \in Messages :
           /\ block[m].cap \in Nat /\ block[m].mailbox \in Nat /\ block[m].contact \in Nat
           /\ EndsBy(m, now + WorstWait)
  BY DEF BlocksInv, LaneInv, LaneTyped
<1>2. /\ LifetimeAfterOpening \in Nat /\ LifetimeAfterOpening <= WorstWait /\ WorstWait \in Nat
      /\ MailboxDelay \in Nat /\ MailboxDelay <= WorstWait
      /\ ContactDelay \in Nat /\ ContactDelay <= WorstWait
  BY Waits, LaneNumbers
<1>3. status' = [m \in Messages |-> status'[m]]
  BY StatusMoves
<1>4. CASE \E n \in Messages : Upset(n) /\ now' = now
  <2>1. PICK n \in Messages : Upset(n) /\ now' = now
    BY <1>4
  <2>2. PICK cap \in {block[n].cap, now + LifetimeAfterOpening},
             contact \in {block[n].contact, now + ContactDelay} :
        block' = [block EXCEPT ![n] =
            [cap |-> cap, mailbox |-> now + MailboxDelay, contact |-> contact]]
    BY <2>1 DEF Upset
  <2>3. /\ cap \in Nat /\ cap <= now + WorstWait /\ contact \in Nat /\ contact <= now + WorstWait
        /\ now + MailboxDelay \in Nat /\ now + MailboxDelay <= now + WorstWait
    BY <1>1, <1>2 DEF EndsBy
  <2>4. block' = [m \in Messages |-> block'[m]]
    BY <1>1, <2>2
  <2>5. ASSUME NEW m \in Messages
        PROVE  /\ block'[m].cap \in Nat /\ block'[m].mailbox \in Nat /\ block'[m].contact \in Nat
               /\ block'[m].cap <= now + WorstWait /\ block'[m].mailbox <= now + WorstWait
               /\ block'[m].contact <= now + WorstWait
    <3>1. CASE m = n
      <4>1. block'[m] = [cap |-> cap, mailbox |-> now + MailboxDelay, contact |-> contact]
        BY <1>1, <2>2, <3>1
      <4> QED BY <2>3, <4>1
    <3>2. CASE m # n
      <4>1. block'[m] = block[m]
        BY <1>1, <2>2, <3>2
      <4> QED BY <1>1, <4>1 DEF EndsBy
    <3> QED BY <3>1, <3>2
  <2> QED BY <1>3, <2>1, <2>4, <2>5 DEF BlocksInv, EndsBy
<1>5. CASE block' = block /\ (now' = now \/ now' = now + 1)
  <2>1. \A m \in Messages :
          /\ block[m].cap <= now' + WorstWait /\ block[m].mailbox <= now' + WorstWait
          /\ block[m].contact <= now' + WorstWait
    BY <1>1, <1>2, <1>5 DEF EndsBy
  <2> QED BY <1>1, <1>3, <1>5, <2>1 DEF BlocksInv, EndsBy
<1>6. (\E n \in Messages : Upset(n) /\ now' = now) \/ (block' = block /\ (now' = now \/ now' = now + 1))
  <2>1. ASSUME NEW m \in Messages, OperatorStep(m)
        PROVE  now' = now /\ (block' = block \/ Upset(m))
    BY <2>1 DEF OperatorStep, ScheduleClick, AutoSchedule, Cancel, SendNow, Activity, Close
  <2>2. ASSUME NEW p \in Passes, PassStep(p)
        PROVE  now' = now /\ block' = block
    BY <2>2 DEF PassStep, PassBegins, Judge, Expire, GiveUp, Push, OverLimit, Take, Send, PassDies
  <2> QED BY <2>1, <2>2 DEF ScheduleNext, scheduleVars, Tick
<1> QED BY <1>4, <1>5, <1>6

\* What a promised intent a pass is at says of the instant: it is the intent's own.
LEMMA PassAtPromise ==
    ASSUME LaneInv, PromisesHold, NEW p \in Passes, pass[p].step # "off", StillThere(p),
           NEW m \in promised, Row(p).message = m
    PROVE  \E i \in intent[m] :
              /\ intent[m] = {i} /\ i \in IntentRows /\ InTime(m, i)
              /\ SameIntent(i, Row(p).read) /\ i.at = now /\ pass[p].at = now
<1>1. PICK i \in intent[m] : /\ intent[m] = {i} /\ SameIntent(i, Row(p).read) /\ i \in IntentRows
                             /\ i.at = Row(p).read.at
  BY AtRow
<1>2. InTime(m, i)
  BY DEF PromisesHold
<1>3. pass[p].at \in Nat /\ Row(p).read.at <= pass[p].at /\ now \in Nat
  BY AtRow DEF RowOK, LaneInv, LaneTyped
<1>4. pass[p].at <= now
  BY DEF LaneInv, PassOK
<1>5. i.at = now /\ pass[p].at = now
  BY <1>1, <1>2, <1>3, <1>4 DEF InTime, IntentRows
<1> QED BY <1>1, <1>2, <1>5

LEMMA PromisesStep ==
    ASSUME WaitsFit, LaneInv, BlocksInv, PromisesHold, [ScheduleNext]_scheduleVars
    PROVE  PromisesHold'
<1>0. hours' = hours /\ now \in Nat /\ hours \in Settings
  BY LaneConstants DEF LaneInv, LaneTyped
<1>1. ASSUME NEW m \in promised'
      PROVE  m \in Messages /\ status'[m] = "approved" /\ \A i \in intent'[m] : InTime(m, i)'
  <2>1. CASE m \in Messages /\ ScheduleClick(m) /\ Offered(m)
    <3>1. PICK i : intent'[m] = {i} /\ InTime(m, i) /\ status' = status /\ status[m] = "approved"
                   /\ block' = block /\ now' = now
      BY <2>1, OfferIsInTime
    <3>2. InTime(m, i)'
      BY <1>0, <3>1 DEF InTime, EndsBy, Opens
    <3> QED BY <2>1, <3>1, <3>2
  <2>2. CASE Unmoved(m)
    <3>1. m \in Messages /\ status'[m] = "approved" /\ block'[m] = block[m]
          /\ \A i \in intent[m] : InTime(m, i) /\ i \in IntentRows
      BY <2>2 DEF Unmoved, PromisesHold, LaneInv, LaneTyped
    <3>2. CASE now' = now /\ (intent'[m] = intent[m] \/ intent'[m] = {})
      BY <1>0, <3>1, <3>2 DEF InTime, EndsBy, Opens
    <3>3. CASE now' = now + 1 /\ intent'[m] = intent[m] /\ m \notin Due
      <4>1. ASSUME NEW i \in intent'[m] PROVE now' <= i.at
        <5>1. status[m] = "approved" /\ i.at \in Nat /\ i \in intent[m]
          BY <2>2, <3>1, <3>3, <4>1 DEF PromisesHold, IntentRows, Unmoved
        <5>2. ~(i.at <= now)
          BY <3>1, <3>3, <5>1 DEF Due
        <5> QED BY <1>0, <3>3, <5>1, <5>2
      <4> QED BY <1>0, <3>1, <3>3, <4>1 DEF InTime, EndsBy, Opens
    <3>4. CASE now' = now /\ Pushed(m)
      <4>1. PICK p \in Passes :
              /\ pass[p].step # "off" /\ Row(p).message = m /\ StillThere(p) /\ ~Unreachable(p)
              /\ intent'[m] = {[i EXCEPT !.at = NextLook(p)] : i \in intent[m]}
        BY <3>4, Zenon DEF Pushed
      <4>2. m \in promised
        BY <2>2 DEF Unmoved
      <4>3. PICK i \in intent[m] :
              /\ intent[m] = {i} /\ i \in IntentRows /\ InTime(m, i)
              /\ SameIntent(i, Row(p).read) /\ i.at = now /\ pass[p].at = now
        BY <4>1, <4>2, PassAtPromise
      <4> DEFINE look == NextLook(p)
                 next == [i EXCEPT !.at = look]
      <4>4. intent'[m] = {next}
        BY <4>1, <4>3
      <4>5. /\ look \in Nat /\ now + Recheck <= look
            /\ IsWithinWorkingHours(look, hours) \/ Opens(look) = NoOpening
        BY <1>0, <4>3, LooksOpen
      <4>6. Row(p).read \in IntentRows
        BY <4>1, AtRow
      <4>7. look < i.expires
        <5>1. i.expires = Row(p).read.expires /\ i.expires \in Int /\ ~(look >= Row(p).read.expires)
          BY <4>1, <4>3 DEF SameIntent, Unreachable, IntentRows
        <5> HIDE DEF look
        <5> QED BY <4>5, <5>1
      <4> HIDE DEF look
      <4>8. next.at = look /\ next.expires = i.expires /\ next.clickedAt = i.clickedAt
        BY <4>3 DEF IntentRows
      <4> HIDE DEF next
      <4>9. now <= look
        BY <1>0, <4>5, LaneNumbers
      <4>10. InTime(m, next)
        BY <4>3, <4>5, <4>7, <4>8, <4>9 DEF InTime
      <4>11. PICK j : intent'[m] = {j} /\ InTime(m, j)
        BY <4>4, <4>10
      <4>12. InTime(m, j)'
        BY <1>0, <3>1, <3>4, <4>11 DEF InTime, EndsBy, Opens
      <4> QED BY <3>1, <4>11, <4>12
    <3> QED BY <2>2, <3>2, <3>3, <3>4 DEF Unmoved
  <2> QED BY <2>1, <2>2, PromisedMoves
<1> QED BY <1>1 DEF PromisesHold


\* The verdict a pass acts on is the one it read, or a promise made since.
LEMMA NewVerdict ==
    ASSUME WaitsFit, LaneInv, BlocksInv, PromisesHold, NEW p \in Passes, Judge(p)
    PROVE  VerdictStands(p, Row(p).message, Verdict(Row(p).message, pass[p].at))
<1> DEFINE m == Row(p).message
           t == pass[p].at
           verdict == Verdict(m, t)
<1>1. m \in Messages /\ t \in Nat
  BY AtRow DEF Judge
<1>2. /\ verdict = "permanent" => status[m] # "approved"
      /\ verdict = "OUTSIDE_WORKING_HOURS" => ~IsWithinWorkingHours(t, hours)
      /\ verdict \in Delays => t < block[m].cap \/ t < block[m].mailbox \/ t < block[m].contact
  BY VerdictMeans
<1> HIDE DEF m, verdict
<1>3. ASSUME verdict \in Delays, m \in promised, NEW i \in intent[m]
      PROVE  t < i.clickedAt + WorstWait
  <2>1. /\ block[m].cap <= i.clickedAt + WorstWait /\ block[m].mailbox <= i.clickedAt + WorstWait
        /\ block[m].contact <= i.clickedAt + WorstWait /\ i.clickedAt \in Nat
    BY <1>1, <1>3 DEF PromisesHold, InTime, EndsBy, LaneInv, LaneTyped, IntentRows
  <2>2. block[m].cap \in Nat /\ block[m].mailbox \in Nat /\ block[m].contact \in Nat
    BY <1>1 DEF BlocksInv
  <2>3. t < block[m].cap \/ t < block[m].mailbox \/ t < block[m].contact
    BY <1>2, <1>3
  <2> HIDE DEF t
  <2> QED BY <1>1, <2>1, <2>2, <2>3, Waits
<1> QED BY <1>2, <1>3 DEF VerdictStands, m, verdict

LEMMA VerdictsStep ==
    ASSUME WaitsFit, LaneInv, LaneInv', BlocksInv, PromisesHold, VerdictsStand,
           [ScheduleNext]_scheduleVars
    PROVE  VerdictsStand'
<1>0. hours' = hours /\ \A m \in Messages : status[m] # "approved" => status'[m] # "approved"
  BY LaneConstants, StatusMoves
<1>1. ASSUME NEW p \in Passes, pass'[p].step = "act"
      PROVE  /\ pass[p].step # "off" /\ pass'[p].at = pass[p].at /\ pass'[p].rows = pass[p].rows
             /\ VerdictStands(p, Row(p).message, pass'[p].verdict)
             /\ pass'[p] # pass[p] => intent' = intent /\ promised' = promised
  <2>1. CASE pass'[p] = pass[p]
    BY <1>1, <2>1 DEF VerdictsStand
  <2>2. CASE pass'[p] # pass[p]
    <3>1. PassStep(p) /\ pass[p] \in PassRows
      BY <2>2, OwnStep DEF LaneInv, LaneTyped
    <3>2. NextRow(p) => pass'[p].step # "act"
      <4>1. AfterRow(pass[p]).step # "act"
        <5>1. CASE Len(pass[p].rows) = 1
          BY <5>1 DEF AfterRow, Idle
        <5>2. CASE Len(pass[p].rows) # 1
          BY <3>1, <5>2 DEF AfterRow, PassRows
        <5> QED BY <5>1, <5>2
      <4> QED BY <4>1 DEF NextRow, LaneInv, LaneTyped
    <3>3. Judge(p)
      <4>0. pass \in [Passes -> PassRows]
        BY DEF LaneInv, LaneTyped
      <4>1. ~PassBegins(p) /\ ~PassDies(p)
        <5>1. PassBegins(p) => \E row : row.step = "judge" /\ pass' = [pass EXCEPT ![p] = row]
          BY DEF PassBegins
        <5>2. PassDies(p) => pass' = [pass EXCEPT ![p] = Idle] /\ Idle.step = "off"
          BY DEF PassDies, Idle
        <5> QED BY <1>1, <4>0, <5>1, <5>2
      <4>2. Take(p) => NextRow(p)
        <5>1. ASSUME pass' = [pass EXCEPT ![p].step = "send", ![p].sent = @ + 1] PROVE FALSE
          BY <1>1, <3>1, <5>1 DEF LaneInv, LaneTyped, PassRows
        <5> QED BY <5>1, Zenon DEF Take
      <4> QED BY <1>1, <3>1, <3>2, <4>1, <4>2 DEF PassStep, Expire, GiveUp, Push, OverLimit, Send
    <3> DEFINE verdict == Verdict(Row(p).message, pass[p].at)
    <3>4. pass' = [pass EXCEPT ![p].step = "act", ![p].verdict = verdict]
          /\ intent' = intent /\ promised' = promised /\ pass[p].step = "judge"
      BY <3>3 DEF Judge
    <3>5. VerdictStands(p, Row(p).message, verdict)
      BY <3>3, NewVerdict
    <3> HIDE DEF verdict
    <3>6. pass'[p].verdict = verdict /\ pass'[p].at = pass[p].at /\ pass'[p].rows = pass[p].rows
      BY <3>1, <3>4 DEF LaneInv, LaneTyped, PassRows
    <3> QED BY <3>4, <3>5, <3>6
  <2> QED BY <2>1, <2>2
<1>2. ASSUME NEW p \in Passes, pass'[p].step = "act"
      PROVE  VerdictStands(p, Row(p).message, pass[p].verdict)'
  <2> DEFINE m == Row(p).message
             verdict == pass'[p].verdict
  <2>1. /\ Row(p)' = Row(p) /\ pass'[p].at = pass[p].at /\ m \in Messages
        /\ pass[p].at \in Nat /\ VerdictStands(p, m, verdict)
    BY <1>1, <1>2, AtRow DEF Row
  <2>2. verdict = "permanent" => status'[m] # "approved"
    BY <1>0, <2>1 DEF VerdictStands
  <2>3. verdict = "OUTSIDE_WORKING_HOURS" => ~IsWithinWorkingHours(pass'[p].at, hours')
    BY <1>0, <2>1 DEF VerdictStands
  <2>4. ASSUME verdict \in Delays, m \in promised', NEW i \in intent'[m]
        PROVE  pass'[p].at < i.clickedAt + WorstWait
    <3>1. CASE Unmoved(m)
      <4>1. PICK j \in intent[m] : i.clickedAt = j.clickedAt
        <5>1. CASE intent'[m] = intent[m] \/ intent'[m] = {}
          BY <2>4, <5>1
        <5>2. CASE Pushed(m)
          <6>1. PICK q \in Passes :
                  intent'[m] = {[j EXCEPT !.at = NextLook(q)] : j \in intent[m]}
            BY <5>2, Zenon DEF Pushed
          <6>2. PICK j \in intent[m] : i = [j EXCEPT !.at = NextLook(q)]
            BY <2>4, <6>1
          <6>3. j \in IntentRows
            BY <2>1 DEF LaneInv, LaneTyped
          <6>4. i.clickedAt = j.clickedAt
            BY <6>2, <6>3 DEF IntentRows
          <6> QED BY <6>4
        <5> QED BY <3>1, <5>1, <5>2 DEF Unmoved
      <4>2. m \in promised
        BY <3>1 DEF Unmoved
      <4> QED BY <2>1, <2>4, <4>1, <4>2 DEF VerdictStands
    <3>2. CASE ScheduleClick(m) /\ Offered(m)
      <4>1. i.clickedAt = now /\ now \in Nat
        BY <2>1, <2>4, <3>2, OfferIsInTime DEF LaneInv, LaneTyped
      <4>2. pass[p].at < now
        BY <1>1, <1>2, <3>2 DEF ScheduleClick, ScheduleSendIntent
      <4> QED BY <2>1, <4>1, <4>2, Waits
    <3> QED BY <2>4, <3>1, <3>2, PromisedMoves
  <2> QED BY <2>1, <2>2, <2>3, <2>4 DEF VerdictStands
<1> QED BY <1>2 DEF VerdictsStand


LEMMA PromiseInvInit == WaitsFit /\ ScheduleInit => PromiseInv
<1> SUFFICES ASSUME WaitsFit, ScheduleInit PROVE PromiseInv
  OBVIOUS
<1>1. /\ now = 0 /\ promised = {} /\ pass = [p \in Passes |-> Idle]
      /\ status = [m \in Messages |-> "approved"]
      /\ block = [m \in Messages |-> [cap |-> 0, mailbox |-> 0, contact |-> 0]]
  BY DEF ScheduleInit
<1>2. BlocksInv
  BY <1>1, Waits DEF BlocksInv, EndsBy
<1>3. PromisesHold /\ VerdictsStand
  BY <1>1 DEF PromisesHold, VerdictsStand, Idle
<1> QED BY <1>2, <1>3, LaneInvInit DEF PromiseInv

\* Who ends a promised intent is a pass that read it and acts on it.
LEMMA WhoEnds ==
    ASSUME LaneInv, BlocksInv, PromisesHold, [ScheduleNext]_scheduleVars,
           NEW m \in promised \cap promised', intent[m] # {}, intent'[m] = {}
    PROVE  \E p \in Passes : /\ Row(p).message = m /\ StillThere(p)
                             /\ Expire(p) \/ GiveUp(p) \/ Take(p)
<1>1. m \in Messages /\ intent = [k \in Messages |-> intent[k]]
  BY DEF PromisesHold, LaneInv, ClicksInv, IntentsCount
<1>2. ASSUME NEW n \in Messages, OperatorStep(n) PROVE FALSE
  <2>1. m # n \/ ~(Cancel(n) \/ SendNow(n) \/ Activity(n) \/ Close(n) \/ AutoSchedule(n))
    BY DEF Cancel, SendNow, Claimed, Activity, Close, AutoSchedule
  <2>2. CASE ScheduleClick(n)
    <3>1. \E new : new # {} /\ intent' = [intent EXCEPT ![n] = new]
      BY <2>2 DEF ScheduleClick, ScheduleSendIntent
    <3> QED BY <1>1, <3>1
  <2>3. CASE m # n /\ (\E new : intent' = [intent EXCEPT ![n] = new])
    BY <1>1, <2>3
  <2>4. CASE intent' = intent
    BY <2>4
  <2>5. AutoSchedule(n) \/ Cancel(n) \/ SendNow(n) => \E new : intent' = [intent EXCEPT ![n] = new]
    BY Zenon DEF AutoSchedule, ScheduleSendIntent, Cancel, SendNow, Claimed
  <2>6. Activity(n) \/ Close(n) => intent' = intent
    BY DEF Activity, Close
  <2> QED BY <1>2, <2>1, <2>2, <2>3, <2>4, <2>5, <2>6 DEF OperatorStep
<1>3. ASSUME NEW p \in Passes, PassStep(p)
      PROVE  /\ Row(p).message = m /\ StillThere(p)
             /\ Expire(p) \/ GiveUp(p) \/ Take(p)
  <2>1. CASE Expire(p) \/ GiveUp(p) \/ Take(p)
    <3>1. EndIntent(p)
      BY <2>1 DEF Expire, GiveUp, Take
    <3> QED BY <1>1, <2>1, <3>1 DEF EndIntent
  <2>2. CASE Push(p)
    <3> DEFINE new == IF StillThere(p) THEN {[i EXCEPT !.at = NextLook(p)] : i \in intent[Row(p).message]}
                      ELSE intent[Row(p).message]
    <3>1. intent' = [intent EXCEPT ![Row(p).message] = new]
      BY <2>2 DEF Push
    <3>2. Row(p).message = m => new # {}
      OBVIOUS
    <3> HIDE DEF new
    <3> QED BY <1>1, <3>1, <3>2
  <2>3. CASE Send(p)
    <3>1. CASE Verdict(Row(p).message, now) = "ok"
      <4>1. intent' = [intent EXCEPT ![Row(p).message] = {}] /\ m # Row(p).message
        BY <2>3, <3>1, Zenon DEF Send, Claimed
      <4> QED BY <1>1, <4>1
    <3>2. CASE Verdict(Row(p).message, now) # "ok"
      BY <2>3, <3>2, Zenon DEF Send
    <3> QED BY <3>1, <3>2
  <2>4. CASE PassBegins(p) \/ Judge(p) \/ OverLimit(p) \/ PassDies(p)
    BY <2>4 DEF PassBegins, Judge, OverLimit, PassDies
  <2> QED BY <1>3, <2>1, <2>2, <2>3, <2>4 DEF PassStep
<1>4. ~Tick /\ ~UNCHANGED scheduleVars
  BY DEF Tick, scheduleVars
<1> QED BY <1>2, <1>3, <1>4 DEF ScheduleNext

\* Why: it is sent, or its next look would fall into hours that are shut.
LEMMA PromiseStep ==
    ASSUME WaitsFit, PromiseInv, [ScheduleNext]_scheduleVars,
           NEW m \in promised \cap promised', intent[m] # {}, intent'[m] = {}
    PROVE  \E p \in Passes :
                /\ pass[p].step = "act" /\ Row(p).message = m
                /\ pass'[p].step = "send" \/ LastLook(p)
<1>1. LaneInv /\ BlocksInv /\ PromisesHold /\ VerdictsStand /\ hours \in Settings
  BY DEF PromiseInv, LaneInv, LaneTyped
<1>2. PICK p \in Passes : /\ Row(p).message = m /\ StillThere(p)
                          /\ Expire(p) \/ GiveUp(p) \/ Take(p)
  BY <1>1, WhoEnds
<1>3. pass[p].step # "off"
  BY <1>2 DEF Expire, GiveUp, Take
<1>4. PICK i \in intent[m] :
        /\ intent[m] = {i} /\ i \in IntentRows /\ InTime(m, i)
        /\ SameIntent(i, Row(p).read) /\ i.at = now /\ pass[p].at = now
  BY <1>1, <1>2, <1>3, PassAtPromise
<1>5. now \in Nat /\ i.expires \in Int /\ i.clickedAt \in Nat /\ now < i.expires
      /\ Row(p).read.expires = i.expires
  BY <1>1, <1>4 DEF IntentRows, InTime, SameIntent, LaneInv, LaneTyped
<1>6. ~Lapsed(p)
  BY <1>4, <1>5 DEF Lapsed
<1>7. pass[p].step = "act"
  BY <1>2, <1>6 DEF Expire, GiveUp, Take
<1>8. VerdictStands(p, m, pass[p].verdict) /\ status[m] = "approved"
  BY <1>1, <1>2, <1>7 DEF VerdictsStand, PromisesHold
<1>9. CASE Take(p)
  <2>1. pass' = [pass EXCEPT ![p].step = "send", ![p].sent = @ + 1]
    BY <1>2, <1>9 DEF Take
  <2>2. pass'[p].step = "send"
    BY <1>1, <2>1 DEF LaneInv, LaneTyped, PassRows
  <2> QED BY <1>2, <1>7, <2>2
<1>10. CASE GiveUp(p)
  BY <1>8, <1>10 DEF GiveUp, VerdictStands
<1>11. CASE Expire(p)
  <2>1. pass[p].verdict \in Transient /\ Unreachable(p)
    BY <1>6, <1>11 DEF Expire
  <2>2. SUFFICES ASSUME IsWithinWorkingHours(now + Recheck, hours) PROVE FALSE
    BY <1>2, <1>4, <1>7 DEF LastLook
  <2>3. i.expires <= now + Recheck
    <3>1. NextLook(p) = now + Recheck
      BY <1>1, <1>4, <1>5, <2>2, LooksOpen
    <3> QED BY <1>5, <2>1, <3>1, LaneNumbers DEF Unreachable
  <2>4. CASE pass[p].verdict \in Delays
    <3>1. now < i.clickedAt + WorstWait
      BY <1>4, <1>8, <2>4 DEF VerdictStands
    <3>2. i.clickedAt + WorstWait + Recheck <= i.expires
      BY <1>4 DEF InTime
    <3> QED BY <1>5, <2>3, <3>1, <3>2, Waits
  <2>5. CASE pass[p].verdict = "OUTSIDE_WORKING_HOURS"
    <3>1. ~IsWithinWorkingHours(now, hours)
      BY <1>4, <1>8, <2>5 DEF VerdictStands
    <3>2. NextWorkingInstant(now, hours) = NoOpening
      BY <1>4, <3>1 DEF InTime, Opens
    <3>3. \A u \in now..(now + SearchHorizon) : ~IsWithinWorkingHours(u, hours)
      BY <1>1, <1>5, <3>2, Waits, TheSearchIsExact, Zenon DEF SearchIsExactFrom
    <3>4. now + Recheck \in now..(now + SearchHorizon)
      BY <1>5, Waits
    <3> QED BY <2>2, <3>3, <3>4
  <2> QED BY <2>1, <2>4, <2>5 DEF Delays
<1> QED BY <1>2, <1>9, <1>10, <1>11

\* The schedule button keeps its word: while nothing else is sent and the lane looks
\* when it said it would, what the card offered is sent and does not expire, but for
\* the last look before the window shuts.  The longest delay the settings ask for is
\* between a day and a week (a contact's is a day unless it is set).
THEOREM PromisesAreKeptWithin ==
    ASSUME WaitsFit PROVE ScheduleSpec => PromisesAreKept
<1>1. PromiseInv /\ [ScheduleNext]_scheduleVars => PromiseInv'
  BY LaneStep, BlocksStep, PromisesStep, VerdictsStep DEF PromiseInv
<1>2. ScheduleInit => PromiseInv
  BY PromiseInvInit
<1>3. PromiseInv /\ [ScheduleNext]_scheduleVars =>
        [\A m \in promised \cap promised' :
            intent[m] # {} /\ intent'[m] = {} =>
                \E p \in Passes :
                    /\ pass[p].step = "act" /\ Row(p).message = m
                    /\ pass'[p].step = "send" \/ LastLook(p)]_scheduleVars
  BY PromiseStep
<1> QED BY <1>1, <1>2, <1>3, PTL DEF ScheduleSpec, PromisesAreKept

-----------------------------------------------------------------------------
(* The rounds over an inbox (InboundRounds). *)

CursorRows == [epoch: Nat, last: Int]
Walking == {"status", "walk", "fetch"}

RoundsTyped ==
    /\ minute \in Int
    /\ folder \in [epoch: Nat, next: Nat, uid: [Mail -> Nat], date: [Mail -> Int]]
    /\ mailbox \in [status: {"available", "disconnected"}, cursor: CursorRows, since: Int]
    /\ record \in [Mail -> {"none", "pending", "done"}]
    /\ health \in {"scheduled", "started", "succeeded", "failed"}
    /\ round \in [step: Walking \cup {"off", "ingest", "save"}, since: Int, anchor: Int,
                  cursor: CursorRows, epoch: Nat, next: Nat, first: Int, fresh: BOOLEAN,
                  page: Seq(Mail), high: Int]
    /\ atStart \subseteq Mail /\ exempt \subseteq Mail

\* Mail somebody still has to record.
Owed == {m \in Mail \ exempt : There(m) /\ record[m] = "none"}

\* A cursor speaks of the UIDs that were there.
Fits(c) == c.epoch <= folder.epoch /\ (c.epoch = folder.epoch => c.last < folder.next)

\* UIDs rise, and neither the cursor nor the anchor is ahead of the folder.
FolderInv ==
    /\ folder.epoch >= 1 /\ folder.next >= 1
    /\ \A m \in Mail : folder.uid[m] < folder.next
    /\ Fits(mailbox.cursor)
    /\ mailbox.since <= minute - AnchorSkew

\* What is owed is fetched by the cursor and, with a date of its own, by the
\* anchor as well, should the cursor be lost.
OwedInv ==
    \A m \in Owed : /\ folder.date[m] = 0 \/ folder.date[m] >= mailbox.since
                    /\ WithinReach(m)

\* What a round has read is still true of the folder, or of an older one.
RoundInv ==
    /\ round.step # "off" => health = "started"
    /\ round.step \in Walking \cup {"ingest"} =>
          /\ mailbox.since = round.since /\ mailbox.cursor \in {round.cursor, NoCursor}
          /\ round.since <= round.anchor /\ round.anchor <= minute - AnchorSkew
          /\ Fits(round.cursor)
    /\ round.step \in {"walk", "fetch", "ingest", "save"} =>
          /\ 1 <= round.epoch /\ round.epoch <= folder.epoch
          /\ round.cursor.epoch <= round.epoch
          /\ round.fresh = (round.cursor.epoch # round.epoch)
          /\ round.epoch = folder.epoch => round.next <= folder.next
    /\ round.step \in {"fetch", "ingest", "save"} /\ round.epoch = folder.epoch =>
          round.first <= folder.next /\ round.high < folder.next

\* Before it fetches, a round starts below everything that is owed.
WalkInv ==
    /\ round.step \in Walking /\ round.cursor.epoch = folder.epoch =>
          \A m \in Owed : folder.uid[m] > round.cursor.last
    /\ round.step = "fetch" =>
          /\ round.high = round.first - 1
          /\ ~round.fresh => round.first = round.cursor.last + 1
          /\ round.fresh /\ round.epoch = folder.epoch =>
                \A m \in Owed : folder.date[m] >= round.since => folder.uid[m] >= round.first

Listed(m) == \E i \in DOMAIN round.page : round.page[i] = m

\* After it, what is owed is on the page, or came later than the round looked.
Later(m) ==
    /\ folder.date[m] = 0 \/ folder.date[m] >= round.anchor
    /\ IF folder.epoch = round.epoch THEN folder.uid[m] > round.high
       ELSE folder.date[m] >= round.anchor
PageInv == round.step = "ingest" => \A m \in Owed : Listed(m) \/ Later(m)

\* What was there at the start is still there, and on the page until recorded.
GateInv ==
    /\ \A m \in atStart : There(m)
    /\ round.step = "ingest" =>
          \A m \in atStart \ exempt : record[m] = "none" => Listed(m)
    /\ round.step = "save" => \A m \in atStart \ exempt : record[m] # "none"
    /\ OpenGateIsInformed

RoundsInv ==
    RoundsTyped /\ FolderInv /\ OwedInv /\ RoundInv /\ WalkInv /\ PageInv /\ GateInv

-----------------------------------------------------------------------------

LEMMA FewMails ==
    ASSUME NEW S \in SUBSET Mail PROVE IsFiniteSet(S) /\ Cardinality(S) \in Nat
BY InboundAssumption, FS_Subset, FS_CardinalityType DEF InboundAssumption

LEMMA RoundsNumbers ==
    /\ AnchorSkew \in Nat /\ Lag \in Nat /\ LastMinute \in Nat
    /\ DayLen \in Nat \ {0} /\ LastEpoch \in Nat \ {0}
    /\ Lag <= AnchorSkew /\ Connected \in Nat
BY InboundAssumption DEF InboundAssumption

LEMMA RoundsInvInit == InboundInit => RoundsInv
<1> SUFFICES ASSUME InboundInit PROVE RoundsInv
  OBVIOUS
<1> USE RoundsNumbers
<1>1. PICK old \in SUBSET Mail :
          /\ Cardinality(old) <= 1
          /\ folder = [epoch |-> 1, next |-> Cardinality(old) + 1,
                     uid |-> [m \in Mail |-> IF m \in old THEN 1 ELSE 0],
                     date |-> [m \in Mail |-> 0]]
          /\ exempt = old
  BY DEF InboundInit
<1>2. Cardinality(old) \in Nat /\ (old # {} => Cardinality(old) = 1)
  <2>1. IsFiniteSet(old) /\ Cardinality(old) \in Nat
    BY FewMails
  <2>2. old # {} => Cardinality(old) # 0
    BY <2>1, FS_EmptySet
  <2> QED BY <1>1, <2>1, <2>2
<1>3. round = NoRound /\ mailbox = [status |-> "available", cursor |-> NoCursor,
                                    since |-> Connected - AnchorSkew]
  BY DEF InboundInit
<1>4. RoundsTyped
  <2>1. folder \in [epoch: Nat, next: Nat, uid: [Mail -> Nat], date: [Mail -> Int]]
    BY <1>1, <1>2
  <2>2. NoCursor \in CursorRows /\ <<>> \in Seq(Mail)
    BY DEF NoCursor, CursorRows
  <2>3. NoRound \in [step: Walking \cup {"off", "ingest", "save"}, since: Int, anchor: Int,
                  cursor: CursorRows, epoch: Nat, next: Nat, first: Int, fresh: BOOLEAN,
                  page: Seq(Mail), high: Int]
    BY <2>2 DEF NoRound
  <2>4. mailbox \in [status: {"available", "disconnected"}, cursor: CursorRows, since: Int]
    BY <1>3, <2>2
  <2> QED BY <1>1, <1>3, <2>1, <2>3, <2>4 DEF InboundInit, RoundsTyped
<1>5. FolderInv
  <2>1. \A m \in Mail : folder.uid[m] < folder.next
    BY <1>1, <1>2
  <2> QED BY <1>1, <1>2, <1>3, <2>1 DEF InboundInit, FolderInv, Fits, NoCursor
<1>6. Owed = {}
  BY <1>1 DEF Owed, There
<1> QED BY <1>3, <1>4, <1>5, <1>6 DEF InboundInit, RoundsInv, OwedInv, RoundInv, WalkInv, PageInv,
           GateInv, OpenGateIsInformed, NoRound, Walking

-----------------------------------------------------------------------------
(* The folder and the clocks. *)

\* One mail more.
LEMMA PutInStep ==
    ASSUME RoundsInv, NEW m \in Mail, NEW date \in Int, PutIn(m, date)
    PROVE  /\ folder' = [folder EXCEPT !.next = @ + 1, !.uid[m] = folder.next, !.date[m] = date]
           /\ UNCHANGED <<minute, mailbox, record, health, round, atStart>>
           /\ folder' \in [epoch: Nat, next: Nat, uid: [Mail -> Nat], date: [Mail -> Int]]
           /\ folder'.epoch = folder.epoch /\ folder'.next = folder.next + 1
           /\ folder'.uid[m] = folder.next /\ folder'.date[m] = date
           /\ folder.next \in Nat /\ folder.next >= 1
           /\ \A n \in Mail \ {m} : folder'.uid[n] = folder.uid[n] /\ folder'.date[n] = folder.date[n]
           /\ \A n \in Mail : There(n) => n # m /\ There(n)'
<1>1. folder' = [folder EXCEPT !.next = @ + 1, !.uid[m] = folder.next, !.date[m] = date]
  BY DEF PutIn
<1>2. folder \in [epoch: Nat, next: Nat, uid: [Mail -> Nat], date: [Mail -> Int]]
      /\ folder.next >= 1
  BY DEF RoundsInv, RoundsTyped, FolderInv
<1>3. folder' \in [epoch: Nat, next: Nat, uid: [Mail -> Nat], date: [Mail -> Int]]
  <2> DEFINE uid == [folder.uid EXCEPT ![m] = folder.next]
             dates == [folder.date EXCEPT ![m] = date]
  <2>1. uid \in [Mail -> Nat] /\ dates \in [Mail -> Int] /\ folder.next + 1 \in Nat
    BY <1>2
  <2>2. folder' = [folder EXCEPT !.next = folder.next + 1, !.uid = uid, !.date = dates]
    BY <1>1, <1>2
  <2> HIDE DEF uid, dates
  <2> QED BY <1>2, <2>1, <2>2
<1>4. folder'.epoch = folder.epoch /\ folder'.next = folder.next + 1
      /\ folder'.uid = [folder.uid EXCEPT ![m] = folder.next]
      /\ folder'.date = [folder.date EXCEPT ![m] = date]
  BY <1>1, <1>2
<1> QED BY <1>1, <1>2, <1>3, <1>4 DEF PutIn, There

LEMMA PutInKeepsInv ==
    ASSUME RoundsInv, NEW m \in Mail, NEW date \in Int, PutIn(m, date),
           exempt \subseteq exempt', exempt' \subseteq Mail,
           m \in exempt' \/ date >= minute - Lag
               \/ (date = 0 /\ mailbox.cursor.epoch = folder.epoch)
    PROVE  RoundsInv'
<1> USE RoundsNumbers
<1>1. /\ UNCHANGED <<minute, mailbox, record, health, round, atStart>>
      /\ folder' \in [epoch: Nat, next: Nat, uid: [Mail -> Nat], date: [Mail -> Int]]
      /\ folder'.epoch = folder.epoch /\ folder'.next = folder.next + 1
      /\ folder'.uid[m] = folder.next /\ folder'.date[m] = date
      /\ folder.next \in Nat /\ folder.next >= 1
      /\ \A n \in Mail \ {m} : folder'.uid[n] = folder.uid[n] /\ folder'.date[n] = folder.date[n]
      /\ \A n \in Mail : There(n) => n # m /\ There(n)'
  BY PutInStep
<1>2. /\ mailbox \in [status: {"available", "disconnected"}, cursor: CursorRows, since: Int]
      /\ folder \in [epoch: Nat, next: Nat, uid: [Mail -> Nat], date: [Mail -> Int]]
      /\ round \in [step: Walking \cup {"off", "ingest", "save"}, since: Int, anchor: Int,
                  cursor: CursorRows, epoch: Nat, next: Nat, first: Int, fresh: BOOLEAN,
                  page: Seq(Mail), high: Int]
      /\ minute \in Int
  BY DEF RoundsInv, RoundsTyped
<1>3. RoundsTyped'
  BY <1>1 DEF RoundsInv, RoundsTyped
<1>4. FolderInv'
  <2>1. Fits(mailbox.cursor)'
    <3>1. Fits(mailbox.cursor) /\ mailbox.cursor.last \in Int
      BY <1>2 DEF RoundsInv, FolderInv, CursorRows
    <3> QED BY <1>1, <3>1 DEF Fits
  <2>2. \A n \in Mail : folder'.uid[n] < folder'.next
    <3>1. \A n \in Mail : folder.uid[n] \in Nat /\ folder.uid[n] < folder.next
      BY <1>2 DEF RoundsInv, FolderInv
    <3> QED BY <1>1, <3>1
  <2> QED BY <1>1, <2>1, <2>2 DEF RoundsInv, FolderInv
<1>5. \A n \in Owed' : n # m => n \in Owed
  BY <1>1 DEF Owed, There
<1>6. m \in Owed' => date >= minute - Lag \/ (date = 0 /\ mailbox.cursor.epoch = folder.epoch)
  BY DEF Owed
<1>7. OwedInv'
  <2> SUFFICES ASSUME NEW n \in Owed'
               PROVE  /\ folder'.date[n] = 0 \/ folder'.date[n] >= mailbox'.since
                      /\ WithinReach(n)'
    BY DEF OwedInv
  <2>1. CASE n = m
    <3>1. mailbox.since <= minute - AnchorSkew /\ Fits(mailbox.cursor)
      BY DEF RoundsInv, FolderInv
    <3>2. mailbox.cursor.last \in Int /\ mailbox.since \in Int
      BY <1>2 DEF CursorRows
    <3>3. mailbox.cursor.epoch = folder.epoch => mailbox.cursor.last < folder.next
      BY <3>1 DEF Fits
    <3>4. date >= minute - Lag => date >= mailbox.since
      BY <1>2, <3>1, <3>2
    <3> QED BY <1>1, <1>6, <2>1, <3>2, <3>3, <3>4 DEF WithinReach
  <2>2. CASE n # m
    BY <1>1, <1>5, <2>2 DEF RoundsInv, OwedInv, WithinReach, Owed
  <2> QED BY <2>1, <2>2
<1>8. RoundInv'
  <2>1. Fits(round.cursor) => Fits(round.cursor)'
    BY <1>1, <1>2 DEF Fits, CursorRows
  <2>2. /\ round.next <= folder.next => round.next <= folder'.next
        /\ round.first <= folder.next => round.first <= folder'.next
        /\ round.high < folder.next => round.high < folder'.next
    BY <1>1, <1>2
  <2> QED BY <1>1, <2>1, <2>2 DEF RoundsInv, RoundInv
<1>9. WalkInv'
  <2>1. ASSUME round.step \in Walking, round.cursor.epoch = folder.epoch, NEW n \in Owed'
        PROVE  folder'.uid[n] > round.cursor.last
    <3>1. CASE n = m
      BY <1>1, <1>2, <2>1, <3>1 DEF RoundsInv, RoundInv, Fits, CursorRows
    <3>2. CASE n # m
      BY <1>1, <1>5, <2>1, <3>2 DEF RoundsInv, WalkInv, Owed
    <3> QED BY <3>1, <3>2
  <2>2. ASSUME round.step = "fetch", round.fresh, round.epoch = folder.epoch, NEW n \in Owed',
               folder'.date[n] >= round.since
        PROVE  folder'.uid[n] >= round.first
    <3>1. CASE n = m
      BY <1>1, <1>2, <2>2, <3>1 DEF RoundsInv, RoundInv
    <3>2. CASE n # m
      BY <1>1, <1>5, <2>2, <3>2 DEF RoundsInv, WalkInv, Owed
    <3> QED BY <3>1, <3>2
  <2> QED BY <1>1, <2>1, <2>2 DEF RoundsInv, WalkInv
<1>10. PageInv'
  <2> SUFFICES ASSUME round.step = "ingest", NEW n \in Owed' PROVE Listed(n)' \/ Later(n)'
    BY <1>1 DEF PageInv
  <2>1. CASE n = m
    <3>1. /\ round.anchor <= minute - AnchorSkew /\ round.epoch <= folder.epoch
          /\ round.cursor.epoch <= round.epoch /\ round.epoch >= 1
          /\ mailbox.cursor \in {round.cursor, NoCursor}
          /\ round.epoch = folder.epoch => round.high < folder.next
      BY DEF RoundsInv, RoundInv, Walking
    <3>2. mailbox.cursor.epoch = folder.epoch => folder.epoch = round.epoch
      BY <1>2, <3>1 DEF NoCursor, CursorRows
    <3>3. CASE date >= minute - Lag
      BY <1>1, <1>2, <2>1, <3>1, <3>3 DEF Later
    <3>4. CASE date = 0 /\ mailbox.cursor.epoch = folder.epoch
      BY <1>1, <1>2, <2>1, <3>1, <3>2, <3>4 DEF Later
    <3> QED BY <1>6, <2>1, <3>3, <3>4
  <2>2. CASE n # m
    BY <1>1, <1>5, <2>2 DEF RoundsInv, PageInv, Owed, Listed, Later
  <2> QED BY <2>1, <2>2
<1>11. GateInv'
  BY <1>1 DEF RoundsInv, GateInv, RoundsTyped, Listed, OpenGateIsInformed
<1> QED BY <1>3, <1>4, <1>7, <1>8, <1>9, <1>10, <1>11 DEF RoundsInv

LEMMA ArriveKeepsInv == ASSUME RoundsInv, NEW m \in Mail, Arrive(m) PROVE RoundsInv'
<1>1. PICK lag \in 0..Lag : PutIn(m, minute - lag)
  BY DEF Arrive
<1>2. minute - lag \in Int /\ minute - lag >= minute - Lag
  BY RoundsNumbers DEF RoundsInv, RoundsTyped
<1>3. exempt' = exempt /\ exempt \subseteq Mail
  BY DEF Arrive, RoundsInv, RoundsTyped
<1> QED BY <1>1, <1>2, <1>3, PutInKeepsInv

LEMMA MoveInKeepsInv == ASSUME RoundsInv, NEW m \in Mail, MoveIn(m) PROVE RoundsInv'
<1>1. PutIn(m, 0) /\ exempt' = IF mailbox.cursor.epoch = folder.epoch THEN exempt ELSE exempt \cup {m}
  BY DEF MoveIn
<1>2. exempt \subseteq Mail
  BY DEF RoundsInv, RoundsTyped
<1> QED BY <1>1, <1>2, PutInKeepsInv

\* What is owed after the UIDs or the cursor went carries a date of its own.
LEMMA OwedWithDate ==
    ASSUME exempt' = exempt \cup MovedUnseen, record' = record, folder'.date = folder.date,
           \A m \in Mail : There(m)' => There(m)
    PROVE  \A m \in Owed' : m \in Owed /\ folder.date[m] # 0
BY DEF Owed, MovedUnseen

LEMMA RecreateKeepsInv == ASSUME RoundsInv, Recreate PROVE RoundsInv'
<1> USE RoundsNumbers
<1> DEFINE there == {m \in Mail : There(m)}
<1>1. PICK uid \in [there -> 1..Cardinality(there)] :
          folder' = [folder EXCEPT !.epoch = @ + 1, !.next = Cardinality(there) + 1,
                          !.uid = [m \in Mail |-> IF m \in there THEN uid[m] ELSE 0]]
  BY DEF Recreate
<1>2. /\ UNCHANGED <<minute, mailbox, record, health, round, atStart>>
      /\ exempt' = exempt \cup MovedUnseen
  BY DEF Recreate
<1>3. /\ mailbox \in [status: {"available", "disconnected"}, cursor: CursorRows, since: Int]
      /\ folder \in [epoch: Nat, next: Nat, uid: [Mail -> Nat], date: [Mail -> Int]]
      /\ round \in [step: Walking \cup {"off", "ingest", "save"}, since: Int, anchor: Int,
                  cursor: CursorRows, epoch: Nat, next: Nat, first: Int, fresh: BOOLEAN,
                  page: Seq(Mail), high: Int]
      /\ minute \in Int
  BY DEF RoundsInv, RoundsTyped
<1>4. Cardinality(there) \in Nat
  BY FewMails
<1>5. /\ folder' \in [epoch: Nat, next: Nat, uid: [Mail -> Nat], date: [Mail -> Int]]
      /\ folder'.epoch = folder.epoch + 1 /\ folder'.date = folder.date
      /\ folder'.next >= 1
      /\ \A m \in Mail : (There(m)' <=> There(m)) /\ folder'.uid[m] < folder'.next
  <2> DEFINE n == Cardinality(there)
             numbers == [m \in Mail |-> IF m \in there THEN uid[m] ELSE 0]
  <2>1. numbers \in [Mail -> 0..n] /\ \A m \in Mail : numbers[m] # 0 <=> m \in there
    BY <1>4
  <2>2. folder' = [folder EXCEPT !.epoch = folder.epoch + 1, !.next = n + 1, !.uid = numbers]
    BY <1>1, <1>3
  <2> HIDE DEF n, numbers
  <2>3. n \in Nat
    BY <1>4 DEF n
  <2>4. /\ folder' \in [epoch: Nat, next: Nat, uid: [Mail -> Nat], date: [Mail -> Int]]
        /\ folder'.epoch = folder.epoch + 1 /\ folder'.date = folder.date
        /\ folder'.next = n + 1 /\ folder'.uid = numbers
    <3>1. numbers \in [Mail -> Nat]
      BY <2>1, <2>3
    <3>2. folder.epoch + 1 \in Nat /\ n + 1 \in Nat
      BY <1>3, <2>3
    <3> DEFINE e == folder.epoch + 1  k == n + 1
    <3>3. folder' = [folder EXCEPT !.epoch = e, !.next = k, !.uid = numbers]
      BY <2>2
    <3> HIDE DEF e, k
    <3>4. folder' \in [epoch: Nat, next: Nat, uid: [Mail -> Nat], date: [Mail -> Int]]
          /\ folder'.epoch = e /\ folder'.date = folder.date /\ folder'.next = k /\ folder'.uid = numbers
      BY <1>3, <3>1, <3>2, <3>3 DEF e, k
    <3> QED BY <3>4 DEF e, k
  <2>5. \A m \in Mail : There(m)' <=> m \in there
    BY <2>1, <2>4 DEF There
  <2> QED BY <2>1, <2>3, <2>4, <2>5
<1> HIDE DEF there
<1>6. RoundsTyped'
  <2>1. exempt' \subseteq Mail
    BY <1>2 DEF RoundsInv, RoundsTyped, MovedUnseen
  <2> QED BY <1>2, <1>5, <2>1 DEF RoundsInv, RoundsTyped
<1>7. \A c \in CursorRows : Fits(c) => Fits(c)' /\ c.epoch < folder'.epoch
  BY <1>3, <1>5 DEF Fits, CursorRows
<1>8. FolderInv'
  BY <1>2, <1>3, <1>5, <1>7 DEF RoundsInv, FolderInv
<1>9. \A m \in Owed' : m \in Owed /\ folder.date[m] # 0
  BY <1>2, <1>5, OwedWithDate
<1>10. OwedInv'
  <2>1. mailbox.cursor.epoch # folder'.epoch
    BY <1>3, <1>7 DEF RoundsInv, FolderInv, CursorRows
  <2> QED BY <1>2, <1>5, <1>9, <2>1 DEF RoundsInv, OwedInv, WithinReach
<1>11. round.step \in {"walk", "fetch", "ingest", "save"} =>
           round.epoch <= folder'.epoch /\ round.epoch # folder'.epoch
  BY <1>3, <1>5 DEF RoundsInv, RoundInv
<1>12. round.step \in Walking \cup {"ingest"} =>
           Fits(round.cursor)' /\ round.cursor.epoch # folder'.epoch
  <2>1. round.cursor \in CursorRows /\ \A c \in CursorRows : c.epoch \in Nat
    BY <1>3 DEF CursorRows
  <2>2. round.step \in Walking \cup {"ingest"} => Fits(round.cursor)
    BY DEF RoundsInv, RoundInv
  <2>3. Fits(round.cursor) => Fits(round.cursor)' /\ round.cursor.epoch < folder'.epoch
    BY <1>2, <1>7, <2>1 DEF Fits
  <2> QED BY <1>5, <2>1, <2>2, <2>3
<1>13. RoundInv'
  BY <1>2, <1>11, <1>12 DEF RoundsInv, RoundInv
<1>14. WalkInv'
  BY <1>2, <1>11, <1>12 DEF RoundsInv, WalkInv
<1>15. PageInv'
  <2> SUFFICES ASSUME round.step = "ingest", NEW m \in Owed' PROVE Listed(m)' \/ Later(m)'
    BY <1>2 DEF PageInv
  <2>1. Listed(m) \/ Later(m)
    BY <1>9 DEF RoundsInv, PageInv
  <2>2. Later(m) => folder'.date[m] >= round.anchor
    BY <1>5, <1>9 DEF Later
  <2> QED BY <1>2, <1>11, <2>1, <2>2 DEF Listed, Later
<1>16. GateInv'
  <2>1. exempt \subseteq exempt'
    BY <1>2
  <2> QED BY <1>2, <1>5, <2>1 DEF RoundsInv, GateInv, RoundsTyped, Listed, OpenGateIsInformed
<1> QED BY <1>6, <1>8, <1>10, <1>13, <1>14, <1>15, <1>16 DEF RoundsInv

\* Fewer mails are owed, and nothing else that counts is another.
LEMMA LessIsOwed ==
    ASSUME RoundsInv, UNCHANGED <<folder, round, atStart>>, RoundsTyped',
           exempt \subseteq exempt', \A m \in Mail : record[m] # "none" => record'[m] # "none",
           health' = health
    PROVE  Owed' \subseteq Owed /\ WalkInv' /\ PageInv' /\ GateInv'
<1>1. Owed' \subseteq Owed
  BY DEF Owed, There
<1>2. WalkInv' /\ PageInv'
  BY <1>1 DEF RoundsInv, WalkInv, PageInv, Listed, Later
<1>3. GateInv'
  BY DEF RoundsInv, GateInv, RoundsTyped, Listed, There, OpenGateIsInformed
<1> QED BY <1>1, <1>2, <1>3

\* The cursor is gone, the anchor is kept.
LEMMA CursorGoneKeepsInv == ASSUME RoundsInv, CorruptCursor \/ Disconnect PROVE RoundsInv'
<1> USE RoundsNumbers
<1>1. /\ mailbox \in [status: {"available", "disconnected"}, cursor: CursorRows, since: Int]
      /\ NoCursor \in CursorRows
      /\ folder \in [epoch: Nat, next: Nat, uid: [Mail -> Nat], date: [Mail -> Int]]
  BY DEF RoundsInv, RoundsTyped, NoCursor, CursorRows
<1>2. /\ UNCHANGED <<minute, folder, record, health, round, atStart>>
      /\ exempt' = exempt \cup MovedUnseen
      /\ mailbox' \in [status: {"available", "disconnected"}, cursor: CursorRows, since: Int]
      /\ mailbox'.cursor = NoCursor /\ mailbox'.since = mailbox.since
  BY <1>1 DEF CorruptCursor, Disconnect
<1>3. RoundsTyped'
  <2>1. exempt' \subseteq Mail
    BY <1>2 DEF RoundsInv, RoundsTyped, MovedUnseen
  <2> QED BY <1>2, <2>1 DEF RoundsInv, RoundsTyped
<1>4. exempt \subseteq exempt' /\ \A m \in Owed' : m \in Owed /\ folder.date[m] # 0
  BY <1>2, OwedWithDate DEF There
<1>5. WalkInv' /\ PageInv' /\ GateInv'
  BY <1>2, <1>3, <1>4, LessIsOwed
<1>6. FolderInv'
  BY <1>1, <1>2 DEF RoundsInv, FolderInv, Fits, NoCursor
<1>7. OwedInv'
  <2>1. NoCursor.epoch # folder.epoch
    BY <1>1 DEF NoCursor, RoundsInv, FolderInv
  <2> QED BY <1>2, <1>4, <2>1 DEF RoundsInv, OwedInv, WithinReach
<1>8. RoundInv'
  BY <1>2 DEF RoundsInv, RoundInv, Fits
<1> QED BY <1>3, <1>5, <1>6, <1>7, <1>8 DEF RoundsInv

LEMMA QuietKeepsInv ==
    ASSUME RoundsInv,
           Reconnect \/ MinutePasses \/ \E m \in Mail : RecoverPending(m)
    PROVE  RoundsInv'
<1> USE RoundsNumbers
<1>1. /\ mailbox \in [status: {"available", "disconnected"}, cursor: CursorRows, since: Int]
      /\ record \in [Mail -> {"none", "pending", "done"}] /\ minute \in Int
      /\ round.anchor \in Int
  BY DEF RoundsInv, RoundsTyped
<1>2. UNCHANGED <<folder, health, round, atStart, exempt>>
  BY DEF Reconnect, MinutePasses, RecoverPending
<1>3. /\ mailbox' \in [status: {"available", "disconnected"}, cursor: CursorRows, since: Int]
      /\ mailbox'.cursor = mailbox.cursor /\ mailbox'.since = mailbox.since
      /\ minute' \in Int /\ minute' >= minute
  BY <1>1 DEF Reconnect, MinutePasses, RecoverPending
<1>4. /\ record' \in [Mail -> {"none", "pending", "done"}]
      /\ \A m \in Mail : record[m] # "none" => record'[m] # "none"
  BY <1>1 DEF Reconnect, MinutePasses, RecoverPending
<1>5. RoundsTyped'
  BY <1>2, <1>3, <1>4 DEF RoundsInv, RoundsTyped
<1>6. Owed' \subseteq Owed /\ WalkInv' /\ PageInv' /\ GateInv'
  BY <1>2, <1>4, <1>5, LessIsOwed
<1>7. FolderInv'
  BY <1>1, <1>2, <1>3 DEF RoundsInv, FolderInv, Fits
<1>8. OwedInv'
  BY <1>2, <1>3, <1>6 DEF RoundsInv, OwedInv, WithinReach
<1>9. RoundInv'
  BY <1>1, <1>2, <1>3 DEF RoundsInv, RoundInv, Fits
<1> QED BY <1>5, <1>6, <1>7, <1>8, <1>9 DEF RoundsInv

-----------------------------------------------------------------------------
(* Smallest and largest numbers, days and pages. *)

LEMMA LeastNumber ==
    ASSUME NEW T, T \subseteq Nat, T # {}
    PROVE  Min(T) \in T /\ \A n \in T : Min(T) <= n
<1>1. PICK m \in T : \A n \in T : m <= n
  BY LeastExists
<1> QED BY <1>1 DEF Min

LEMMA LargestNumber ==
    ASSUME NEW T, T \subseteq Int, T # {}, NEW bound \in Int, \A n \in T : n < bound
    PROVE  Max(T) \in T /\ \A n \in T : Max(T) >= n
<1> DEFINE D == {bound - n : n \in T}
<1>1. D \subseteq Nat /\ D # {}
  <2>1. ASSUME NEW n \in T PROVE bound - n \in Nat
    <3>1. n \in Int /\ n < bound
      OBVIOUS
    <3> QED BY <3>1
  <2> QED BY <2>1
<1>2. Min(D) \in D /\ \A d \in D : Min(D) <= d
  BY <1>1, LeastNumber
<1>3. PICK m \in T : Min(D) = bound - m
  BY <1>2
<1>4. ASSUME NEW n \in T PROVE m >= n
  <2>1. bound - m <= bound - n
    BY <1>2, <1>3
  <2>2. m \in Int /\ n \in Int
    OBVIOUS
  <2> QED BY <2>1, <2>2
<1> QED BY <1>4 DEF Max

LEMMA DaysFollow ==
    ASSUME NEW a \in Int, NEW b \in Int, a >= b PROVE Day(a) >= Day(b)
<1> DEFINE D == DayLen
<1>1. D \in Nat /\ D >= 1
  BY RoundsNumbers
<1> HIDE DEF D
<1>2. a \div D \in Int /\ b \div D \in Int
  BY <1>1
<1>3. D * (b \div D) <= b /\ a < D * (a \div D) + D
  BY <1>1
<1> DEFINE p == a \div D  q == b \div D
<1>4. p \in Int /\ q \in Int /\ D * q <= b /\ a < D * p + D
  BY <1>2, <1>3
<1> HIDE DEF p, q
<1>5. D * q < D * (p + 1)
  BY <1>1, <1>4
<1>6. q < p + 1
  BY <1>1, <1>4, <1>5
<1> QED BY <1>4, <1>6 DEF Day, D, p, q

LEMMA PageTail ==
    ASSUME NEW s \in Seq(Mail), s # <<>>
    PROVE  /\ Head(s) \in Mail /\ Tail(s) \in Seq(Mail)
           /\ \A i \in DOMAIN s : s[i] = Head(s) \/ \E j \in DOMAIN Tail(s) : Tail(s)[j] = s[i]
<1>1. Head(s) \in Mail /\ Tail(s) \in Seq(Mail) /\ Head(s) = s[1]
  BY HeadTailProperties
<1>2. Len(Tail(s)) = Len(s) - 1 /\ \A j \in 1..(Len(s) - 1) : Tail(s)[j] = s[j + 1]
      /\ Len(s) \in Nat /\ DOMAIN s = 1..Len(s) /\ DOMAIN Tail(s) = 1..(Len(s) - 1)
  BY HeadTailProperties
<1>3. ASSUME NEW i \in DOMAIN s, i # 1 PROVE \E j \in DOMAIN Tail(s) : Tail(s)[j] = s[i]
  <2>1. i - 1 \in 1..(Len(s) - 1) /\ (i - 1) + 1 = i
    BY <1>2, <1>3
  <2>2. Tail(s)[i - 1] = s[i]
    BY <1>2, <2>1
  <2> QED BY <1>2, <2>1, <2>2
<1> QED BY <1>1, <1>3

LEMMA PageTyped ==
    ASSUME NEW S \in SUBSET Mail, NEW page \in [1..Cardinality(S) -> S]
    PROVE  page \in Seq(Mail) /\ DOMAIN page = 1..Cardinality(S)
<1>1. Cardinality(S) \in Nat
  BY FewMails
<1>2. page \in Seq(S)
  BY <1>1
<1> QED BY <1>1, <1>2

-----------------------------------------------------------------------------
(* A round. *)

RoundRows == [step: Walking \cup {"off", "ingest", "save"}, since: Int, anchor: Int,
              cursor: CursorRows, epoch: Nat, next: Nat, first: Int, fresh: BOOLEAN,
              page: Seq(Mail), high: Int]

LEMMA RoundsTypes ==
    ASSUME RoundsInv
    PROVE  /\ mailbox \in [status: {"available", "disconnected"}, cursor: CursorRows, since: Int]
           /\ folder \in [epoch: Nat, next: Nat, uid: [Mail -> Nat], date: [Mail -> Int]]
           /\ record \in [Mail -> {"none", "pending", "done"}] /\ minute \in Int
           /\ round \in RoundRows
           /\ atStart \subseteq Mail /\ exempt \subseteq Mail
BY DEF RoundsInv, RoundsTyped, RoundRows

LEMMA NoRoundTyped == NoRound \in RoundRows /\ NoCursor \in CursorRows
<1>1. NoCursor \in CursorRows /\ <<>> \in Seq(Mail)
  BY DEF NoCursor, CursorRows
<1> QED BY <1>1 DEF NoRound, RoundRows

\* The folder, the cursor and the anchor stand.
LEMMA NothingMoved ==
    ASSUME RoundsInv, UNCHANGED <<minute, folder, mailbox, exempt>>,
           \A m \in Mail : record[m] # "none" => record'[m] # "none"
    PROVE  FolderInv' /\ OwedInv' /\ Owed' \subseteq Owed
<1>1. Owed' \subseteq Owed
  BY DEF Owed, There
<1>2. FolderInv'
  BY DEF RoundsInv, FolderInv, Fits
<1>3. OwedInv'
  BY <1>1 DEF RoundsInv, OwedInv, WithinReach
<1> QED BY <1>1, <1>2, <1>3

\* A round is over; the gate opens only after it has recorded everything.
LEMMA RoundEndsKeepsInv ==
    ASSUME RoundsInv, round' = NoRound, UNCHANGED <<minute, folder, mailbox, exempt, atStart>>,
           record' \in [Mail -> {"none", "pending", "done"}],
           health' \in {"scheduled", "started", "succeeded", "failed"},
           \A m \in Mail : record[m] # "none" => record'[m] # "none",
           health' = "succeeded" => \A m \in atStart \ exempt : record[m] # "none"
    PROVE  RoundsInv'
<1>1. RoundsTyped'
  BY NoRoundTyped DEF RoundsInv, RoundsTyped, RoundRows
<1>2. FolderInv' /\ OwedInv'
  BY NothingMoved
<1>3. NoRound.step = "off"
  BY DEF NoRound
<1>4. RoundInv' /\ WalkInv' /\ PageInv'
  BY <1>3 DEF RoundInv, WalkInv, PageInv, Walking
<1>5. GateInv'
  BY <1>3, RoundsTypes DEF RoundsInv, GateInv, There, OpenGateIsInformed
<1> QED BY <1>1, <1>2, <1>4, <1>5 DEF RoundsInv

LEMMA RoundEndsKeepInv ==
    ASSUME RoundsInv, RoundSucceeds \/ RoundFails \/ RoundDies PROVE RoundsInv'
<1>1. round.step # "off" => health = "started"
  BY DEF RoundsInv, RoundInv
<1>2. CASE RoundSucceeds
  BY <1>2, RoundEndsKeepsInv DEF RoundSucceeds, Step, RoundsInv, GateInv, RoundsTyped
<1>3. CASE RoundFails
  BY <1>3, RoundEndsKeepsInv, RoundsTypes DEF RoundFails
<1>4. CASE RoundDies
  BY <1>1, <1>4, RoundEndsKeepsInv DEF RoundDies, Step, RoundsInv, RoundsTyped
<1> QED BY <1>2, <1>3, <1>4

LEMMA RoundBeginsKeepsInv == ASSUME RoundsInv, RoundBegins PROVE RoundsInv'
<1> USE RoundsNumbers
<1>1. /\ UNCHANGED <<minute, folder, mailbox, record, exempt>> /\ health' = "started"
      /\ round' = [NoRound EXCEPT !.step = "status", !.anchor = minute - AnchorSkew,
                 !.cursor = mailbox.cursor, !.since = mailbox.since]
      /\ atStart' = {m \in Mail : There(m)}
  BY DEF RoundBegins
<1>2. mailbox.cursor \in CursorRows /\ mailbox.since \in Int /\ minute - AnchorSkew \in Int
      /\ mailbox.since <= minute - AnchorSkew
  BY RoundsTypes DEF RoundsInv, FolderInv
<1>3. /\ round' \in RoundRows /\ round'.step = "status" /\ round'.anchor = minute - AnchorSkew
      /\ round'.cursor = mailbox.cursor /\ round'.since = mailbox.since
  BY <1>1, <1>2, NoRoundTyped DEF RoundRows, Walking
<1>4. RoundsTyped'
  BY <1>1, <1>3 DEF RoundsInv, RoundsTyped, RoundRows
<1>5. FolderInv' /\ OwedInv' /\ Owed' \subseteq Owed
  BY <1>1, NothingMoved
<1>6. RoundInv'
  BY <1>1, <1>2, <1>3 DEF RoundsInv, FolderInv, RoundInv, Fits
<1>7. WalkInv' /\ PageInv'
  <2>1. round'.cursor.epoch = folder.epoch => \A m \in Owed : folder.uid[m] > round'.cursor.last
    <3>1. \A m \in Owed : WithinReach(m)
      BY DEF RoundsInv, OwedInv
    <3> QED BY <1>3, <3>1 DEF WithinReach
  <2> QED BY <1>1, <1>3, <1>5, <2>1 DEF WalkInv, PageInv
<1>8. GateInv'
  BY <1>1, <1>3 DEF GateInv, There, OpenGateIsInformed
<1> QED BY <1>4, <1>5, <1>6, <1>7, <1>8 DEF RoundsInv

LEMMA ReadStatusKeepsInv == ASSUME RoundsInv, ReadStatus PROVE RoundsInv'
<1>1. /\ UNCHANGED <<minute, folder, mailbox, record, health, atStart, exempt>>
      /\ round.step = "status"
      /\ round' = [round EXCEPT !.step = "walk", !.epoch = folder.epoch, !.next = folder.next,
                 !.fresh = round.cursor.epoch # folder.epoch]
  BY DEF ReadStatus, Step
<1>2. /\ round' \in RoundRows /\ round'.step = "walk" /\ round'.epoch = folder.epoch
      /\ round'.next = folder.next /\ round'.fresh = (round.cursor.epoch # folder.epoch)
      /\ round'.cursor = round.cursor /\ round'.since = round.since /\ round'.anchor = round.anchor
  BY <1>1, RoundsTypes DEF RoundRows, Walking
<1>3. RoundsTyped'
  BY <1>1, <1>2 DEF RoundsInv, RoundsTyped, RoundRows
<1>4. FolderInv' /\ OwedInv' /\ Owed' \subseteq Owed
  BY <1>1, NothingMoved
<1>5. RoundInv'
  <2>1. folder.epoch \in Nat /\ folder.next \in Nat /\ folder.epoch >= 1 /\ round.cursor.epoch \in Nat
    BY RoundsTypes DEF RoundsInv, FolderInv, RoundRows, CursorRows
  <2>2. Fits(round.cursor) /\ (Fits(round.cursor) => Fits(round.cursor)')
        /\ round.cursor.epoch <= folder.epoch
    BY <1>1, <1>2 DEF RoundsInv, RoundInv, Fits, Walking
  <2> QED BY <1>1, <1>2, <2>1, <2>2 DEF RoundsInv, RoundInv, Walking, Fits
<1>6. WalkInv' /\ PageInv'
  BY <1>1, <1>2, <1>4 DEF RoundsInv, WalkInv, PageInv, Walking
<1>7. GateInv'
  BY <1>1, <1>2 DEF RoundsInv, GateInv, There, OpenGateIsInformed
<1> QED BY <1>3, <1>4, <1>5, <1>6, <1>7 DEF RoundsInv

\* The walk of a fresh round starts below all mail of the anchor's day or later.
LEMMA WalkStartsBelow ==
    ASSUME RoundsInv, round.step = "walk", round.epoch = folder.epoch, round.fresh
    PROVE  /\ FirstUidSince \in Nat /\ FirstUidSince <= folder.next
           /\ \A m \in Mail : There(m) /\ folder.date[m] >= round.since =>
                  folder.uid[m] >= FirstUidSince
<1> DEFINE wanted == {n \in Mail : There(n) /\ Day(folder.date[n] + ServerAhead) >= Day(round.since)}
           found == {folder.uid[m] : m \in wanted}
<1>1. folder.next \in Nat /\ round.next \in Nat /\ round.since \in Int
      /\ \A m \in Mail : folder.uid[m] \in Nat /\ folder.date[m] \in Int /\ folder.uid[m] < folder.next
  BY RoundsTypes DEF RoundsInv, FolderInv, RoundRows
<1>2. \A m \in Mail : There(m) /\ folder.date[m] >= round.since => folder.uid[m] \in found
  <2> SUFFICES ASSUME NEW m \in Mail, There(m), folder.date[m] >= round.since
               PROVE  folder.uid[m] \in found
    OBVIOUS
  <2>1. folder.date[m] + ServerAhead \in Int /\ folder.date[m] + ServerAhead >= round.since
    BY <1>1, ZoneAssumption
  <2>2. Day(folder.date[m] + ServerAhead) >= Day(round.since)
    BY <1>1, <2>1, DaysFollow
  <2> QED BY <2>2
<1>3. CASE found = {}
  <2>1. FirstUidSince = round.next
    BY <1>3 DEF FirstUidSince
  <2>2. round.next <= folder.next
    BY DEF RoundsInv, RoundInv
  <2> QED BY <1>1, <1>2, <1>3, <2>1, <2>2
<1>4. CASE found # {}
  <2>1. found \subseteq Nat
    BY <1>1
  <2>2. FirstUidSince = Min(found)
    BY <1>4 DEF FirstUidSince
  <2>3. Min(found) \in found /\ \A n \in found : Min(found) <= n
    BY <1>4, <2>1, LeastNumber
  <2>4. \A n \in found : n \in Nat /\ n < folder.next
    BY <1>1
  <2> HIDE DEF found
  <2>5. Min(found) \in Nat /\ Min(found) <= folder.next
    BY <1>1, <2>3, <2>4
  <2> QED BY <1>1, <1>2, <2>2, <2>3, <2>4, <2>5
<1> QED BY <1>3, <1>4

LEMMA FirstUidTyped ==
    ASSUME RoundsInv PROVE FirstUidSince \in Int
<1> DEFINE wanted == {n \in Mail : There(n) /\ Day(folder.date[n] + ServerAhead) >= Day(round.since)}
           found == {folder.uid[m] : m \in wanted}
<1>1. round.next \in Nat /\ found \subseteq Nat
  BY RoundsTypes DEF RoundRows
<1>2. FirstUidSince = IF found = {} THEN round.next ELSE Min(found)
  BY DEF FirstUidSince
<1>3. found # {} => Min(found) \in found
  BY <1>1, LeastNumber
<1> HIDE DEF found
<1>4. CASE found = {}
  BY <1>1, <1>2, <1>4
<1>5. CASE found # {}
  <2>1. Min(found) \in Nat
    BY <1>1, <1>3, <1>5
  <2> QED BY <1>2, <1>5, <2>1
<1> QED BY <1>4, <1>5

LEMMA WalkKeepsInv == ASSUME RoundsInv, Walk PROVE RoundsInv'
<1> DEFINE first == IF round.fresh THEN FirstUidSince ELSE round.cursor.last + 1
<1>1. /\ UNCHANGED <<minute, folder, mailbox, record, health, atStart, exempt>>
      /\ round.step = "walk"
      /\ round' = [round EXCEPT !.step = "fetch", !.first = first, !.high = first - 1]
  BY DEF Walk, Step
<1>2. round \in RoundRows /\ round.cursor.last \in Int /\ first \in Int
      /\ folder.next \in Nat /\ folder.epoch \in Nat
  BY RoundsTypes, FirstUidTyped DEF RoundRows, CursorRows
<1>3. (round.epoch = folder.epoch /\ round.fresh) =>
          /\ first <= folder.next
          /\ \A m \in Mail : There(m) /\ folder.date[m] >= round.since => folder.uid[m] >= first
  BY <1>1, WalkStartsBelow
<1>4. ~round.fresh => first = round.cursor.last + 1
  OBVIOUS
<1> HIDE DEF first
<1> DEFINE high == first - 1
<1>13. high \in Int
  BY <1>2
<1>14. round' = [round EXCEPT !.step = "fetch", !.first = first, !.high = high]
  BY <1>1
<1> HIDE DEF high
<1>5. /\ round' \in RoundRows /\ round'.step = "fetch" /\ round'.first = first
      /\ round'.high = high
      /\ round'.cursor = round.cursor /\ round'.since = round.since /\ round'.anchor = round.anchor
      /\ round'.epoch = round.epoch /\ round'.next = round.next /\ round'.fresh = round.fresh
  BY <1>2, <1>13, <1>14 DEF RoundRows, Walking
<1> USE DEF high
<1>6. RoundsTyped'
  BY <1>1, <1>5 DEF RoundsInv, RoundsTyped, RoundRows
<1>7. FolderInv' /\ OwedInv' /\ Owed' \subseteq Owed
  BY <1>1, NothingMoved
<1>8. RoundInv'
  <2>1. /\ round.step # "off" => health = "started"
        /\ mailbox.since = round.since /\ mailbox.cursor \in {round.cursor, NoCursor}
        /\ round.since <= round.anchor /\ round.anchor <= minute - AnchorSkew
        /\ Fits(round.cursor)
        /\ 1 <= round.epoch /\ round.epoch <= folder.epoch
        /\ round.cursor.epoch <= round.epoch
        /\ round.fresh = (round.cursor.epoch # round.epoch)
        /\ round.epoch = folder.epoch => round.next <= folder.next
    BY <1>1 DEF RoundsInv, RoundInv, Walking
  <2>2. round.epoch = folder.epoch => first <= folder.next /\ first - 1 < folder.next
    <3>1. CASE round.fresh
      BY <1>2, <1>3, <3>1
    <3>2. CASE ~round.fresh
      <4>1. round.epoch = folder.epoch => round.cursor.last < folder.next
        BY <2>1, <3>2 DEF Fits
      <4> QED BY <1>2, <1>4, <3>2, <4>1
    <3> QED BY <3>1, <3>2, <1>2 DEF RoundRows
  <2>3. Fits(round.cursor)'
    BY <1>1, <1>5, <2>1 DEF Fits
  <2> QED BY <1>1, <1>5, <2>1, <2>2, <2>3 DEF RoundInv
<1>9. WalkInv'
  <2>1. round.cursor.epoch = folder.epoch => \A m \in Owed : folder.uid[m] > round.cursor.last
    BY <1>1 DEF RoundsInv, WalkInv, Walking
  <2>2. \A m \in Owed : m \in Mail /\ There(m)
    BY DEF Owed
  <2> QED BY <1>1, <1>3, <1>4, <1>5, <1>7, <2>1, <2>2 DEF WalkInv
<1>10. PageInv' /\ GateInv'
  BY <1>1, <1>5 DEF RoundsInv, PageInv, GateInv, There, OpenGateIsInformed
<1> QED BY <1>6, <1>7, <1>8, <1>9, <1>10 DEF RoundsInv

\* The fetch reads everything that is owed.
LEMMA FetchReadsOwed ==
    ASSUME RoundsInv, round.step = "fetch", round.epoch = folder.epoch, NEW m \in Owed
    PROVE  m \in Mail /\ There(m) /\ folder.uid[m] >= round.first /\ Eligible(m)
<1>1. m \in Mail /\ There(m) /\ WithinReach(m) /\ folder.uid[m] \in Nat
  BY RoundsTypes DEF RoundsInv, OwedInv, Owed
<1>2. /\ mailbox.since = round.since /\ mailbox.cursor \in {round.cursor, NoCursor}
      /\ round.fresh = (round.cursor.epoch # round.epoch) /\ round.epoch >= 1
  BY DEF RoundsInv, RoundInv, Walking
<1>3. CASE round.fresh
  <2>1. mailbox.cursor.epoch # folder.epoch
    <3>1. round.cursor.epoch # folder.epoch /\ folder.epoch >= 1
      BY <1>2, <1>3
    <3>2. CASE mailbox.cursor = round.cursor
      BY <3>1, <3>2
    <3>3. CASE mailbox.cursor = NoCursor
      BY <3>1, <3>3 DEF NoCursor
    <3> QED BY <1>2, <3>2, <3>3
  <2>2. folder.date[m] >= round.since
    BY <1>1, <1>2, <2>1 DEF WithinReach
  <2> QED BY <1>1, <1>3, <2>2 DEF RoundsInv, WalkInv, Eligible
<1>4. CASE ~round.fresh
  <2>1. folder.uid[m] > round.cursor.last /\ round.first = round.cursor.last + 1
    BY <1>2, <1>4 DEF RoundsInv, WalkInv, Walking
  <2>2. round.cursor.last \in Int
    BY RoundsTypes DEF RoundRows, CursorRows
  <2> QED BY <1>1, <1>4, <2>1, <2>2 DEF Eligible
<1> QED BY <1>3, <1>4

LEMMA FetchKeepsInv == ASSUME RoundsInv, Fetch PROVE RoundsInv'
<1> DEFINE fresh == {m \in Mail : There(m) /\ folder.uid[m] >= round.first}
           wanted == {m \in fresh : Eligible(m)}
           uids == {round.high} \cup {folder.uid[m] : m \in fresh}
           high == Max(uids)
<1>1. /\ UNCHANGED <<minute, folder, mailbox, record, health, atStart, exempt>>
      /\ round.step = "fetch" /\ round.epoch = folder.epoch
  BY DEF Fetch, Step
<1>2. PICK page \in [1..Cardinality(wanted) -> wanted] :
          /\ InUidOrder(wanted, page)
          /\ round' = [round EXCEPT !.step = "ingest", !.page = page, !.high = high]
  BY DEF Fetch
<1>3. page \in Seq(Mail) /\ \A m \in wanted : \E i \in DOMAIN page : page[i] = m
  <2>1. wanted \in SUBSET Mail
    OBVIOUS
  <2> HIDE DEF wanted
  <2> QED BY <1>2, <2>1, PageTyped DEF InUidOrder
<1>4. high \in Int /\ high < folder.next
  <2>1. /\ round.high \in Int /\ round.high < folder.next /\ folder.next \in Int
        /\ \A m \in Mail : folder.uid[m] \in Int /\ folder.uid[m] < folder.next
    BY <1>1, RoundsTypes DEF RoundsInv, RoundInv, FolderInv, RoundRows
  <2>2. uids \subseteq Int /\ uids # {} /\ \A n \in uids : n < folder.next
    BY <2>1
  <2> HIDE DEF uids
  <2>3. Max(uids) \in uids
    BY <2>1, <2>2, LargestNumber
  <2> QED BY <2>2, <2>3
<1>5. \A m \in Owed : m \in wanted
  BY <1>1, FetchReadsOwed
<1> HIDE DEF fresh, wanted, uids, high
<1>6. /\ round' \in RoundRows /\ round'.step = "ingest" /\ round'.page = page
      /\ round'.high = high
      /\ round'.cursor = round.cursor /\ round'.since = round.since /\ round'.anchor = round.anchor
      /\ round'.epoch = round.epoch /\ round'.next = round.next /\ round'.fresh = round.fresh
      /\ round'.first = round.first
  BY <1>2, <1>3, <1>4, RoundsTypes DEF RoundRows, Walking
<1>7. RoundsTyped'
  BY <1>1, <1>6 DEF RoundsInv, RoundsTyped, RoundRows
<1>8. FolderInv' /\ OwedInv' /\ Owed' \subseteq Owed
  BY <1>1, NothingMoved
<1>9. RoundInv'
  <2>1. Fits(round.cursor)'
    BY <1>1, <1>6 DEF RoundsInv, RoundInv, Walking, Fits
  <2> QED BY <1>1, <1>4, <1>6, <2>1 DEF RoundsInv, RoundInv, Walking
<1>10. WalkInv'
  BY <1>6 DEF WalkInv, Walking
<1>11. \A m \in wanted : Listed(m)'
  BY <1>3, <1>6 DEF Listed
<1>12. PageInv'
  BY <1>5, <1>8, <1>11 DEF PageInv
<1>13. GateInv'
  <2>1. \A m \in atStart \ exempt : record[m] = "none" => m \in Owed
    BY RoundsTypes DEF RoundsInv, GateInv, Owed
  <2> QED BY <1>1, <1>5, <1>6, <1>11, <2>1 DEF RoundsInv, GateInv, There, OpenGateIsInformed
<1> QED BY <1>7, <1>8, <1>9, <1>10, <1>12, <1>13 DEF RoundsInv

LEMMA IngestKeepsInv == ASSUME RoundsInv, Ingest PROVE RoundsInv'
<1> DEFINE mail == Head(round.page)
<1>1. /\ UNCHANGED <<minute, folder, mailbox, health, atStart, exempt>>
      /\ round.step = "ingest" /\ round.page # <<>>
      /\ round' = [round EXCEPT !.page = Tail(round.page)]
  BY DEF Ingest, Step
<1>2. round \in RoundRows /\ round.page \in Seq(Mail)
  BY RoundsTypes DEF RoundRows
<1>3. /\ mail \in Mail /\ Tail(round.page) \in Seq(Mail)
      /\ \A i \in DOMAIN round.page :
            round.page[i] = mail \/ \E j \in DOMAIN Tail(round.page) : Tail(round.page)[j] = round.page[i]
  BY <1>1, <1>2, PageTail
<1>4. /\ round' \in RoundRows /\ round'.page = Tail(round.page)
      /\ round'.step = "ingest"
      /\ round'.cursor = round.cursor /\ round'.since = round.since /\ round'.anchor = round.anchor
      /\ round'.epoch = round.epoch /\ round'.next = round.next /\ round'.fresh = round.fresh
      /\ round'.first = round.first /\ round'.high = round.high
  BY <1>1, <1>2, <1>3 DEF RoundRows
<1> HIDE DEF mail
<1>5. /\ record' \in [Mail -> {"none", "pending", "done"}] /\ record'[mail] # "none"
      /\ \A m \in Mail : record[m] # "none" => record'[m] # "none"
      /\ \A m \in Mail \ {mail} : record'[m] = record[m]
  BY <1>3, RoundsTypes DEF Ingest, mail
<1>6. \A m \in Mail \ {mail} : Listed(m) => Listed(m)'
  BY <1>3, <1>4 DEF Listed
<1>7. RoundsTyped'
  BY <1>1, <1>4, <1>5 DEF RoundsInv, RoundsTyped, RoundRows
<1>8. FolderInv' /\ OwedInv' /\ Owed' \subseteq Owed
  BY <1>1, <1>5, NothingMoved
<1>9. RoundInv'
  <2>1. Fits(round.cursor)'
    BY <1>1, <1>4 DEF RoundsInv, RoundInv, Walking, Fits
  <2> QED BY <1>1, <1>4, <2>1 DEF RoundsInv, RoundInv, Walking
<1>10. WalkInv'
  BY <1>4 DEF WalkInv, Walking
<1>11. \A m \in Owed' : m # mail /\ m \in Mail
  BY <1>5 DEF Owed
<1>12. PageInv'
  BY <1>1, <1>4, <1>6, <1>8, <1>11 DEF RoundsInv, PageInv, Later
<1>13. GateInv'
  BY <1>1, <1>4, <1>5, <1>6, RoundsTypes DEF RoundsInv, GateInv, There, OpenGateIsInformed
<1> QED BY <1>7, <1>8, <1>9, <1>10, <1>12, <1>13 DEF RoundsInv

LEMMA SaveCursorKeepsInv == ASSUME RoundsInv, SaveCursor PROVE RoundsInv'
<1> USE RoundsNumbers
<1>1. /\ UNCHANGED <<minute, folder, record, health, atStart, exempt>>
      /\ round.step = "ingest" /\ round.page = <<>>
      /\ mailbox' = [mailbox EXCEPT !.cursor = [epoch |-> round.epoch, last |-> round.high],
                                    !.since = round.anchor]
      /\ round' = [round EXCEPT !.step = "save"]
  BY DEF SaveCursor, Step, Go, Anchor
<1>2. /\ round \in RoundRows /\ round.epoch \in Nat /\ round.high \in Int /\ round.anchor \in Int
      /\ mailbox \in [status: {"available", "disconnected"}, cursor: CursorRows, since: Int]
  BY RoundsTypes DEF RoundRows
<1>3. /\ round' \in RoundRows /\ round'.step = "save"
      /\ round'.cursor = round.cursor /\ round'.epoch = round.epoch /\ round'.next = round.next
      /\ round'.fresh = round.fresh /\ round'.first = round.first /\ round'.high = round.high
  BY <1>1, <1>2 DEF RoundRows
<1>4. /\ mailbox' \in [status: {"available", "disconnected"}, cursor: CursorRows, since: Int]
      /\ mailbox'.cursor.epoch = round.epoch /\ mailbox'.cursor.last = round.high
      /\ mailbox'.since = round.anchor
  BY <1>1, <1>2 DEF CursorRows
<1>5. RoundsTyped'
  BY <1>1, <1>3, <1>4 DEF RoundsInv, RoundsTyped, RoundRows
<1>6. /\ 1 <= round.epoch /\ round.epoch <= folder.epoch
      /\ round.epoch = folder.epoch => round.high < folder.next
      /\ round.anchor <= minute - AnchorSkew
  BY <1>1 DEF RoundsInv, RoundInv
<1>7. FolderInv'
  BY <1>1, <1>4, <1>6 DEF RoundsInv, FolderInv, Fits
<1>8. Owed' = Owed /\ \A m \in Owed : Later(m)
  <2>1. \A m : ~Listed(m)
    BY <1>1 DEF Listed
  <2> QED BY <1>1, <2>1 DEF RoundsInv, PageInv, Owed, There
<1>9. OwedInv'
  BY <1>1, <1>4, <1>8 DEF OwedInv, Later, WithinReach
<1>10. RoundInv'
  BY <1>1, <1>3 DEF RoundsInv, RoundInv, Walking
<1>11. WalkInv' /\ PageInv'
  BY <1>3 DEF WalkInv, PageInv, Walking
<1>12. GateInv'
  <2>1. \A m : ~Listed(m)
    BY <1>1 DEF Listed
  <2> QED BY <1>1, <1>3, <2>1 DEF RoundsInv, GateInv, There, OpenGateIsInformed, RoundsTyped
<1> QED BY <1>5, <1>7, <1>9, <1>10, <1>11, <1>12 DEF RoundsInv

LEMMA RoundsInvStep == RoundsInv /\ [InboundNext]_inboundVars => RoundsInv'
<1> SUFFICES ASSUME RoundsInv, [InboundNext]_inboundVars PROVE RoundsInv'
  OBVIOUS
<1>1. CASE UNCHANGED inboundVars
  BY <1>1 DEF inboundVars, RoundsInv, RoundsTyped, FolderInv, OwedInv, RoundInv, WalkInv, PageInv,
     GateInv, Owed, There, Fits, WithinReach, Listed, Later, OpenGateIsInformed
<1>2. CASE RoundStep
  BY <1>2, RoundBeginsKeepsInv, ReadStatusKeepsInv, WalkKeepsInv, FetchKeepsInv, IngestKeepsInv,
     SaveCursorKeepsInv, RoundEndsKeepInv DEF RoundStep
<1>3. CASE InboundNext /\ ~RoundStep
  BY <1>3, ArriveKeepsInv, MoveInKeepsInv, QuietKeepsInv, RecreateKeepsInv, CursorGoneKeepsInv
     DEF InboundNext
<1> QED BY <1>1, <1>2, <1>3

LEMMA RoundsInvariance == InboundSpec => []RoundsInv
BY RoundsInvInit, RoundsInvStep, PTL DEF InboundSpec

\* Mail nobody has recorded is mail the next round fetches, whatever the folder,
\* the clocks, crashes and reconnections do at whichever step of a round
\* (readInboundPage, resolveBackfillStartUid, createInboundCursorWriter).
THEOREM NoMailIsOutOfReach == InboundSpec => []NothingIsOutOfReach
<1>1. RoundsInv => NothingIsOutOfReach
  BY DEF RoundsInv, OwedInv, Owed, NothingIsOutOfReach
<1> QED BY <1>1, RoundsInvariance, PTL

\* The send gate is open only on what was read: everything that was in the inbox
\* when the round of the health event began is recorded.
THEOREM TheGateIsInformed == InboundSpec => []OpenGateIsInformed
<1>1. RoundsInv => OpenGateIsInformed
  BY DEF RoundsInv, GateInv
<1> QED BY <1>1, RoundsInvariance, PTL

-----------------------------------------------------------------------------
(* The tokens of a connection (GraphTokens). *)

CallbackRows == [step: {"off", "read", "exchange", "write", "over"},
                 request: Requests \cup {"none"}, grant: Grants \cup {"none"}]

\* A consent that was given: nothing takes it back to where it was not.
Given(g) == g \in Grants /\ grant[g] # "none"

TokenRowsOK ==
    /\ TokensTypeOK
    /\ callback \in [Callbacks -> CallbackRows]
    /\ refresh \in [step: {"off", "asked", "granted", "refused"}, token: Tokens]

\* Every token in use or in an answer is of a consent that was given; a refusal
\* is for good.
TokensOK ==
    /\ account.token # NoToken => Given(account.token.grant)
    /\ refresh.step # "off" => refresh.token # NoToken /\ Given(refresh.token.grant)
    /\ refresh.step = "refused" => grant[refresh.token.grant] = "refused"
    /\ \A c \in Callbacks : callback[c].step = "write" => Given(callback[c].grant)

\* Who exchanges a code has consumed its request.
ConsumedOK ==
    \A c \in Callbacks :
        /\ callback[c].step \in {"read", "exchange", "write"} => callback[c].request \in Requests
        /\ callback[c].step \in {"exchange", "write"} =>
               request[callback[c].request] = "consumed"

TokenInv == TokenRowsOK /\ TokensOK /\ ConsumedOK /\ StatesAreUsedOnce

LEMMA TokenInvInit == TokensInit => TokenInv
<1> SUFFICES ASSUME TokensInit PROVE TokenInv
  OBVIOUS
<1>1. NoToken \in Tokens /\ refresh = RefreshOff /\ account = [status |-> "absent", token |-> NoToken]
  BY DEF TokensInit, Tokens
<1>2. \A c \in Callbacks : callback[c] = CallbackOff
  BY DEF TokensInit
<1>3. callback \in [Callbacks -> CallbackRows]
  BY DEF TokensInit, CallbackRows, CallbackOff
<1>4. TokensTypeOK
  <2>1. account \in [status: {"absent", "available", "revoked", "disconnected"}, token: Tokens]
    BY <1>1
  <2>2. refresh.step = "off" /\ refresh.token \in Tokens
    BY <1>1 DEF RefreshOff
  <2>3. \A c \in Callbacks : callback[c].step = "off" /\ callback[c].request = "none"
                             /\ callback[c].grant = "none"
    BY <1>2 DEF CallbackOff
  <2> QED BY <2>1, <2>2, <2>3 DEF TokensInit, TokensTypeOK
<1>5. refresh \in [step: {"off", "asked", "granted", "refused"}, token: Tokens]
  BY <1>1 DEF RefreshOff
<1>6. TokensOK /\ ConsumedOK /\ StatesAreUsedOnce
  BY <1>1, <1>2 DEF TokensOK, ConsumedOK, StatesAreUsedOnce, CallbackOff, RefreshOff
<1> QED BY <1>3, <1>4, <1>5, <1>6 DEF TokenInv, TokenRowsOK

LEMMA RequestsKeepTokenInv ==
    ASSUME TokenInv, NEW r \in Requests, BeginAuthorization(r) \/ RequestExpires(r)
    PROVE  TokenInv'
<1>1. request \in [Requests -> {"none", "open", "expired", "consumed"}]
  BY DEF TokenInv, TokenRowsOK, TokensTypeOK
<1>2. TokenRowsOK' /\ TokensOK' /\ StatesAreUsedOnce'
  BY <1>1 DEF TokenInv, TokenRowsOK, TokensOK, StatesAreUsedOnce, TokensTypeOK, Given,
     BeginAuthorization, RequestExpires
<1>3. ConsumedOK'
  BY <1>1 DEF TokenInv, ConsumedOK, BeginAuthorization, RequestExpires
<1> QED BY <1>2, <1>3 DEF TokenInv

LEMMA CallbackKeepsTokenInv ==
    ASSUME TokenInv, NEW c \in Callbacks,
           (\E r \in Requests : ReadState(c, r)) \/ CallbackFails(c)
    PROVE  TokenInv'
<1>1. callback \in [Callbacks -> CallbackRows] /\ UNCHANGED <<account, grant, request, refresh, leaving>>
  BY DEF TokenInv, TokenRowsOK, ReadState, CallbackFails
<1>2. /\ callback' \in [Callbacks -> CallbackRows]
      /\ callback'[c].step \in {"read", "over"}
      /\ callback'[c].step = "read" => callback'[c].request \in Requests
      /\ \A d \in Callbacks \ {c} : callback'[d] = callback[d]
  BY <1>1 DEF ReadState, CallbackFails, Move, CallbackRows
<1>3. TokenRowsOK'
  BY <1>1, <1>2 DEF TokenInv, TokenRowsOK, TokensTypeOK, CallbackRows
<1>4. TokensOK' /\ ConsumedOK'
  BY <1>1, <1>2 DEF TokenInv, TokensOK, ConsumedOK, Given
<1>5. StatesAreUsedOnce'
  BY <1>1, <1>2 DEF TokenInv, StatesAreUsedOnce
<1> QED BY <1>3, <1>4, <1>5 DEF TokenInv

LEMMA ClaimKeepsTokenInv ==
    ASSUME TokenInv, NEW c \in Callbacks, ClaimState(c) PROVE TokenInv'
<1> DEFINE r == callback[c].request
<1>1. /\ callback \in [Callbacks -> CallbackRows] /\ r \in Requests
      /\ request \in [Requests -> {"none", "open", "expired", "consumed"}]
      /\ UNCHANGED <<account, grant, refresh, leaving>>
  BY DEF TokenInv, TokenRowsOK, TokensTypeOK, ConsumedOK, ClaimState
<1>2. /\ callback' \in [Callbacks -> CallbackRows]
      /\ request' \in [Requests -> {"none", "open", "expired", "consumed"}]
      /\ callback'[c].request = r
      /\ callback'[c].step \in {"over", "exchange"}
      /\ callback'[c].step = "exchange" => request[r] # "consumed" /\ request'[r] = "consumed"
      /\ \A d \in Callbacks \ {c} : callback'[d] = callback[d]
      /\ \A q \in Requests : request[q] = "consumed" => request'[q] = "consumed"
  BY <1>1 DEF ClaimState, Move, CallbackRows
<1>3. TokenRowsOK'
  BY <1>1, <1>2 DEF TokenInv, TokenRowsOK, TokensTypeOK, CallbackRows
<1>4. TokensOK'
  BY <1>1, <1>2 DEF TokenInv, TokensOK, Given
<1>5. ConsumedOK'
  BY <1>1, <1>2 DEF TokenInv, ConsumedOK
<1>6. StatesAreUsedOnce'
  <2>1. ASSUME NEW d \in Callbacks \ {c}, callback[d].step \in {"exchange", "write"},
               callback'[c].step = "exchange"
        PROVE  callback[d].request # r
    BY <1>2, <2>1 DEF TokenInv, ConsumedOK
  <2> QED BY <1>2, <2>1 DEF TokenInv, StatesAreUsedOnce
<1> QED BY <1>3, <1>4, <1>5, <1>6 DEF TokenInv

LEMMA ExchangeKeepsTokenInv ==
    ASSUME TokenInv, NEW c \in Callbacks, Exchange(c) PROVE TokenInv'
<1>1. PICK g \in Grants :
          /\ grant[g] = "none" /\ grant' = [grant EXCEPT ![g] = "live"]
          /\ callback' = [callback EXCEPT ![c].step = "write", ![c].grant = g]
  BY DEF Exchange
<1>2. callback[c].step = "exchange" /\ UNCHANGED <<account, request, refresh, leaving>>
  BY DEF Exchange
<1>3. callback \in [Callbacks -> CallbackRows] /\ grant \in [Grants -> {"none", "live", "refused"}]
  BY DEF TokenInv, TokenRowsOK, TokensTypeOK
<1>4. /\ callback' \in [Callbacks -> CallbackRows]
      /\ callback'[c].step = "write" /\ callback'[c].grant = g
      /\ callback'[c].request = callback[c].request
      /\ \A d \in Callbacks \ {c} : callback'[d] = callback[d]
      /\ grant' \in [Grants -> {"none", "live", "refused"}]
  BY <1>1, <1>3 DEF CallbackRows
<1>5. Given(g)' /\ \A h : Given(h) => Given(h)' /\ grant'[h] = grant[h]
  BY <1>1, <1>3 DEF Given
<1>6. TokenRowsOK'
  BY <1>2, <1>4 DEF TokenInv, TokenRowsOK, TokensTypeOK, CallbackRows
<1>7. TokensOK'
  BY <1>2, <1>4, <1>5 DEF TokenInv, TokensOK
<1>8. ConsumedOK' /\ StatesAreUsedOnce'
  BY <1>2, <1>4 DEF TokenInv, ConsumedOK, StatesAreUsedOnce
<1> QED BY <1>6, <1>7, <1>8 DEF TokenInv

LEMMA FreshTokenTyped ==
    ASSUME NEW g \in Grants, NEW t \in FreshToken(g)
    PROVE  t \in Tokens /\ t.grant = g
<1>1. t \in [grant: {g}, write: Writes] /\ t.grant = g
  BY DEF FreshToken
<1>2. t \in [grant: Grants, write: Writes]
  BY <1>1
<1> QED BY <1>1, <1>2 DEF Tokens

\* The row changes to a token of a consent that was given, or to none.
LEMMA AccountKeepsTokenInv ==
    ASSUME TokenInv, UNCHANGED <<grant, request>>,
           account' \in [status: {"absent", "available", "revoked", "disconnected"}, token: Tokens],
           account'.token # NoToken => Given(account'.token.grant),
           leaving' \in BOOLEAN,
           refresh' = refresh \/ refresh' = RefreshOff,
           callback' \in [Callbacks -> CallbackRows],
           \A c \in Callbacks : callback'[c] = callback[c] \/ callback'[c].step = "over"
    PROVE  TokenInv'
<1>1. NoToken \in Tokens
  BY DEF Tokens
<1>2. refresh' \in [step: {"off", "asked", "granted", "refused"}, token: Tokens]
  BY <1>1 DEF TokenInv, TokenRowsOK, RefreshOff
<1>3. TokenRowsOK'
  BY <1>2 DEF TokenInv, TokenRowsOK, TokensTypeOK, CallbackRows
<1>4. TokensOK' /\ ConsumedOK' /\ StatesAreUsedOnce'
  BY DEF TokenInv, TokensOK, ConsumedOK, StatesAreUsedOnce, Given, RefreshOff
<1> QED BY <1>3, <1>4 DEF TokenInv

LEMMA WriteConnectionKeepsTokenInv ==
    ASSUME TokenInv, NEW c \in Callbacks, WriteConnection(c) PROVE TokenInv'
<1>1. Given(callback[c].grant) /\ callback \in [Callbacks -> CallbackRows]
  BY DEF TokenInv, TokensOK, TokenRowsOK, WriteConnection
<1>2. PICK t \in FreshToken(callback[c].grant) : account' = [status |-> "available", token |-> t]
  BY DEF WriteConnection
<1>3. t \in Tokens /\ t.grant = callback[c].grant
  BY <1>1, <1>2, FreshTokenTyped DEF Given
<1>4. callback' \in [Callbacks -> CallbackRows]
      /\ \A d \in Callbacks : callback'[d] = callback[d] \/ callback'[d].step = "over"
  BY <1>1 DEF WriteConnection, Move, CallbackRows
<1>5. Given(account'.token.grant)
      /\ account' \in [status: {"absent", "available", "revoked", "disconnected"}, token: Tokens]
  BY <1>1, <1>2, <1>3
<1> QED BY <1>4, <1>5, AccountKeepsTokenInv DEF WriteConnection, TokenInv, TokenRowsOK, TokensTypeOK

LEMMA RefreshBeginsKeepsTokenInv ==
    ASSUME TokenInv, RefreshBegins \/ RefreshAnswered PROVE TokenInv'
<1>1. /\ refresh \in [step: {"off", "asked", "granted", "refused"}, token: Tokens]
      /\ account.token \in Tokens /\ grant \in [Grants -> {"none", "live", "refused"}]
  BY DEF TokenInv, TokenRowsOK, TokensTypeOK
<1>2. UNCHANGED <<account, grant, request, callback, leaving>>
  BY DEF RefreshBegins, RefreshAnswered
<1>3. /\ refresh' \in [step: {"off", "asked", "granted", "refused"}, token: Tokens]
      /\ refresh'.token # NoToken /\ Given(refresh'.token.grant)
      /\ refresh'.step = "refused" => grant[refresh'.token.grant] = "refused"
  <2>1. CASE RefreshBegins
    BY <1>1, <2>1 DEF RefreshBegins, TokenInv, TokensOK
  <2>2. CASE RefreshAnswered
    <3>1. refresh.token # NoToken /\ Given(refresh.token.grant)
      BY <2>2 DEF RefreshAnswered, TokenInv, TokensOK
    <3> DEFINE answer == IF grant[refresh.token.grant] = "live" THEN "granted" ELSE "refused"
    <3>2. answer \in {"granted", "refused"}
      OBVIOUS
    <3>3. answer = "refused" => grant[refresh.token.grant] = "refused"
      BY <1>1, <3>1 DEF Given
    <3>4. refresh' = [refresh EXCEPT !.step = answer]
      BY <2>2 DEF RefreshAnswered
    <3> HIDE DEF answer
    <3> QED BY <1>1, <3>1, <3>2, <3>3, <3>4 DEF Given
  <2> QED BY <2>1, <2>2
<1>4. TokenRowsOK'
  BY <1>2, <1>3 DEF TokenInv, TokenRowsOK, TokensTypeOK
<1>5. TokensOK' /\ ConsumedOK' /\ StatesAreUsedOnce'
  BY <1>2, <1>3 DEF TokenInv, TokensOK, ConsumedOK, StatesAreUsedOnce, Given
<1> QED BY <1>4, <1>5 DEF TokenInv

LEMMA RefreshEndsKeepsTokenInv ==
    ASSUME TokenInv, StoreToken \/ Revoke \/ RefreshFails PROVE TokenInv'
<1>1. account \in [status: {"absent", "available", "revoked", "disconnected"}, token: Tokens]
      /\ leaving \in BOOLEAN /\ callback \in [Callbacks -> CallbackRows]
      /\ (account.token # NoToken => Given(account.token.grant))
      /\ NoToken \in Tokens
  BY DEF TokenInv, TokenRowsOK, TokensTypeOK, TokensOK, Tokens
<1>2. UNCHANGED <<grant, request, callback, leaving>> /\ refresh' = RefreshOff
  BY DEF StoreToken, Revoke, RefreshFails
<1>3. /\ account' \in [status: {"absent", "available", "revoked", "disconnected"}, token: Tokens]
      /\ account'.token # NoToken => Given(account'.token.grant)
  <2>1. CASE account' = account
    BY <1>1, <2>1 DEF Given
  <2>2. CASE StoreToken /\ account' # account
    <3>1. Given(refresh.token.grant)
      BY <2>2 DEF StoreToken, TokenInv, TokensOK
    <3>2. PICK t \in FreshToken(refresh.token.grant) : account' = [status |-> "available", token |-> t]
      BY <2>2 DEF StoreToken
    <3>3. t \in Tokens /\ t.grant = refresh.token.grant
      BY <3>1, <3>2, FreshTokenTyped DEF Given
    <3> QED BY <3>1, <3>2, <3>3
  <2>3. CASE Revoke /\ account' # account
    BY <1>1, <2>3 DEF Revoke
  <2> QED BY <2>1, <2>2, <2>3 DEF StoreToken, Revoke, RefreshFails
<1> QED BY <1>1, <1>2, <1>3, AccountKeepsTokenInv

LEMMA ConsentWithdrawnKeepsTokenInv ==
    ASSUME TokenInv, NEW g \in Grants, ConsentWithdrawn(g) PROVE TokenInv'
<1>1. /\ grant \in [Grants -> {"none", "live", "refused"}]
      /\ grant' = [grant EXCEPT ![g] = "refused"] /\ grant[g] = "live"
      /\ UNCHANGED <<account, request, callback, refresh, leaving>>
  BY DEF TokenInv, TokenRowsOK, TokensTypeOK, ConsentWithdrawn
<1>2. /\ grant' \in [Grants -> {"none", "live", "refused"}]
      /\ \A h : Given(h) => Given(h)'
      /\ \A h : grant[h] = "refused" /\ Given(h) => grant'[h] = "refused"
  BY <1>1 DEF Given
<1>3. TokenRowsOK'
  BY <1>1, <1>2 DEF TokenInv, TokenRowsOK, TokensTypeOK
<1>4. TokensOK' /\ ConsumedOK' /\ StatesAreUsedOnce'
  BY <1>1, <1>2 DEF TokenInv, TokensOK, ConsumedOK, StatesAreUsedOnce
<1> QED BY <1>3, <1>4 DEF TokenInv

LEMMA DisconnectionKeepsTokenInv ==
    ASSUME TokenInv, DisconnectReads \/ DisconnectWrites PROVE TokenInv'
<1>1. /\ account' \in [status: {"absent", "available", "revoked", "disconnected"}, token: Tokens]
      /\ account'.token # NoToken => Given(account'.token.grant)
      /\ leaving' \in BOOLEAN
  <2>1. NoToken \in Tokens
    BY DEF Tokens
  <2>2. CASE DisconnectReads
    BY <2>2 DEF TokenInv, TokenRowsOK, TokensTypeOK, TokensOK, DisconnectReads, Given
  <2>3. CASE DisconnectWrites
    BY <2>1, <2>3 DEF DisconnectWrites
  <2> QED BY <2>2, <2>3
<1>2. UNCHANGED <<grant, request, callback, refresh>> /\ callback \in [Callbacks -> CallbackRows]
  BY DEF DisconnectReads, DisconnectWrites, TokenInv, TokenRowsOK
<1> QED BY <1>1, <1>2, AccountKeepsTokenInv

LEMMA TokenInvStep == TokenInv /\ [TokensNext]_tokenVars => TokenInv'
<1> SUFFICES ASSUME TokenInv, [TokensNext]_tokenVars PROVE TokenInv'
  OBVIOUS
<1>1. CASE UNCHANGED tokenVars
  BY <1>1 DEF tokenVars, TokenInv, TokenRowsOK, TokensOK, ConsumedOK, StatesAreUsedOnce,
     TokensTypeOK, Given
<1>2. CASE TokensNext
  BY <1>2, RequestsKeepTokenInv, CallbackKeepsTokenInv, ClaimKeepsTokenInv, ExchangeKeepsTokenInv,
     WriteConnectionKeepsTokenInv, RefreshBeginsKeepsTokenInv, RefreshEndsKeepsTokenInv,
     ConsentWithdrawnKeepsTokenInv, DisconnectionKeepsTokenInv DEF TokensNext
<1> QED BY <1>1, <1>2

LEMMA TokenInvariance == TokensSpec => []TokenInv
<1> QED BY TokenInvInit, TokenInvStep, PTL DEF TokensSpec

\* However often the browser delivers a redirect, its code is exchanged once
\* (consumeMicrosoftAuthorizationState).
THEOREM RedirectsAreUsedOnce == TokensSpec => []StatesAreUsedOnce
<1>1. TokenInv => StatesAreUsedOnce
  BY DEF TokenInv
<1> QED BY <1>1, TokenInvariance, PTL

\* A token of another consent comes with a callback alone.
LEMMA OnlyCallbacksReplace ==
    ASSUME TokenInv, TokensNext, account'.token # NoToken,
           account'.token.grant # account.token.grant
    PROVE  \E c \in Callbacks : callback[c].step = "write" /\ callback'[c].step = "over"
<1>1. ASSUME NEW c \in Callbacks, WriteConnection(c)
      PROVE  callback[c].step = "write" /\ callback'[c].step = "over"
  <2>1. callback \in [Callbacks -> CallbackRows]
    BY DEF TokenInv, TokenRowsOK
  <2> QED BY <1>1, <2>1 DEF WriteConnection, Move, CallbackRows
<1>2. ~StoreToken
  <2> SUFFICES ASSUME StoreToken PROVE FALSE
    OBVIOUS
  <2>1. account.token = refresh.token
    BY DEF StoreToken
  <2>2. PICK t \in FreshToken(refresh.token.grant) : account' = [status |-> "available", token |-> t]
    BY <2>1 DEF StoreToken
  <2>3. t.grant = refresh.token.grant
    BY <2>2, FreshTokenTyped DEF FreshToken
  <2> QED BY <2>1, <2>2, <2>3
<1>3. ~Revoke /\ ~DisconnectWrites
  BY DEF Revoke, DisconnectWrites
<1>4. account' # account
  OBVIOUS
<1> QED BY <1>1, <1>2, <1>3, <1>4 DEF TokensNext, BeginAuthorization, RequestExpires, ReadState,
           ClaimState, Exchange, CallbackFails, RefreshBegins, RefreshAnswered, RefreshFails,
           ConsentWithdrawn, DisconnectReads

\* A mailbox is revoked for a refusal of what it lives on.
LEMMA OnlyRefusalRevokes ==
    ASSUME TokenInv, TokensNext, account'.status = "revoked", account.status # "revoked"
    PROVE  account.token # NoToken /\ grant[account.token.grant] = "refused"
<1>1. Revoke
  <2>1. \A t : [status |-> "available", token |-> t].status # "revoked"
    OBVIOUS
  <2>2. ~StoreToken /\ ~DisconnectWrites /\ \A c \in Callbacks : ~WriteConnection(c)
    BY <2>1 DEF StoreToken, WriteConnection, DisconnectWrites
  <2> QED BY <2>2 DEF TokensNext, BeginAuthorization, RequestExpires, ReadState,
           ClaimState, Exchange, CallbackFails, RefreshBegins, RefreshAnswered, RefreshFails,
           ConsentWithdrawn, DisconnectReads
<1>2. refresh.step = "refused" /\ account.token = refresh.token
  BY <1>1 DEF Revoke
<1> QED BY <1>2 DEF TokenInv, TokensOK

\* An answer that comes late harms nobody: a refresh that was overtaken writes
\* nothing, a refusal revokes the consent it is about (getMicrosoftAccessToken).
THEOREM LateTokenAnswersAreHarmless == TokensSpec => LateAnswersAreHarmless
<1>1. TokenInv /\ [TokensNext]_tokenVars =>
        [/\ (account'.token # NoToken /\ account'.token.grant # account.token.grant) =>
              (\E c \in Callbacks : callback[c].step = "write" /\ callback'[c].step = "over")
         /\ (account'.status = "revoked" /\ account.status # "revoked") =>
              (account.token # NoToken /\ grant[account.token.grant] = "refused")]_tokenVars
  BY OnlyCallbacksReplace, OnlyRefusalRevokes DEF tokenVars
<1> QED BY <1>1, TokenInvariance, PTL DEF TokensSpec, LateAnswersAreHarmless

-----------------------------------------------------------------------------
(* The change subscription (GraphSubscription). *)

HeldRows == [op: {"none", "ensure", "renew", "reauthorize", "disconnect"},
             step: {"off", "delete", "list", "purge", "create", "write", "patch"},
             sub: Subs \cup {NoSub}, changed: BOOLEAN, for: (Kinds \X Subs) \cup {NoEvent}]

\* Who creates a subscription holds the lock and has seen that there is none;
\* who sees to one does so because the registered one is of no use.
SubscriptionInv ==
    /\ SubscriptionTypeOK
    /\ held \in HeldRows
    /\ OneSubscription
    /\ held.step = "create" => \A s \in Subs : ~Live(s)
    /\ held.op = "ensure" /\ box.sub = held.sub => ~Intact(box)

LEMMA SubscriptionInvInit == SubscriptionInit => SubscriptionInv
<1> SUFFICES ASSUME SubscriptionInit PROVE SubscriptionInv
  OBVIOUS
<1> USE SubscriptionAssumption
<1>1. held = Free /\ Free \in HeldRows
  BY DEF SubscriptionInit, Free, HeldRows, NoEvent, NoSub
<1>2. \A s \in Subs : ~Live(s)
  BY DEF SubscriptionInit, Live
<1>3. remote \in [Subs -> [state: ClientStates, left: 0..Life]]
  BY DEF SubscriptionInit
<1>4. SubscriptionTypeOK
  <2>1. box = [status |-> "available", sub |-> NoSub, left |-> 0, state |-> "none"] /\ 0 \in 0..Life
    BY DEF SubscriptionInit
  <2>2. event \in [Kinds \X Subs -> {"none", "pending", "missing", "handled"}]
    BY DEF SubscriptionInit
  <2>3. box \in [status: {"available", "revoked", "disconnected"}, sub: Subs \cup {NoSub},
                 left: 0..Life, state: ClientStates \cup {"none"}]
    BY <2>1
  <2>4. held \in HeldRows
    BY <1>1
  <2> QED BY <1>3, <2>2, <2>3, <2>4 DEF SubscriptionInit, SubscriptionTypeOK, HeldRows
<1> QED BY <1>1, <1>2, <1>4 DEF SubscriptionInv, OneSubscription, Free

BoxRows == [status: {"available", "revoked", "disconnected"}, sub: Subs \cup {NoSub},
            left: 0..Life, state: ClientStates \cup {"none"}]

EventRows == [Kinds \X Subs -> {"none", "pending", "missing", "handled"}]

LEMMA SubscriptionTypes ==
    ASSUME SubscriptionInv
    PROVE  /\ box \in BoxRows /\ held \in HeldRows /\ secret \in ClientStates
           /\ remote \in [Subs -> [state: ClientStates, left: 0..Life]]
           /\ event \in EventRows /\ cooling \in BOOLEAN
BY DEF SubscriptionInv, SubscriptionTypeOK, BoxRows, EventRows

LEMMA TypedAgain ==
    ASSUME box' \in BoxRows, held' \in HeldRows, secret' \in ClientStates,
           remote' \in [Subs -> [state: ClientStates, left: 0..Life]],
           event' \in EventRows, cooling' \in BOOLEAN
    PROVE  SubscriptionTypeOK' /\ (held \in HeldRows)'
BY DEF SubscriptionTypeOK, BoxRows, HeldRows, EventRows

\* Free: nothing is under way.
LEMMA FreeIsTyped == Free \in HeldRows /\ Free.step # "create" /\ Free.op # "ensure"
BY DEF Free, HeldRows, NoEvent

\* A step after which no subscription lives that did not live before it.
LEMMA NothingIsCreated ==
    ASSUME SubscriptionInv, \A s \in Subs : Live(s)' => Live(s)
    PROVE  OneSubscription'
BY DEF SubscriptionInv, OneSubscription

\* Somebody who does not hold the lock.
LEMMA OutsidersKeepInv ==
    ASSUME SubscriptionInv,
           \/ Connect \/ Revoked \/ CoolsDown \/ DayPasses
           \/ \E s \in Subs : Dropped(s) \/ \E k \in Kinds : Stage(k, s)
           \/ \E e \in Kinds \X Subs : EventEnds(e)
    PROVE  SubscriptionInv'
<1> USE SubscriptionAssumption
<1>1. held' = held /\ secret' = secret
  BY DEF Connect, Revoked, CoolsDown, DayPasses, Dropped, Stage, EventEnds
<1>2. /\ box' \in BoxRows /\ box'.sub = box.sub /\ box'.state = box.state /\ box'.left <= box.left
      /\ box'.left \in Nat /\ box.left \in Nat
  <2>1. box \in BoxRows
    BY SubscriptionTypes
  <2>2. CASE box' = box
    BY <2>1, <2>2 DEF BoxRows
  <2>3. CASE Connect \/ Revoked
    BY <2>1, <2>3 DEF BoxRows, Connect, Revoked
  <2>4. CASE DayPasses
    <3> DEFINE n == IF box.left = 0 THEN 0 ELSE box.left - 1
    <3>1. n \in 0..Life /\ n <= box.left /\ n \in Nat /\ box.left \in Nat
      BY <2>1 DEF BoxRows
    <3>2. box' = [box EXCEPT !.left = n]
      BY <2>4 DEF DayPasses
    <3> HIDE DEF n
    <3> QED BY <2>1, <3>1, <3>2 DEF BoxRows
  <2> QED BY <2>2, <2>3, <2>4 DEF CoolsDown, Dropped, Stage, EventEnds
<1>3. /\ remote' \in [Subs -> [state: ClientStates, left: 0..Life]]
      /\ \A s \in Subs : Live(s)' => Live(s)
  <2>1. CASE remote' = remote
    BY <2>1, SubscriptionTypes DEF Live
  <2>2. CASE DayPasses
    <3> DEFINE Aged(row) == [row EXCEPT !.left = IF row.left = 0 THEN 0 ELSE row.left - 1]
    <3>1. \A row \in [state: ClientStates, left: 0..Life] :
              /\ Aged(row) \in [state: ClientStates, left: 0..Life]
              /\ Aged(row).left > 0 => row.left > 0
      OBVIOUS
    <3>2. remote' = [s \in Subs |-> Aged(remote[s])]
      BY <2>2 DEF DayPasses
    <3> HIDE DEF Aged
    <3> QED BY <3>1, <3>2, SubscriptionTypes DEF Live
  <2>3. ASSUME NEW s \in Subs, Dropped(s) PROVE <1>3!1 /\ <1>3!2
    BY <2>3, SubscriptionTypes DEF Dropped, Live
  <2> QED BY <2>1, <2>2, <2>3 DEF Connect, Revoked, CoolsDown, Stage, EventEnds
<1>4. event' \in EventRows /\ cooling' \in BOOLEAN
  BY SubscriptionTypes DEF EventRows, Connect, Revoked, CoolsDown, DayPasses, Dropped, Stage, EventEnds
<1>5. SubscriptionTypeOK' /\ held' \in HeldRows
  BY <1>1, <1>2, <1>3, <1>4, TypedAgain, SubscriptionTypes
<1>6. OneSubscription' /\ (held'.step = "create" => \A s \in Subs : ~Live(s)')
  BY <1>1, <1>3, NothingIsCreated DEF SubscriptionInv
<1>7. held'.op = "ensure" /\ box'.sub = held'.sub => ~Intact(box)'
  BY <1>1, <1>2 DEF SubscriptionInv, Intact
<1> QED BY <1>5, <1>6, <1>7 DEF SubscriptionInv

\* The lock is given back.
LEMMA ReleaseKeepsInv ==
    ASSUME SubscriptionInv, held' = Free, box' \in BoxRows, secret' \in ClientStates,
           remote' \in [Subs -> [state: ClientStates, left: 0..Life]],
           event' \in EventRows, cooling' \in BOOLEAN, OneSubscription'
    PROVE  SubscriptionInv'
<1>1. SubscriptionTypeOK' /\ (held \in HeldRows)'
  BY TypedAgain, FreeIsTyped
<1> QED BY <1>1, FreeIsTyped DEF SubscriptionInv

LEMMA LossOfLockKeepsInv ==
    ASSUME SubscriptionInv, Redeploy \/ Crash PROVE SubscriptionInv'
<1>1. OneSubscription'
  BY NothingIsCreated DEF Redeploy, Crash, Live
<1> QED BY <1>1, ReleaseKeepsInv, SubscriptionTypes DEF Redeploy, Crash

\* A subscription of the configured secret, the only one.
Creates(s) ==
    /\ held.step = "create" /\ s \in NewIds
    /\ remote' = [remote EXCEPT ![s] = [state |-> secret, left |-> Life]]

LEMMA CreationIsAlone ==
    ASSUME SubscriptionInv, NEW s, Creates(s)
    PROVE  /\ remote' \in [Subs -> [state: ClientStates, left: 0..Life]]
           /\ OneSubscription'
           /\ s \in Subs /\ remote'[s].left \in 0..Life
<1>1. s \in Subs /\ \A t \in Subs : ~Live(t)
  BY DEF Creates, NewIds, SubscriptionInv
<1>2. [state |-> secret, left |-> Life] \in [state: ClientStates, left: 0..Life]
  BY SubscriptionTypes, SubscriptionAssumption
<1>3. remote' \in [Subs -> [state: ClientStates, left: 0..Life]]
  BY <1>2, SubscriptionTypes DEF Creates
<1>4. \A t \in Subs \ {s} : ~Live(t)'
  BY <1>1, SubscriptionTypes DEF Creates, Live
<1>5. remote'[s] = [state |-> secret, left |-> Life]
  BY <1>1, SubscriptionTypes DEF Creates
<1> QED BY <1>1, <1>2, <1>3, <1>4, <1>5 DEF OneSubscription

\* A live subscription that is prolonged, one that is removed.
LEMMA RemoteTyped ==
    ASSUME SubscriptionInv, NEW s, NEW n \in 0..Life, n = 0 \/ Live(s),
           remote' = [remote EXCEPT ![s].left = n]
    PROVE  /\ remote' \in [Subs -> [state: ClientStates, left: 0..Life]]
           /\ \A t \in Subs : Live(t)' => Live(t)
<1>1. remote \in [Subs -> [state: ClientStates, left: 0..Life]]
  BY SubscriptionTypes
<1>2. CASE s \in Subs
  <2>1. [remote[s] EXCEPT !.left = n] \in [state: ClientStates, left: 0..Life]
        /\ [remote[s] EXCEPT !.left = n].left = n
    BY <1>1, <1>2
  <2>2. remote' = [remote EXCEPT ![s] = [remote[s] EXCEPT !.left = n]]
    OBVIOUS
  <2>3. remote'[s] = [remote[s] EXCEPT !.left = n] /\ \A t \in Subs \ {s} : remote'[t] = remote[t]
    BY <1>1, <1>2, <2>2
  <2>4. Live(s)' => Live(s)
    BY <2>1, <2>3 DEF Live
  <2> QED BY <1>1, <2>1, <2>2, <2>3, <2>4 DEF Live
<1>3. CASE s \notin Subs
  <2>1. remote' = remote
    BY <1>1, <1>3
  <2> QED BY <1>1, <2>1 DEF Live
<1> QED BY <1>2, <1>3

LEMMA PurgedTyped ==
    ASSUME SubscriptionInv, NEW gone \in SUBSET Subs,
           remote' = [s \in Subs |-> IF s \in gone THEN [remote[s] EXCEPT !.left = 0] ELSE remote[s]]
    PROVE  /\ remote' \in [Subs -> [state: ClientStates, left: 0..Life]]
           /\ \A t \in Subs : Live(t)' => Live(t)
BY SubscriptionTypes, SubscriptionAssumption DEF Live

LEMMA CallFailsKeepsInv == ASSUME SubscriptionInv, CallFails PROVE SubscriptionInv'
<1>1. held' = Free /\ cooling' = TRUE /\ UNCHANGED <<secret, box, event>>
  BY DEF CallFails
<1>2. remote' \in [Subs -> [state: ClientStates, left: 0..Life]] /\ OneSubscription'
  <2> 0 \in 0..Life /\ Life \in 0..Life
    BY SubscriptionAssumption
  <2>1. CASE remote' = remote
    <3>1. \A t \in Subs : Live(t)' => Live(t)
      BY <2>1 DEF Live
    <3> QED BY <2>1, <3>1, NothingIsCreated, SubscriptionTypes
  <2>2. CASE remote' = [remote EXCEPT ![held.sub].left = 0]
    BY <2>2, RemoteTyped, NothingIsCreated
  <2>3. CASE Live(held.sub) /\ remote' = [remote EXCEPT ![held.sub].left = Life]
    BY <2>3, RemoteTyped, NothingIsCreated, SubscriptionAssumption
  <2>4. ASSUME NEW gone \in SUBSET {s \in Subs : Live(s)},
               remote' = [s \in Subs |-> IF s \in gone THEN [remote[s] EXCEPT !.left = 0] ELSE remote[s]]
        PROVE  <1>2
    BY <2>4, PurgedTyped, NothingIsCreated
  <2>5. ASSUME NEW s, Creates(s) PROVE <1>2
    BY <2>5, CreationIsAlone
  <2> QED BY <2>1, <2>2, <2>3, <2>4, <2>5 DEF CallFails, Creates
<1> QED BY <1>1, <1>2, ReleaseKeepsInv, SubscriptionTypes

\* The holder of the lock goes on.
LEMMA OnwardKeepsInv ==
    ASSUME SubscriptionInv, held' \in HeldRows, UNCHANGED <<secret, cooling>>,
           box' \in BoxRows, event' \in EventRows,
           remote' \in [Subs -> [state: ClientStates, left: 0..Life]],
           \A s \in Subs : Live(s)' => Live(s),
           held'.step = "create" => \A s \in Subs : ~Live(s)',
           held'.op = "ensure" /\ box'.sub = held'.sub => ~Intact(box)'
    PROVE  SubscriptionInv'
<1>1. SubscriptionTypeOK' /\ (held \in HeldRows)'
  BY TypedAgain, SubscriptionTypes
<1> QED BY <1>1, NothingIsCreated DEF SubscriptionInv

LEMMA OnwardTyped ==
    ASSUME SubscriptionInv, NEW step \in {"list", "purge", "create"}, Onward(step)
    PROVE  /\ held' \in HeldRows /\ held'.step = step
           /\ held'.op = held.op /\ held'.sub = held.sub
BY SubscriptionTypes DEF Onward, HeldRows

LEMMA EnsureStepsKeepInv ==
    ASSUME SubscriptionInv, DeleteOld \/ Purge PROVE SubscriptionInv'
<1> USE SubscriptionAssumption
<1>1. CASE DeleteOld
  <2>1. held' \in HeldRows /\ held'.step = "list" /\ held'.op = held.op /\ held'.sub = held.sub
    BY <1>1, OnwardTyped DEF DeleteOld
  <2>2. 0 \in 0..Life /\ remote' = [remote EXCEPT ![held.sub].left = 0]
    BY <1>1 DEF DeleteOld
  <2>3. /\ remote' \in [Subs -> [state: ClientStates, left: 0..Life]]
        /\ \A s \in Subs : Live(s)' => Live(s)
    BY <2>2, RemoteTyped
  <2>4. held'.op = "ensure" /\ box'.sub = held'.sub => ~Intact(box)'
    BY <1>1, <2>1 DEF DeleteOld, SubscriptionInv, Intact
  <2> QED BY <1>1, <2>1, <2>3, <2>4, OnwardKeepsInv, SubscriptionTypes DEF DeleteOld
<1>2. CASE Purge
  <2>1. held' \in HeldRows /\ held'.step = "create" /\ held'.op = held.op /\ held'.sub = held.sub
    BY <1>2, OnwardTyped DEF Purge
  <2>2. /\ remote' \in [Subs -> [state: ClientStates, left: 0..Life]]
        /\ \A s \in Subs : ~Live(s)'
    <3>1. \A row \in [state: ClientStates, left: 0..Life] :
              /\ [row EXCEPT !.left = 0] \in [state: ClientStates, left: 0..Life]
              /\ ~([row EXCEPT !.left = 0].left > 0)
      OBVIOUS
    <3>2. remote' = [s \in Subs |-> [remote[s] EXCEPT !.left = 0]]
      BY <1>2 DEF Purge
    <3> QED BY <3>1, <3>2, SubscriptionTypes DEF Live
  <2>3. held'.op = "ensure" /\ box'.sub = held'.sub => ~Intact(box)'
    BY <1>2, <2>1 DEF Purge, SubscriptionInv, Intact
  <2> QED BY <1>2, <2>1, <2>2, <2>3, OnwardKeepsInv, SubscriptionTypes DEF Purge
<1> QED BY <1>1, <1>2

\* The row and the event after a registration.
LEMMA RegisterTyped ==
    ASSUME SubscriptionInv, NEW s \in Subs, Register(s), remote'[s].left \in 0..Life
    PROVE  held' = Free /\ box' \in BoxRows /\ event' \in EventRows
<1>1. box \in BoxRows /\ event \in EventRows /\ secret \in ClientStates
  BY SubscriptionTypes
<1>2. box' \in BoxRows
  BY <1>1 DEF Register, BoxRows
<1>3. event' \in EventRows
  BY <1>1 DEF Register, EventRows
<1> QED BY <1>2, <1>3 DEF Register

LEMMA ListKeepsInv == ASSUME SubscriptionInv, List PROVE SubscriptionInv'
<1>1. held.op = "ensure" /\ UNCHANGED <<secret, remote, cooling>>
  BY DEF List
<1>2. \A s \in Subs : Live(s)' <=> Live(s)
  BY <1>1 DEF Live
<1>3. CASE Onward("purge") /\ UNCHANGED <<box, event>>
  <2>1. held' \in HeldRows /\ held'.step = "purge" /\ held'.op = held.op /\ held'.sub = held.sub
    BY <1>3, OnwardTyped
  <2>2. held'.op = "ensure" /\ box'.sub = held'.sub => ~Intact(box)'
    BY <1>1, <1>3, <2>1 DEF SubscriptionInv, Intact
  <2> QED BY <1>1, <1>2, <1>3, <2>1, <2>2, OnwardKeepsInv, SubscriptionTypes
<1>4. CASE {s \in Subs : Live(s)} = {} /\ Onward("create") /\ UNCHANGED <<box, event>>
  <2>1. held' \in HeldRows /\ held'.step = "create" /\ held'.op = held.op /\ held'.sub = held.sub
    BY <1>4, OnwardTyped
  <2>2. held'.op = "ensure" /\ box'.sub = held'.sub => ~Intact(box)'
    BY <1>1, <1>4, <2>1 DEF SubscriptionInv, Intact
  <2> QED BY <1>1, <1>2, <1>4, <2>1, <2>2, OnwardKeepsInv, SubscriptionTypes
<1>5. ASSUME NEW s \in Subs, Register(s) PROVE SubscriptionInv'
  <2>1. remote'[s].left \in 0..Life
    BY <1>1, SubscriptionTypes
  <2> QED BY <1>1, <1>2, <1>5, <2>1, RegisterTyped, ReleaseKeepsInv, NothingIsCreated,
             SubscriptionTypes
<1> QED BY <1>3, <1>4, <1>5 DEF List

LEMMA CreateKeepsInv == ASSUME SubscriptionInv, Create PROVE SubscriptionInv'
<1>1. PICK s \in NewIds : Creates(s) /\ Register(s)
  BY DEF Create, Creates
<1>2. /\ remote' \in [Subs -> [state: ClientStates, left: 0..Life]]
      /\ OneSubscription' /\ s \in Subs /\ remote'[s].left \in 0..Life
  BY <1>1, CreationIsAlone
<1>3. UNCHANGED <<secret, cooling>>
  BY DEF Create
<1> QED BY <1>1, <1>2, <1>3, RegisterTyped, ReleaseKeepsInv, SubscriptionTypes

\* The lock is taken.
LEMMA BeginningsKeepInv ==
    ASSUME SubscriptionInv,
           \/ EnsureBegins \/ RenewBegins \/ DisconnectBegins
           \/ \E e \in Kinds \X Subs : Recover(e) \/ Reauthorize(e)
    PROVE  SubscriptionInv'
<1>1. UNCHANGED <<secret, remote, cooling>>
  BY DEF EnsureBegins, RenewBegins, DisconnectBegins, Recover, Reauthorize
<1>2. held = Free /\ \A s \in Subs : Live(s)' <=> Live(s)
  BY <1>1 DEF EnsureBegins, RenewBegins, DisconnectBegins, Recover, Reauthorize, Allowed, Live
<1>3. box \in BoxRows /\ event \in EventRows
  BY SubscriptionTypes
<1>4. \A b \in BoxRows, e \in (Kinds \X Subs) \cup {NoEvent} :
          Ensuring(b, e) \in HeldRows /\ Ensuring(b, e).step # "create" /\ Ensuring(b, e).sub = b.sub
  BY DEF Ensuring, HeldRows, BoxRows
<1>5. CASE EnsureBegins
  <2>1. held' = Ensuring(box, NoEvent) /\ ~Intact(box) /\ UNCHANGED <<box, event>>
    BY <1>5 DEF EnsureBegins
  <2>2. ~Intact(box)'
    BY <1>1, <2>1 DEF Intact
  <2> QED BY <1>1, <1>2, <1>3, <1>4, <2>1, <2>2, OnwardKeepsInv, SubscriptionTypes
<1>6. CASE RenewBegins \/ DisconnectBegins
  <2>1. held' \in HeldRows /\ held'.step # "create" /\ held'.op # "ensure" /\ UNCHANGED <<box, event>>
    BY <1>3, <1>6 DEF RenewBegins, DisconnectBegins, Free, HeldRows, BoxRows, NoEvent
  <2> QED BY <1>1, <1>2, <1>3, <2>1, OnwardKeepsInv, SubscriptionTypes
<1>7. ASSUME NEW e \in Kinds \X Subs, Recover(e) PROVE SubscriptionInv'
  <2>1. CASE box.sub \notin {NoSub, e[2]}
    <3>1. event' \in EventRows /\ UNCHANGED <<box, held>>
      BY <1>3, <1>7, <2>1 DEF Recover, EventRows
    <3>2. held' \in HeldRows /\ held'.step # "create" /\ held'.op # "ensure"
      BY <1>2, <3>1, FreeIsTyped
    <3> QED BY <1>1, <1>2, <1>3, <3>1, <3>2, OnwardKeepsInv, SubscriptionTypes
  <2>2. CASE box.sub \in {NoSub, e[2]}
    <3> DEFINE b == [box EXCEPT !.sub = NoSub]
    <3>1. box' = [box EXCEPT !.sub = NoSub, !.left = 0] /\ held' = Ensuring(b, e) /\ event' = event
      BY <1>7, <2>2 DEF Recover
    <3>2. b \in BoxRows /\ b.sub = NoSub /\ box' \in BoxRows /\ box'.sub = NoSub
      <4>1. 0 \in 0..Life
        BY SubscriptionAssumption
      <4> QED BY <1>3, <3>1, <4>1 DEF BoxRows
    <3>3. ~Intact(box)'
      BY <3>2 DEF Intact
    <3>4. held' \in HeldRows /\ held'.step # "create"
      BY <1>4, <3>1, <3>2
    <3> QED BY <1>1, <1>2, <1>3, <3>1, <3>2, <3>3, <3>4, OnwardKeepsInv, SubscriptionTypes
  <2> QED BY <2>1, <2>2
<1>8. ASSUME NEW e \in Kinds \X Subs, Reauthorize(e) PROVE SubscriptionInv'
  <2>1. box' = box /\ event' \in EventRows
    BY <1>3, <1>8 DEF Reauthorize, EventRows
  <2>2. held' \in HeldRows /\ held'.step # "create" /\ held'.op # "ensure"
    <3>1. CASE box.sub = e[2]
      <4>1. held' = [op |-> "reauthorize", step |-> "patch", sub |-> e[2], changed |-> FALSE, for |-> e]
        BY <1>8, <3>1 DEF Reauthorize
      <4>2. e[2] \in Subs
        OBVIOUS
      <4> QED BY <4>1, <4>2 DEF HeldRows
    <3>2. CASE box.sub # e[2]
      BY <1>2, <1>8, <3>2, FreeIsTyped DEF Reauthorize
    <3> QED BY <3>1, <3>2
  <2> QED BY <1>1, <1>2, <1>3, <2>1, <2>2, OnwardKeepsInv, SubscriptionTypes
<1> QED BY <1>5, <1>6, <1>7, <1>8

LEMMA PatchKeepsInv == ASSUME SubscriptionInv, Prolonged \/ Absent PROVE SubscriptionInv'
<1> USE SubscriptionAssumption
<1>1. box \in BoxRows /\ event \in EventRows
  BY SubscriptionTypes
<1>2. held' = Free /\ UNCHANGED <<secret, cooling>>
  BY DEF Prolonged, Absent
<1>3. CASE Prolonged
  <2>1. Life \in 0..Life /\ Live(held.sub) /\ remote' = [remote EXCEPT ![held.sub].left = Life]
    BY <1>3 DEF Prolonged
  <2>2. remote' \in [Subs -> [state: ClientStates, left: 0..Life]] /\ OneSubscription'
    BY <2>1, RemoteTyped, NothingIsCreated
  <2>3. box' \in BoxRows
    BY <1>1, <1>3 DEF Prolonged, BoxRows
  <2>4. event' \in EventRows
    BY <1>1, <1>3 DEF Prolonged, EventRows
  <2> QED BY <1>2, <2>2, <2>3, <2>4, ReleaseKeepsInv, SubscriptionTypes
<1>4. CASE Absent
  <2>1. remote' = remote /\ OneSubscription'
    BY <1>4, NothingIsCreated DEF Absent, Live
  <2>2. box' \in BoxRows
    <3>1. 0 \in 0..Life
      OBVIOUS
    <3>2. [box EXCEPT !.sub = NoSub, !.left = 0] \in BoxRows
      BY <1>1, <3>1 DEF BoxRows
    <3> QED BY <1>1, <1>4, <3>2 DEF Absent
  <2>3. event' \in EventRows
    BY <1>1, <1>4 DEF Absent, EventRows
  <2> QED BY <1>2, <2>1, <2>2, <2>3, ReleaseKeepsInv, SubscriptionTypes
<1> QED BY <1>3, <1>4

LEMMA DisconnectEndsKeepsInv == ASSUME SubscriptionInv, DisconnectEnds PROVE SubscriptionInv'
<1>1. box' \in BoxRows
  <2>1. 0 \in 0..Life
    BY SubscriptionAssumption
  <2> QED BY <2>1 DEF DisconnectEnds, BoxRows
<1>2. remote' \in [Subs -> [state: ClientStates, left: 0..Life]] /\ OneSubscription'
  <2>1. CASE remote' = remote
    BY <2>1, SubscriptionTypes, NothingIsCreated DEF Live
  <2>2. ASSUME NEW s, remote' = [remote EXCEPT ![s].left = 0] PROVE <1>2
    <3>1. 0 \in 0..Life
      BY SubscriptionAssumption
    <3> QED BY <2>2, <3>1, RemoteTyped, NothingIsCreated
  <2> QED BY <2>1, <2>2 DEF DisconnectEnds
<1> QED BY <1>1, <1>2, ReleaseKeepsInv, SubscriptionTypes DEF DisconnectEnds

LEMMA SubscriptionInvStep ==
    SubscriptionInv /\ [SubscriptionNext]_subscriptionVars => SubscriptionInv'
<1> SUFFICES ASSUME SubscriptionInv, [SubscriptionNext]_subscriptionVars PROVE SubscriptionInv'
  OBVIOUS
<1>1. CASE UNCHANGED subscriptionVars
  BY <1>1 DEF subscriptionVars, SubscriptionInv, SubscriptionTypeOK, OneSubscription, Live, Intact
<1>2. CASE SubscriptionNext
  BY <1>2, OutsidersKeepInv, LossOfLockKeepsInv, CallFailsKeepsInv, EnsureStepsKeepInv,
     ListKeepsInv, CreateKeepsInv, BeginningsKeepInv, PatchKeepsInv, DisconnectEndsKeepsInv
     DEF SubscriptionNext, Working
<1> QED BY <1>1, <1>2

LEMMA SubscriptionInvariance == SubscriptionSpec => []SubscriptionInv
BY SubscriptionInvInit, SubscriptionInvStep, PTL DEF SubscriptionSpec

\* A mailbox never has two live subscriptions (ensureGraphSubscriptionLocked
\* under the lock of the mailbox), whatever calls fail after their effect.
THEOREM MailboxesHaveOneSubscription == SubscriptionSpec => []OneSubscription
<1>1. SubscriptionInv => OneSubscription
  BY DEF SubscriptionInv
<1> QED BY <1>1, SubscriptionInvariance, PTL

\* Giving up the subscription of the row.
GivesUp == Intact(box) /\ Live(box.sub) /\ box'.sub # box.sub

LEMMA RegistrationReplacesNothing ==
    ASSUME SubscriptionInv, NEW s, held.op = "ensure", Register(s) PROVE ~GivesUp
<1>1. CASE Owner
  BY <1>1 DEF SubscriptionInv, Owner, GivesUp
<1>2. CASE ~Owner
  BY <1>2 DEF Register, GivesUp
<1> QED BY <1>1, <1>2

LEMMA GivenUpForCause ==
    ASSUME SubscriptionInv, SubscriptionNext, GivesUp
    PROVE  held.op = "disconnect" \/ (held'.op = "ensure" /\ held'.for[2] = box.sub)
<1> box' # box
  BY DEF GivesUp
<1>1. CASE Connect \/ Revoked \/ DayPasses
  <2>1. box'.sub = box.sub
    BY <1>1, SubscriptionTypes DEF Connect, Revoked, DayPasses, BoxRows
  <2> QED BY <2>1 DEF GivesUp
<1>2. CASE List
  BY <1>2, RegistrationReplacesNothing DEF List
<1>3. CASE Create
  <2>1. held.step = "create" /\ held.op = "ensure"
    BY <1>3 DEF Create
  <2>2. PICK s \in NewIds : Register(s)
    BY <1>3 DEF Create
  <2> QED BY <2>1, <2>2, RegistrationReplacesNothing
<1>4. CASE Prolonged
  <2>1. box'.sub = box.sub
    BY <1>4, SubscriptionTypes DEF Prolonged, BoxRows
  <2> QED BY <2>1 DEF GivesUp
<1>5. CASE Absent
  <2>1. ~Live(held.sub) /\ box.sub = held.sub
    BY <1>5 DEF Absent, Owner
  <2> QED BY <2>1 DEF GivesUp
<1>6. ASSUME NEW e \in Kinds \X Subs, Recover(e)
      PROVE  held'.op = "ensure" /\ held'.for[2] = box.sub
  <2>1. box.sub # NoSub
    BY DEF GivesUp, Intact
  <2>2. box.sub = e[2] /\ held' = Ensuring([box EXCEPT !.sub = NoSub], e)
    BY <1>6, <2>1 DEF Recover
  <2> QED BY <2>2 DEF Ensuring
<1>7. CASE DisconnectEnds
  BY <1>7 DEF DisconnectEnds
<1> QED BY <1>1, <1>2, <1>3, <1>4, <1>5, <1>6, <1>7
        DEF SubscriptionNext, Working, Redeploy, Crash, CoolsDown, Dropped, Stage, EnsureBegins,
            DeleteOld, Purge, RenewBegins, Reauthorize, EventEnds, CallFails, DisconnectBegins

\* A late lifecycle event about a subscription that was replaced takes nothing
\* away from the one that works (recoverGraphSubscription, renewal, adoption).
THEOREM WorkingSubscriptionIsKept == SubscriptionSpec => WorkingOneIsKept
<1>1. SubscriptionInv /\ [SubscriptionNext]_subscriptionVars =>
        [(Intact(box) /\ Live(box.sub) /\ box'.sub # box.sub) =>
            (held.op = "disconnect" \/ (held'.op = "ensure" /\ held'.for[2] = box.sub))
        ]_subscriptionVars
  BY GivenUpForCause DEF GivesUp, subscriptionVars
<1> QED BY <1>1, SubscriptionInvariance, PTL DEF SubscriptionSpec, WorkingOneIsKept

-----------------------------------------------------------------------------
(* The rounds over a Microsoft mailbox (GraphInbound): no letter falls between *)
(* them, whatever the delay of the delta query within the skew, and any clock.  *)

Unread(m) == InInbox(m) /\ m \notin known

\* The clock: nothing is dated ahead of it, and a letter the delta query does
\* not show yet is young.
ClockInv ==
    /\ anchor <= tick /\ delta.since <= tick /\ walk.since <= tick /\ walk.began <= tick
    /\ \A m \in Letters : InInbox(m) /\ ~letter[m].shown => tick <= letter[m].date + ShownWithin

\* What a link has reported is recorded, and an unread letter is within every
\* date a round may look from: that of the saved link, of the anchor and of the
\* round under way.
ReachInv ==
    /\ delta.seen \subseteq known /\ walk.seen \subseteq known
    /\ \A m \in Letters : Unread(m) =>
          /\ letter[m].date >= anchor
          /\ letter[m].date >= walk.since
          /\ delta.saved => letter[m].date >= delta.since

\* A drain that is done with a letter has recorded it or found it gone, and so
\* a receipt is closed.
Settled(m) == m \in known \/ letter[m].in = "gone"
DrainsFit ==
    \A d \in Drains : /\ drain[d].at # "off" => drain[d].of \in Letters
                      /\ drain[d].at = "walk" => letter[drain[d].of].in = "gone"
                      /\ drain[d].at = "ok" => Settled(drain[d].of)
                      /\ walk.for = d => drain[d].at = "walk"
DrainInv == DrainsFit /\ \A m \in Letters : receipt[m].at = "closed" => Settled(m)

GraphInv == GraphTypeOK /\ ClockInv /\ ReachInv /\ DrainInv

-----------------------------------------------------------------------------

LEMMA GraphInvInit == GraphInit => GraphInv
BY GraphAssumption DEF GraphInit, GraphInv, GraphTypeOK, ClockInv, ReachInv, DrainInv, DrainsFit, Unread,
   InInbox, Settled, Ticks, NoLink, NoWalk, NoReceipt, NoDrain, NoLetter, Timer

LetterRows == [in: {"nowhere", "inbox", "gone"}, date: Ticks, shown: BOOLEAN]

\* Showing a letter changes nothing else about it.
LEMMA ShownRow ==
    ASSUME NEW l \in LetterRows
    PROVE  LET k == [l EXCEPT !.shown = TRUE]
           IN  k \in LetterRows /\ k.in = l.in /\ k.date = l.date /\ k.shown
BY DEF LetterRows

\* The mailbox moves.
LEMMA MailboxStep ==
    ASSUME GraphInv, NEW m \in Letters, Received(m) \/ Shown(m) \/ Removed(m)
    PROVE  GraphInv'
<1>1. CASE Received(m)
  BY <1>1, GraphAssumption DEF Received, GraphInv, GraphTypeOK, ClockInv, ReachInv, DrainInv, DrainsFit,
     Unread, InInbox, Settled, Ticks
<1>2. CASE Shown(m)
  <2>1. /\ letter' \in [Letters -> LetterRows]
        /\ \A n \in Letters : /\ letter'[n].in = letter[n].in
                              /\ letter'[n].date = letter[n].date
                              /\ letter[n].shown => letter'[n].shown
    <3>1. letter \in [Letters -> LetterRows]
      BY DEF GraphInv, GraphTypeOK, LetterRows
    <3>2. letter' = [letter EXCEPT ![m] = [letter[m] EXCEPT !.shown = TRUE]]
      BY <1>2 DEF Shown
    <3> QED BY <3>1, <3>2, ShownRow
  <2>2. GraphTypeOK'
    BY <1>2, <2>1 DEF Shown, GraphInv, GraphTypeOK, LetterRows
  <2>3. ClockInv' /\ ReachInv' /\ DrainInv'
    BY <1>2, <2>1 DEF Shown, GraphInv, ClockInv, ReachInv, DrainInv, DrainsFit,
       Unread, InInbox, Settled
  <2> QED BY <2>2, <2>3 DEF GraphInv
<1>3. CASE Removed(m)
  BY <1>3, GraphAssumption DEF Removed, GraphInv, GraphTypeOK, ClockInv, ReachInv, DrainInv, DrainsFit,
     Unread, InInbox, Settled, Ticks
<1> QED BY <1>1, <1>2, <1>3

LEMMA ClockStep == ASSUME GraphInv, TickPasses PROVE GraphInv'
BY GraphAssumption DEF TickPasses, GraphInv, GraphTypeOK, ClockInv, ReachInv, DrainInv, DrainsFit,
   Unread, InInbox, Settled, Ticks

\* A round begins from the saved link or from the anchor: an unread letter is
\* within either.
LEMMA WalkStarts ==
    ASSUME GraphInv, NEW for \in Drains \cup {Timer}, StartWalk(for),
           UNCHANGED <<tick, letter, known, delta, anchor>>
    PROVE  /\ walk'.for = for /\ walk'.seen \subseteq known
           /\ walk'.since <= tick /\ walk'.began <= tick
           /\ \A m \in Letters : Unread(m) => letter[m].date >= walk'.since
           /\ walk' \in [for: Drains \cup {Timer, NoLetter}, seen: SUBSET Letters, since: Ticks,
                         began: Ticks, restarted: BOOLEAN]
BY GraphAssumption DEF StartWalk, GraphInv, GraphTypeOK, ClockInv, ReachInv, Ticks

LEMMA TimerStep == ASSUME GraphInv, TimerRound PROVE GraphInv'
<1>1. Timer \notin Drains
  BY GraphAssumption
<1> QED
  BY <1>1, WalkStarts, GraphAssumption DEF TimerRound, GraphInv, GraphTypeOK, ClockInv,
     ReachInv, DrainInv, DrainsFit, Unread, InInbox, Settled

LEMMA ExpiryStep == ASSUME GraphInv, LinkExpires PROVE GraphInv'
BY GraphAssumption DEF LinkExpires, GraphInv, GraphTypeOK, ClockInv, ReachInv, DrainInv, DrainsFit,
   Unread, InInbox, Settled, Ticks

LEMMA PageStep == ASSUME GraphInv, NEW m \in Letters, Page(m) PROVE GraphInv'
BY GraphAssumption DEF Page, GraphInv, GraphTypeOK, ClockInv, ReachInv, DrainInv, DrainsFit,
   Unread, InInbox, Settled, Ticks

-----------------------------------------------------------------------------
(* The end of a round. *)

\* When a round is through, a letter it did not report is recorded, or so young
\* that the query does not show it yet.
LEMMA ThroughWalk ==
    ASSUME GraphInv, walk # NoWalk, Ahead = {}, NEW m \in Letters, Unread(m)
    PROVE  tick <= letter[m].date + ShownWithin
<1>1. letter[m].date >= walk.since /\ m \notin walk.seen
  BY DEF GraphInv, ReachInv, Unread
<1>2. ~letter[m].shown
  BY <1>1 DEF Ahead, Unread
<1> QED BY <1>2 DEF GraphInv, ClockInv, Unread

\* The drain that ran a round found its letter gone.
LEMMA AnsweredDrains ==
    ASSUME GraphInv, NEW ok \in BOOLEAN, Answered(ok), walk' = NoWalk,
           UNCHANGED <<letter, known>>
    PROVE  /\ drain' \in [Drains -> [at: {"off", "fetch", "walk", "ok"},
                                     of: Letters \cup {NoLetter}]]
           /\ DrainsFit'
BY GraphAssumption DEF Answered, GraphInv, GraphTypeOK, DrainInv, DrainsFit, Settled, NoDrain, NoWalk

LEMMA SaveStep == ASSUME GraphInv, SaveLink PROVE GraphInv'
<1>1. \A m \in Letters : Unread(m) => letter[m].date >= anchor'
  <2> SUFFICES ASSUME NEW m \in Letters, Unread(m) PROVE letter[m].date >= anchor'
    OBVIOUS
  <2>1. tick <= letter[m].date + ShownWithin
    BY ThroughWalk DEF SaveLink
  <2>2. walk.began <= tick /\ walk.began \in Nat /\ tick \in Nat /\ letter[m].date \in Nat
    BY GraphAssumption DEF GraphInv, GraphTypeOK, ClockInv, Ticks
  <2> QED BY <2>1, <2>2, GraphAssumption DEF SaveLink
<1>2. anchor' \in Ticks /\ anchor' <= tick
  BY GraphAssumption DEF SaveLink, GraphInv, GraphTypeOK, ClockInv, Ticks
<1>3. /\ drain' \in [Drains -> [at: {"off", "fetch", "walk", "ok"}, of: Letters \cup {NoLetter}]]
      /\ DrainsFit'
  BY AnsweredDrains DEF SaveLink
<1>4. GraphTypeOK'
  BY <1>2, <1>3, GraphAssumption DEF SaveLink, GraphInv, GraphTypeOK, NoWalk, Ticks
<1>5. ClockInv'
  BY <1>2, GraphAssumption DEF SaveLink, GraphInv, GraphTypeOK, ClockInv, NoWalk, Ticks, InInbox
<1>6. ReachInv'
  BY <1>1, GraphAssumption DEF SaveLink, GraphInv, GraphTypeOK, ReachInv, Unread, InInbox, NoWalk, Ticks
<1>7. DrainInv'
  BY <1>3 DEF SaveLink, GraphInv, DrainInv, DrainsFit, Settled
<1> QED BY <1>4, <1>5, <1>6, <1>7 DEF GraphInv

LEMMA FailStep == ASSUME GraphInv, WalkFails PROVE GraphInv'
<1>1. /\ drain' \in [Drains -> [at: {"off", "fetch", "walk", "ok"}, of: Letters \cup {NoLetter}]]
      /\ DrainsFit'
  BY AnsweredDrains DEF WalkFails
<1>2. /\ receipt' \in [Letters -> [at: {"none", "open", "review", "closed"},
                                   claim: Drains \cup {NoLetter}]]
      /\ \A m \in Letters : receipt'[m].at = receipt[m].at
  BY DEF WalkFails, Rescheduled, GraphInv, GraphTypeOK
<1>3. GraphTypeOK'
  BY <1>1, <1>2, GraphAssumption DEF WalkFails, GraphInv, GraphTypeOK, NoWalk, Ticks
<1>4. ClockInv' /\ ReachInv'
  BY GraphAssumption DEF WalkFails, GraphInv, GraphTypeOK, ClockInv, ReachInv, Unread, InInbox,
     NoWalk, Ticks
<1>5. DrainInv'
  BY <1>1, <1>2 DEF WalkFails, GraphInv, DrainInv, DrainsFit, Settled
<1> QED BY <1>3, <1>4, <1>5 DEF GraphInv

-----------------------------------------------------------------------------
(* The receipts. *)

LEMMA ReceiptStep ==
    ASSUME GraphInv, NEW m \in Letters, Notified(m) \/ ClaimRunsOut(m)
    PROVE  GraphInv'
<1>1. /\ receipt' \in [Letters -> [at: {"none", "open", "review", "closed"},
                                   claim: Drains \cup {NoLetter}]]
      /\ \A n \in Letters : receipt'[n].at = "closed" => receipt[n].at = "closed"
      /\ UNCHANGED <<tick, letter, bad, known, delta, anchor, walk, drain>>
  <2>1. CASE Notified(m)
    BY <2>1 DEF Notified, GraphInv, GraphTypeOK
  <2>2. CASE ClaimRunsOut(m)
    BY <2>2 DEF ClaimRunsOut, GraphInv, GraphTypeOK
  <2> QED BY <2>1, <2>2
<1> QED
  BY <1>1 DEF GraphInv, GraphTypeOK, ClockInv, ReachInv, DrainInv, DrainsFit, Unread, InInbox,
     Settled

LEMMA ClaimStep ==
    ASSUME GraphInv, NEW d \in Drains, NEW m \in Letters, ClaimReceipt(d, m)
    PROVE  GraphInv'
BY DEF ClaimReceipt, GraphInv, GraphTypeOK, ClockInv, ReachInv, DrainInv, DrainsFit,
   Unread, InInbox, Settled, NoDrain

LEMMA NotFoundStep == ASSUME GraphInv, NEW d \in Drains, NotFound(d) PROVE GraphInv'
<1>1. /\ walk'.for = d /\ walk'.seen \subseteq known
      /\ walk'.since <= tick /\ walk'.began <= tick
      /\ \A m \in Letters : Unread(m) => letter[m].date >= walk'.since
      /\ walk' \in [for: Drains \cup {Timer, NoLetter}, seen: SUBSET Letters, since: Ticks,
                    began: Ticks, restarted: BOOLEAN]
  BY WalkStarts DEF NotFound
<1> QED
  BY <1>1 DEF NotFound, GraphInv, GraphTypeOK, ClockInv, ReachInv, DrainInv, DrainsFit, Unread,
     InInbox, Settled

LEMMA RecordStep == ASSUME GraphInv, NEW d \in Drains, Record(d) PROVE GraphInv'
BY DEF Record, GraphInv, GraphTypeOK, ClockInv, ReachInv, DrainInv, DrainsFit, Unread, InInbox, Settled

\* A drain that is done with its receipt, whatever it writes there, is no
\* worse for the letters when the receipt is closed for a settled one only.
LEMMA WrittenStep ==
    ASSUME GraphInv, NEW d \in Drains, drain[d].at \in {"fetch", "ok"},
           NEW with \in [at: {"none", "open", "review", "closed"}, claim: Drains \cup {NoLetter}],
           with.at = "closed" => Settled(drain[d].of),
           Written(d, with), drain' = [drain EXCEPT ![d] = NoDrain],
           UNCHANGED <<tick, letter, bad, known, delta, anchor, walk>>
    PROVE  GraphInv'
<1>1. drain[d].of \in Letters
  BY DEF GraphInv, DrainInv, DrainsFit
<1>2. /\ receipt' \in [Letters -> [at: {"none", "open", "review", "closed"},
                                   claim: Drains \cup {NoLetter}]]
      /\ \A m \in Letters : receipt'[m].at = "closed" => Settled(m)
  BY <1>1 DEF Written, GraphInv, GraphTypeOK, DrainInv, DrainsFit
<1> QED
  BY <1>2 DEF GraphInv, GraphTypeOK, ClockInv, ReachInv, DrainInv, DrainsFit, Unread, InInbox, Settled, NoDrain

LEMMA CloseStep == ASSUME GraphInv, NEW d \in Drains, CloseReceipt(d) PROVE GraphInv'
<1>1. Settled(drain[d].of)
  BY DEF CloseReceipt, GraphInv, DrainInv, DrainsFit
<1> QED BY <1>1, WrittenStep DEF CloseReceipt

LEMMA QuarantineStep == ASSUME GraphInv, NEW d \in Drains, Quarantine(d) PROVE GraphInv'
BY WrittenStep DEF Quarantine

LEMMA PostponeStep == ASSUME GraphInv, NEW d \in Drains, Postpone(d) PROVE GraphInv'
BY WrittenStep DEF Postpone

LEMMA DeathStep == ASSUME GraphInv, NEW d \in Drains, DrainDies(d) PROVE GraphInv'
BY GraphAssumption DEF DrainDies, GraphInv, GraphTypeOK, ClockInv, ReachInv, DrainInv, DrainsFit, Unread,
   InInbox, Settled, NoDrain, NoWalk, Ticks

-----------------------------------------------------------------------------

LEMMA GraphInvStep == GraphInv /\ [GraphNext]_graphVars => GraphInv'
<1> SUFFICES ASSUME GraphInv, [GraphNext]_graphVars PROVE GraphInv'
  OBVIOUS
<1>1. CASE UNCHANGED graphVars
  BY <1>1 DEF graphVars, GraphInv, GraphTypeOK, ClockInv, ReachInv, DrainInv, DrainsFit, Unread, InInbox,
     Settled
<1>2. ASSUME NEW m \in Letters,
             Received(m) \/ Shown(m) \/ Removed(m) \/ Page(m) \/ Notified(m) \/ ClaimRunsOut(m)
      PROVE  GraphInv'
  BY <1>2, MailboxStep, PageStep, ReceiptStep
<1>3. ASSUME NEW d \in Drains, DrainStep(d) PROVE GraphInv'
  BY <1>3, ClaimStep, NotFoundStep, RecordStep, CloseStep, QuarantineStep, PostponeStep,
     DeathStep DEF DrainStep
<1>4. CASE TimerRound \/ LinkExpires \/ SaveLink \/ WalkFails \/ TickPasses
  BY <1>4, TimerStep, ExpiryStep, SaveStep, FailStep, ClockStep
<1> QED BY <1>1, <1>2, <1>3, <1>4 DEF GraphNext

\* The inductive invariant: clock, links and receipts agree about what is
\* unread (microsoft-graph-sync-service.ts, inbound-reconciliation.ts).
THEOREM GraphInvariance == GraphSpec => []GraphInv
BY GraphInvInit, GraphInvStep, PTL DEF GraphSpec

\* No reply in the inbox is out of the next round's reach, nor its notification
\* closed, unless it is recorded: whatever expires, fails or dies, for every
\* mailbox, and every delay of the delta query up to INBOUND_ANCHOR_SKEW_MS.
THEOREM LettersAreNotLost == GraphSpec => []NoLetterIsLost
<1>1. GraphInv => NoLetterIsLost
  BY DEF GraphInv, GraphTypeOK, ReachInv, DrainInv, DrainsFit, Unread, Settled, InInbox, NoLetterIsLost, InReach
<1> QED BY <1>1, GraphInvariance, PTL
===============================================================================
