--------------------------- MODULE ScheduledSends ---------------------------
(***************************************************************************)
(* Send intents: an approved message that the policy refuses for a reason  *)
(* time lifts gets an instant and an expiry, from the operator's click or  *)
(* from the send button; a lane of the maintenance cycle looks at what is  *)
(* due and sends, pushes, ends or leaves it.  Every write of the lane is a *)
(* compare-and-swap on the instant the pass read.                          *)
(***************************************************************************)
EXTENDS WorkingHours, Sequences

CONSTANTS Messages, Passes,
          Recheck,        \* RECHECK_MS
          AutoWithin,     \* AUTO_SCHEDULE_WITHIN_MS, AUTOMATIC_INTENT_LIFETIME_MS
          MailboxDelay, ContactDelay,
          SendLimit,      \* deliveries of one pass
          PassTime,       \* bound: how long a pass takes to come to its send
          MaxClicks,      \* bound: intents per message
          MaxActivity,    \* bound: what else is sent meanwhile
          Horizon         \* bound: the last instant

ASSUME ScheduleAssumption ==
    /\ {Recheck, AutoWithin, SendLimit} \subseteq Nat \ {0}
    /\ {MailboxDelay, ContactDelay, PassTime, MaxClicks, MaxActivity, Horizon} \subseteq Nat
    /\ IsFiniteSet(Messages)

VARIABLES status,     \* per message: approved, sent, or closed to the lane
          intent,     \* per message: at most one, with when it may next be tried
                      \* (at), when it ends, who wrote it and for which click
          block,      \* per message, when each refusal ends that time lifts
          clicks,     \* per message: intents written so far
          consumed,   \* per message: intents somebody said he ended or took
          promised,   \* messages whose button promised what nothing has upset yet
          pass,       \* per pass: its instant, the rows it read, where it is
          activity

scheduleVars == <<now, hours, status, intent, block, clicks, consumed, promised, pass, activity>>

LifetimeAfterOpening == Grain * DayLength
AnchorMax == 7 * LifetimeAfterOpening
Transient == {"OUTSIDE_WORKING_HOURS", "DAILY_CAP_REACHED", "MAILBOX_MINIMUM_DELAY",
              "CONTACT_MINIMUM_DELAY"}
Codes == Transient \cup {"permanent", "ok"}
Idle == [at |-> 0, rows |-> <<>>, step |-> "off", verdict |-> "ok", sent |-> 0]

Instants == 0..(Horizon + SearchHorizon + AnchorMax + 2 * LifetimeAfterOpening)
Intents == [at: Instants, expires: Instants, by: {"operator", "button"},
            clickedAt: 0..Horizon, click: 1..MaxClicks]

ScheduleTypeOK ==
    /\ now \in 0..Horizon
    /\ hours \in Calendars
    /\ status \in [Messages -> {"approved", "sent", "closed"}]
    /\ \A m \in Messages : intent[m] \subseteq Intents /\ Cardinality(intent[m]) <= 1
    /\ block \in [Messages -> [cap: Instants, mailbox: Instants, contact: Instants]]
    /\ clicks \in [Messages -> 0..MaxClicks]
    /\ consumed \in [Messages -> 0..MaxClicks]
    /\ promised \subseteq Messages
    /\ \A p \in Passes :
        /\ pass[p].step \in {"off", "judge", "act", "send"}
        /\ pass[p].verdict \in Codes
        /\ pass[p].sent \in 0..SendLimit
    /\ activity \in 0..MaxActivity

ScheduleInit ==
    /\ now = 0
    /\ hours \in Calendars
    /\ status = [m \in Messages |-> "approved"]
    /\ intent = [m \in Messages |-> {}]
    /\ block = [m \in Messages |-> [cap |-> 0, mailbox |-> 0, contact |-> 0]]
    /\ clicks = [m \in Messages |-> 0]
    /\ consumed = [m \in Messages |-> 0]
    /\ promised = {}
    /\ pass = [p \in Passes |-> Idle]
    /\ activity = 0

-----------------------------------------------------------------------------
(* What the settings say of a refusal *)

Opens(t) == NextWorkingInstant(t, hours)
Least(a, b) == IF a <= b THEN a ELSE b
Most(a, b) == IF a >= b THEN a ELSE b

\* The first refusal of evaluateSendPolicy that time lifts, at t.
Verdict(m, t) ==
    CASE status[m] # "approved" -> "permanent"
      [] ~IsWithinWorkingHours(t, hours) /\ status[m] = "approved" -> "OUTSIDE_WORKING_HOURS"
      [] OTHER -> IF t < block[m].cap THEN "DAILY_CAP_REACHED"
                  ELSE IF t < block[m].mailbox THEN "MAILBOX_MINIMUM_DELAY"
                  ELSE IF t < block[m].contact THEN "CONTACT_MINIMUM_DELAY" ELSE "ok"

\* nextAttemptInstantFor, projected on the calendar by nextLegalSendInstant.
NextLegalSendInstant(code) ==
    CASE code = "OUTSIDE_WORKING_HOURS" -> Opens(now)
      [] code = "MAILBOX_MINIMUM_DELAY" -> Opens(now + MailboxDelay)
      [] code = "CONTACT_MINIMUM_DELAY" -> Opens(now + ContactDelay)
      [] OTHER -> NoOpening

WorstConfiguredWait(code) ==
    Most(Most(MailboxDelay, ContactDelay),
         IF code = "DAILY_CAP_REACHED" THEN LifetimeAfterOpening ELSE 0)

\* operatorIntentLifetimeMs: a day from the instant the worst wait ends on.
OperatorIntentLifetime(code) ==
    LET reachable == Opens(now + Least(WorstConfiguredWait(code), AnchorMax))
    IN IF Opens(now) = NoOpening \/ reachable = NoOpening THEN LifetimeAfterOpening
       ELSE LifetimeAfterOpening + Least(Most(0, reachable - Opens(now)), AnchorMax)

IntentCanOutlastTheSettings(code) ==
    LET clears == Opens(now + WorstConfiguredWait(code))
    IN /\ Opens(now) # NoOpening /\ clears # NoOpening
       /\ clears <= Opens(now) + OperatorIntentLifetime(code)

ShouldAutoSchedule(instant) == instant # NoOpening /\ instant - now <= AutoWithin

\* scheduleOfferLabel: does the review card show the button?
Offered(m) ==
    LET code == Verdict(m, now)
    IN /\ status[m] = "approved" /\ intent[m] = {}
       /\ code \in Transient
       /\ ~ShouldAutoSchedule(NextLegalSendInstant(code))
       /\ IntentCanOutlastTheSettings(code)

-----------------------------------------------------------------------------
(* The operator *)

\* scheduleSendIntent: only an approved message without an intent takes one.  The
\* clock of the code is fine enough that no click shares its instant with a pass.
ScheduleSendIntent(m, by, notBefore, lifetime) ==
    /\ \A p \in Passes : pass[p].step # "off" => pass[p].at < now
    /\ Opens(Most(now, notBefore)) # NoOpening
    /\ status[m] = "approved" /\ intent[m] = {}
    /\ clicks[m] < MaxClicks
    /\ clicks' = [clicks EXCEPT ![m] = @ + 1]
    /\ intent' = [intent EXCEPT ![m] =
         {[at |-> Opens(Most(now, notBefore)),
           expires |-> Opens(Most(now, notBefore)) + lifetime,
           by |-> by, clickedAt |-> now, click |-> clicks[m] + 1]}]

\* Mutant: every intent gets its day, whatever it waits for.
ScheduleClickForADay(m) ==
    /\ ScheduleSendIntent(m, "operator", now, LifetimeAfterOpening)
    /\ promised' = IF Offered(m) THEN promised \cup {m} ELSE promised \ {m}
    /\ UNCHANGED <<now, hours, status, block, consumed, pass, activity>>

\* The schedule button: the lifetime is read from the refusal of this instant.
\* A page may be old, so the click comes with or without a promise.
ScheduleClick(m) ==
    /\ LET code == Verdict(m, now)
       IN ScheduleSendIntent(m, "operator", now,
              IF code \in Transient THEN OperatorIntentLifetime(code) ELSE LifetimeAfterOpening)
    /\ promised' = IF Offered(m) THEN promised \cup {m} ELSE promised \ {m}
    /\ UNCHANGED <<now, hours, status, block, consumed, pass, activity>>

\* The send button was refused, by a wait under an hour: it is taken on.
AutoSchedule(m) ==
    LET code == Verdict(m, now)
        instant == NextLegalSendInstant(code)
    IN /\ code \in Transient
       /\ ShouldAutoSchedule(instant)
       /\ ScheduleSendIntent(m, "button", instant, AutoWithin)
       /\ promised' = promised \ {m}
       /\ UNCHANGED <<now, hours, status, block, consumed, pass, activity>>

\* cancelSendIntent
Cancel(m) ==
    /\ status[m] = "approved" /\ intent[m] # {}
    /\ intent' = [intent EXCEPT ![m] = {}]
    /\ consumed' = [consumed EXCEPT ![m] = @ + 1]
    /\ promised' = promised \ {m}
    /\ UNCHANGED <<now, hours, status, block, clicks, pass, activity>>

\* Something is sent: the mailbox and perhaps the contact rest, the cap may fill.
Upset(m) ==
    \E cap \in {block[m].cap, now + LifetimeAfterOpening},
       contact \in {block[m].contact, now + ContactDelay} :
        block' = [block EXCEPT ![m] =
            [cap |-> cap, mailbox |-> now + MailboxDelay, contact |-> contact]]

\* Another message goes out.
Activity(m) ==
    /\ activity < MaxActivity
    /\ IsWithinWorkingHours(now, hours)
    /\ activity' = activity + 1
    /\ Upset(m)
    /\ promised' = promised \ {m}
    /\ UNCHANGED <<now, hours, status, intent, clicks, consumed, pass>>

\* The claim of sendApprovedMessage uses up an intent that stands.
Claimed(m) ==
    /\ intent' = [intent EXCEPT ![m] = {}]
    /\ consumed' = [consumed EXCEPT ![m] = @ + Cardinality(intent[m])]
    /\ promised' = promised \ {m}

\* The send button, when the policy allows it; the attempt succeeds or returns
\* the message to approved.
SendNow(m) ==
    /\ Verdict(m, now) = "ok"
    /\ Claimed(m)
    /\ status' \in {status, [status EXCEPT ![m] = "sent"]}
    /\ UNCHANGED <<now, hours, block, clicks, pass, activity>>

\* A refusal no waiting lifts: a reply, a stop, a suppression.
Close(m) ==
    /\ status[m] = "approved"
    /\ status' = [status EXCEPT ![m] = "closed"]
    /\ promised' = promised \ {m}
    /\ UNCHANGED <<now, hours, intent, block, clicks, consumed, pass, activity>>

-----------------------------------------------------------------------------
(* The lane: dispatchScheduledSends *)

Due == {m \in Messages : status[m] = "approved" /\ \E i \in intent[m] : i.at <= now}

Row(p) == Head(pass[p].rows)

OldestFirst(rows, list) ==
    /\ \A row \in rows : \E k \in DOMAIN list : list[k] = row
    /\ \A k, l \in DOMAIN list : k < l => list[k].read.at <= list[l].read.at

\* The list is read once, the oldest instant first.
PassBegins(p) ==
    /\ pass[p].step = "off"
    /\ Due # {}
    /\ LET rows == UNION {{[message |-> m, read |-> i] : i \in intent[m]} : m \in Due}
       IN \E list \in [1..Cardinality(rows) -> rows] :
            /\ OldestFirst(rows, list)
            /\ pass' = [pass EXCEPT ![p] = [at |-> now, rows |-> list, step |-> "judge",
                                            verdict |-> "ok", sent |-> 0]]
    /\ UNCHANGED <<now, hours, status, intent, block, clicks, consumed, promised, activity>>

\* On to the next row, or to the end of the pass.
AfterRow(row) ==
    IF Len(row.rows) = 1 THEN Idle
    ELSE [row EXCEPT !.rows = Tail(row.rows), !.step = "judge"]

NextRow(p) == pass' = [pass EXCEPT ![p] = AfterRow(pass[p])]

\* A row that has not run out has its verdict read, without a claim.
Judge(p) ==
    /\ pass[p].step = "judge"
    /\ pass' = [pass EXCEPT ![p].step = "act",
                            ![p].verdict = Verdict(Row(p).message, pass[p].at)]
    /\ UNCHANGED <<now, hours, status, intent, block, clicks, consumed, promised, activity>>

\* Mutant: the write finds its row by id and status.
StillThereById(p) == status[Row(p).message] = "approved"

\* The condition of every write of the lane: approved, with the instant that was
\* read.
StillThere(p) ==
    LET m == Row(p).message
    IN status[m] = "approved" /\ \E i \in intent[m] : i.at = Row(p).read.at

Lapsed(p) == Row(p).read.expires <= pass[p].at

\* Where a row refused for a while is looked at again.
NextLook(p) == Most(Opens(pass[p].at + Recheck), pass[p].at + Recheck)

Unreachable(p) == NextLook(p) >= Row(p).read.expires

\* clearIntent, or the taking of the intent before a send.
EndIntent(p) ==
    LET m == Row(p).message
    IN /\ intent' = [intent EXCEPT ![m] = IF StillThere(p) THEN {} ELSE @]
       /\ consumed' = [consumed EXCEPT ![m] = IF StillThere(p) THEN @ + 1 ELSE @]

\* An intent that ran out, or that would before the next look.
Expire(p) ==
    /\ \/ pass[p].step = "judge" /\ Lapsed(p)
       \/ pass[p].step = "act" /\ pass[p].verdict \in Transient /\ Unreachable(p)
    /\ EndIntent(p)
    /\ NextRow(p)
    /\ UNCHANGED <<now, hours, status, block, clicks, promised, activity>>

GiveUp(p) ==
    /\ pass[p].step = "act" /\ pass[p].verdict = "permanent"
    /\ EndIntent(p)
    /\ NextRow(p)
    /\ UNCHANGED <<now, hours, status, block, clicks, promised, activity>>

Push(p) ==
    /\ pass[p].step = "act" /\ pass[p].verdict \in Transient /\ ~Unreachable(p)
    /\ intent' = [intent EXCEPT
         ![Row(p).message] = IF StillThere(p) THEN {[i EXCEPT !.at = NextLook(p)] : i \in @} ELSE @]
    /\ NextRow(p)
    /\ UNCHANGED <<now, hours, status, block, clicks, consumed, promised, activity>>

\* One delivery a pass: the rest waits for the next.
OverLimit(p) ==
    /\ pass[p].step = "act" /\ pass[p].verdict = "ok"
    /\ pass[p].sent >= SendLimit
    /\ NextRow(p)
    /\ UNCHANGED <<now, hours, status, intent, block, clicks, consumed, promised, activity>>

\* The intent is taken before the send, or is not there any more.
Take(p) ==
    /\ pass[p].step = "act" /\ pass[p].verdict = "ok"
    /\ pass[p].sent < SendLimit
    /\ EndIntent(p)
    /\ IF StillThere(p)
       THEN pass' = [pass EXCEPT ![p].step = "send", ![p].sent = @ + 1]
       ELSE NextRow(p)
    /\ UNCHANGED <<now, hours, status, block, clicks, promised, activity>>

\* sendApprovedMessage, which asks the policy again at the time it is then: the
\* message leaves, or it is back with the operator.
Send(p) ==
    LET m == Row(p).message
    IN /\ pass[p].step = "send"
       /\ NextRow(p)
       /\ IF Verdict(m, now) = "ok"
          THEN /\ Claimed(m)
               /\ status' \in {status, [status EXCEPT ![m] = "sent"]}
          ELSE UNCHANGED <<intent, consumed, promised, status>>
       /\ UNCHANGED <<now, hours, block, clicks, activity>>

\* The cycle is killed with its pass.
PassDies(p) ==
    /\ pass[p].step # "off"
    /\ pass' = [pass EXCEPT ![p] = Idle]
    /\ promised' = promised \ {m \in Messages : Due # {}}
    /\ UNCHANGED <<now, hours, status, intent, block, clicks, consumed, activity>>

\* A pass takes little time but for its sends.  Whoever is due and not looked at
\* in time has the lane to blame, not his button.
Tick ==
    /\ now < Horizon
    /\ \A p \in Passes : pass[p].step \in {"judge", "act"} => now < pass[p].at + PassTime
    /\ now' = now + 1
    /\ promised' = promised \ Due
    /\ UNCHANGED <<hours, status, intent, block, clicks, consumed, pass, activity>>

OperatorStep(m) ==
    \/ ScheduleClick(m) \/ AutoSchedule(m) \/ Cancel(m) \/ SendNow(m)
    \/ Activity(m) \/ Close(m)

PassStep(p) ==
    \/ PassBegins(p)
    \/ ~(pass[p].step = "judge" /\ Lapsed(p)) /\ Judge(p)
    \/ Expire(p) \/ GiveUp(p) \/ Push(p)
    \/ OverLimit(p) \/ Take(p) \/ Send(p)
    \/ PassDies(p)

ScheduleNext ==
    \/ \E m \in Messages : OperatorStep(m)
    \/ \E p \in Passes : PassStep(p)
    \/ Tick

ScheduleSpec == ScheduleInit /\ [][ScheduleNext]_scheduleVars

-----------------------------------------------------------------------------

\* Every intent ends once: whoever says he cancelled, took or ended one did, and
\* nobody else says it of the same intent, so one click buys one attempt.
EveryClickEndsOnce ==
    \A m \in Messages : clicks[m] = consumed[m] + Cardinality(intent[m])

\* A pass never touches an intent it has not read: what the operator cancelled
\* and asked for again meanwhile stands as he asked for it.
NewIntentSurvives ==
    [][\A p \in Passes :
        pass'[p] # pass[p] /\ pass[p].step \in {"judge", "act"} =>
            LET m == Row(p).message
            IN \A i \in intent[m] :
                (intent'[m] # {i}) => (i.click = Row(p).read.click)
      ]_scheduleVars

\* What the send button took on without asking leaves within two hours of the
\* click (and the time of a pass), whatever refusal takes the place of the first, or not at all.
UnattendedSendsAreSoon ==
    [][\A p \in Passes :
        pass[p].step = "act" /\ pass'[p].step = "send" /\ Row(p).read.by = "button" =>
            (now <= Row(p).read.clickedAt + 2 * AutoWithin + PassTime)
      ]_scheduleVars

\* "A wait the intent may not stand for is never advertised as one"
\* (scheduled-send.ts:66): if nothing else is sent and the lane looks when it said
\* it would, an offered intent does not expire.  It does, at the last look of an
\* opening.
EveryOfferIsKept ==
    [][\A m \in promised \cap promised' :
        intent[m] # {} /\ intent'[m] = {} =>
            \E p \in Passes :
                pass[p].step = "act" /\ pass'[p].step = "send" /\ Row(p).message = m
      ]_scheduleVars

\* The next look of this one falls into hours that are shut.
LastLook(p) == ~IsWithinWorkingHours(pass[p].at + Recheck, hours)

\* The card offers no wait its intent cannot outlive: what it offered expires, if
\* nothing else is sent and the lane looks when it said it would, only at the last
\* look of an opening, which the next opening comes too late for.
PromisesAreKept ==
    [][\A m \in promised \cap promised' :
        intent[m] # {} /\ intent'[m] = {} =>
            \E p \in Passes :
                /\ pass[p].step = "act" /\ Row(p).message = m
                /\ pass'[p].step = "send" \/ LastLook(p)
      ]_scheduleVars

=============================================================================
