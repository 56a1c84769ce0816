# Hyperoutreach: TLA+ specifications, model checking and proofs

Hyperoutreach sends outreach e-mail for one operator: it researches accounts
and contacts, guesses and verifies addresses, drafts messages with AI agents,
sends what the operator approved through SMTP/IMAP or Microsoft Graph, reads
the replies and works off follow-ups.  It is a Next.js monolith whose only
durable state is PostgreSQL; every worker (web request, maintenance cycle,
webhook, task runner) is a process that runs transactions on the same rows and
calls mail servers, AI agents and Microsoft in between.

What can go wrong for good is small and expensive: a prospect gets a message
twice, gets one at an address that is dead, gets one after having answered or
after the operator said stop, a reply is never read, or a piece of work silently
stops being looked at.  These specifications are about those things.  Paths
below are relative to `src/src/modules/` unless they begin with `lib` or
`scripts`, which are under `src/src/` and `src/`.

## 1. The system and what is modelled of it

| component | state it keeps | operations | modelled in |
|---|---|---|---|
| Approved sending, `messages/send-service.ts` | `messages` row: status, claim token and time, attempt count, draft id, send request time | `sendApprovedMessage` (claim, reconcile, draft, locks, final policy, attempt, confirm), `finalizeSent`, `markDeliveryUncertain`, `markPermanentlyRejected`, failures that give the claim back | `SendService` |
| Mail providers and SMTP journal, `mailboxes/smtp-imap-mail-provider.ts`, `smtp-send-journal.ts`, `microsoft-graph-mail-provider.ts` | `workflow_events` rows per Message-ID; the server's Drafts and Sent folders | `createDraft`, `sendDraft`, `reconcile`, journal attempt / acceptance / rejection | `MailProvider`, abstractly `OutreachDelivery` |
| Scheduled sends, `messages/scheduled-send.ts`, `settings/working-hours.ts` | intents on the message row: instant, expiry, source | schedule, cancel, reschedule, auto-schedule after a refusal, the lane: take, push, end | `ScheduledSends`, `WorkingHours` |
| Send recovery, `workflows/recovery-service.ts` | none of its own | stale candidates, expired send requests, due follow-ups | `SendService`, `EnrollmentLifecycle` |
| Inbound ingestion, `replies/*` | `inbound_records` (status, claim), `replies`, the enrollment's hold columns | `ingestInboundMessage`, redelivery, `reconcilePendingInboundRecords`, `mapReplyOutcome` | `EnrollmentRow`, `EnrollmentLifecycle` |
| Inbound rounds, `mailboxes/inbound-reconciliation.ts`, `lib/smtp-imap/*`, `mailboxes/microsoft-graph-sync-service.ts` | sync cursor and anchor, health event (the send gate), notification receipts with claims | IMAP rounds, Graph delta rounds, drain of receipts, quarantine | `InboundRounds`, `GraphInbound` |
| Graph subscriptions and OAuth, `mailboxes/microsoft-graph-subscription-service.ts`, `microsoft-oauth.ts` | subscription id, expiry, secret hash; encrypted tokens; authorization requests | ensure, renew, reauthorize, recover, disconnect; callback, refresh, revocation | `GraphSubscription`, `GraphTokens` |
| Follow-ups, `workflows/follow-up-service.ts`, `follow-up-policy.ts` | the enrollment's schedule and workflow claim | `findDueEnrollments`, `processFollowUpInvocation` and its ways out | `EnrollmentLifecycle` |
| Enrollment, review and generation, `campaigns/lifecycle-service.ts`, `messages/review-service.ts`, `messages/generation-service.ts` | `enrollments.state`, `stop_reason`, step | stop, approve, reject, generate | `EnrollmentRow`, `EnrollmentLifecycle`, abstractly `OutreachSequence` |
| Email resolution and address ladder, `email-resolution/service.ts`, `ladder-service.ts`, `ladder.ts` | candidates, the accepted one, dead addresses, verdicts on conventions, advances | resolve, accept by hand, advance after a bounce or a refusal, latch and lift demotions, promote | `AddressLadder` |
| Action locks, `lib/db/action-lock.ts` | PostgreSQL advisory locks on reserved sessions of a pool | `withActionLocks`, nested | `ActionLock` |
| Maintenance cycle, `workflows/maintenance-cycle-service.ts` | lease row with heartbeat | tick, stages under deadlines, retained work, release | `MaintenanceCycle` |
| Operator command queue, `workflows/operator-command-queue.ts` | command rows: status, attempts, claim, next attempt | enqueue, requeue, the pass: claim, prepare, execute, finalize, park | `OperatorCommandQueue` |
| Workflow dispatcher, `workflows/dispatcher.ts` | dispatch rows with a renewed start | dispatch, takeover, heartbeat, fenced completion | `WorkflowDispatch` |
| AI transports, `lib/codex/*`, `lib/chatgpt-desktop/*` | a semaphore and process groups; a queue for one window | structured calls with a budget; turns with a stable answer | `CodexRunner`, `DesktopWindow` |
| Local stack, `scripts/*`, `workflows/local-maintenance-*` | child processes and their groups | start, tick, orderly stop, unexpected exit, forced stop | `LocalStack` |
| Send policy and settings, suppression, mailbox connections | working hours, caps, pauses; entries; status | `evaluateSendPolicy`, refusals, stops, revocation | partly, where the others meet them |
| UI, API routes, presentation | none | calls of the above | partly: the send, schedule and cancel commands, the OAuth callback |
| Campaigns, enrollment selection | campaign rows | single transactions | not modelled, see 7 |
| Operator session, evaluation harness, migrations | cookie, files | login, offline runs | not modelled, see 7 |

How they interact.  Everything meets in a few rows.  The *message row* is
written by whoever runs `sendApprovedMessage`: the operator's request, the
scheduled lane, a follow-up and the recovery stage.  The *enrollment row* is
written by confirmations and refusals of sends, by inbound records, by
follow-up invocations, by the ladder and by the operator.  The *mailbox row* is
written by rounds (cursor), subscriptions, tokens and the operator.  The
*journal* of a Message-ID is written by whoever speaks SMTP.  Calls to servers
and to agents run between transactions, so every answer may arrive after the
row has moved.  Four mechanisms keep order: claims (a token or an owner with an
age, taken in a transaction and checked in a later one), advisory action locks
(held across the submission so that decisions and submissions exclude each
other), compare-and-swap on what was read (intents, tokens, subscription ids)
and insert-if-absent rows.

The behaviours that are hard to test, each at its line, are the `hazards` of
`PROJECT.json`, with the properties that would catch each.  In short: a caller
that dies between any two transactions or answers long after its claim was
taken for dead; a submission with an unknown outcome; a decision that lands
between a check and the submission it permits; several inbound records that
hold one enrollment, redelivered and finished in any order; a schedule or an
address withdrawn while somebody acts on it; a cursor that passes a message
nobody read; a stage, a turn or a subprocess that outlives its deadline while
its successor runs; a pool whose sessions all wait for one another; and
whatever must happen eventually.

## 2. The modules

    OutreachDelivery          what sending one message promises
        ^ refined by
    MailProvider              journal, folders, provider calls
        ^ extended by
    SendService               sendApprovedMessage on the message row

    OutreachSequence          what a sequence of messages to one person promises
        ^ refined by
    EnrollmentLifecycle       who makes which write to an enrollment, and when
        ^ extends
    EnrollmentRow             the writes, as functions

    OperatorCommandQueue      rows and the pass over them
        ^ extended by
    MaintenanceCycle          the lease under which stages, and that pass, run

    WorkingHours              the window and the search for its next instant
        ^ extended by
    ScheduledSends            intents and the lane

    InboundRounds, GraphInbound, GraphTokens, GraphSubscription
    WorkflowDispatch, LocalStack, CodexRunner, DesktopWindow, AddressLadder, ActionLock

`MCSendService`, `MCEnrollmentLifecycle`, `MCLadder` hold what TLC needs (model
values, symmetry).  `MCLocal` and `MCMail` put independent components side by
side: a constant-valued variable `part` picks one component per behaviour and
the others stay where they start, so such a run is as many separate explorations
in one, *not* a composition; nothing is claimed about two parts together.

Proofs are kept apart from the models they are about:

    MailProviderProofs, SendServiceProofs, MaintenanceCycleProofs, AddressLadderProofs
                              the module of the same name
    EnrollmentLifecycleProofs types, and lemmas on the writes of EnrollmentRow
        ^ extended by
    EnrollmentSafetyProofs    holds, schedules, answers, sequence of EnrollmentLifecycle
    MachineryProofs           WorkflowDispatch, ActionLock, LocalStack, CodexRunner,
                              DesktopWindow, each under its own specification
    MailboxProofs             ScheduledSends, InboundRounds, GraphTokens,
                              GraphSubscription, GraphInbound, likewise

### MailProvider

One action per query, journal write, IMAP round trip or submission.  `journal`
is the three `workflow_events` rows of a Message-ID, `folders` whether Drafts
and Sent hold a copy, `delivered` and `refused` what the server did (the truth
nobody in the program sees), `op[c]`, `known[c]`, `reply[c]` the call caller
`c` has in progress.  Callers are unconstrained: any of them may start any call
at any time and vanish at any step, so nothing here leans on the claims above.
`Provider` selects SMTP/IMAP (journal, folders by Message-ID) or Graph (one
immutable id, no journal).  Abstractions: the three journal queries of one
reconcile are one step, because an acceptance or a rejection is only written
over an attempt that is then kept; one Drafts copy stands for several; the
Sent copy may appear at any time or never.

### SendService

One action per PostgreSQL transaction of `sendApprovedMessage` and of the
recovery stage; provider calls run step by step in `MailProvider` between them.
`message` is the row, `claimed[c]` what a caller remembers of it from its
claim, `pc[c]` where it is, `lock` who holds the action locks, `permitted` the
answer of all policy conditions that are not about the row, the enrollment or
the mailbox.  Claims age by `ClaimAges`: with "slowOwner" in `Disturbances`
even under a caller still at work, as five minutes may pass under three
provider calls and a wait for locks; without it only when the owner has ended.
`LoseLocks` is the loss of the reserved session that holds the advisory locks.
Tokens are recycled once nothing refers to them.  What a confirmation or
refusal does to the enrollment is here only "it moved on".

Assumptions taken from the code: working hours and caps change without locks,
so `DecisionHoldsAtSubmission` is about the decisions that are written under
action locks (pause, stop, suppression, settings, holds); the SMTP provider
bounds a call at 150 seconds so that `sendDraft` does not outlive its caller
(`send-service.ts:1271-1277`).

### EnrollmentRow and EnrollmentLifecycle

`EnrollmentRow` has the enrollment's columns and each write as a function from
the row a transaction locked to the row it commits: taking a hold, applying an
outcome, re-addressing, confirming, refusing.  `EnrollmentLifecycle` has the
transactions.  An ingestion is a staging transaction, the classifier, a last
transaction; a follow-up invocation is found, claims, generates, reviews,
sends, and leaves by one of four ways, each a transaction of its own.

Abstractions, each an over-approximation unless it says otherwise:

* The sequence starts when its first message has been submitted and its
  confirmation is outstanding; inbound records are about that message.
* `due` says whether there is a due date, not when; rescheduling makes the
  invocations found for the old date stale, as the compared date would.
* "replied" stands for `opted_out` too; `opted_out` differs in nothing the
  properties read.
* Whether campaign, mailbox, pause, suppression and ladder caps allow a step is
  left open at each step.
* The locks of a send are "some message is sending".  A send's own details are
  `SendService`'s.  An uncertain message that the SMTP provider proves unsent is
  drafted again (`ReleaseUncertain`, status "released", which keeps the time of the
  attempt); a release that a submission still under way overtakes, as in
  SentUndone, is left to `SendService`.
* The unmatched branch of ingestion is left out: the mailbox lanes go through
  `ingestMatchedInboundMessage`.
* A process that died does not come back under its name; instances have other
  processes for that.
* Follow-up tokens are numbered in the order they are made.

`OutreachSequence` is the promise, in five variables: the step the sequence is
at, per step whether its message is unsent, handed over, confirmed or refused,
whether the sequence is open, completed or ended, whether the first address is
dead, and whether anybody reviews the follow-ups.  There are no holds in it, no
schedules, claims, workers or drafts: one message is under way at a time, that of
the sequence's step and only while it is open; the step moves on with its
confirmation, and back only when the first address is dead and nothing later was
attempted; what is over stays over unless nobody reviews (`Reopen`), but for the
one-step sequence whose only message turns out to have gone to a dead address.
`KeepsInStep` maps the enrollment to it: `Mail` is what the message rows say
(`sending` and `uncertain` are handed over), `OutcomeOf` what the state
says, and a held, parked or waiting enrollment is an open sequence.

### OperatorCommandQueue and MaintenanceCycle

A command row has status, attempt, claim, and two booleans for time: `due` (its
next attempt time has come) and `expired` (its claim is older than fifteen
minutes).  A pass pins the instant it began at, which is `late`: what becomes
eligible during a pass is not for that pass.  A process stands for the random id
it claims with; when it dies or its pass throws, its rows name "gone".
`subject` is the precondition of commands that write a first message (an
accepted address).  Executing is one step with every disposition, and an agent
turn uses up the pass's budget, as in the code.

A cycle claims the lease, runs stages one after the other, and either completes,
fails, or passes a deadline; work that outlives its deadline is *retained* and
keeps the lease until it settles.  The three stages ahead of the commands are
one: what they do is other modules'.  `punctual`, chosen once, says that a live
process's heartbeats are never late; without it only fencing is claimed.

### WorkflowDispatch

One row that requests for the same key meet in.  `recent` is "its start, which
heartbeats renew, is within the lease"; `onTime` is `punctual`'s counterpart.
A request's conflict, read and conditional takeover are separate steps.

### ScheduledSends and WorkingHours

`WorkingHours` is the window search (`nextWorkingInstant`) in small weeks whose
clock may be put forward or back once; local time is instants shifted by that
change.  It declares the instant and the settings, which `ScheduledSends` moves and
which stand still in a run about calendars only.  `ScheduledSends` has the click, the send button, which schedules by
itself what time lifts within an hour, cancel, reschedule and the lane: a
pass reads what is due, judges each row by the policy, and takes, pushes or ends
the intent by a compare-and-swap on the instant it read, *then* sends.  The send
is one step whose outcomes are SendService's.  Instants are numbered; the
daily cap and delays are functions of what else was sent.

### InboundRounds and GraphInbound

`InboundRounds` is a round over an IMAP folder: status and epoch, search by UID
or by date, page, ingestion one by one, cursor, health.  Mail arrives, is moved
in with its old date, the folder is recreated under new UIDs, the process dies,
anywhere in a round; `exempt` is what nobody promises (history from before the
connection, and moved mail whose UID epoch or cursor was lost).  A page is any
sequence of the wanted mails in the order of their UIDs (`InUidOrder`).
`FirstUidSince` searches by calendar day, as a server without WITHIN does (imapflow
asks the others by the second).  Such a server compares in its own zone, and the
model takes its clock to be no earlier than UTC (`ServerAhead`, `ZoneAssumption`).
West of UTC it may pass over mail of the anchor's first hours, and a fresh walk that
finds nothing then starts behind it; the program sends the UTC day and does not
correct for this.
`GraphInbound` is the same promise for Microsoft: delta rounds that follow an
opaque link Graph may reject, receipts worked off under claims that run out,
404s that run a round of their own, letters the program cannot parse (`bad`),
which block a round by design and are quarantined by a drain.  Its letters enter
the inbox when they are received: one moved in later with its old date is left out
here, though not in `InboundRounds` (the saved link may report it, a round that
starts again from the anchor does not ask for it).  An ingestion is one step in both.

### GraphTokens and GraphSubscription

Callback and refresh write without the mailbox lock, so `GraphTokens` keeps
what they compare (the ciphertext of the refresh token) and lets every answer be
late.  In `GraphSubscription` whoever touches the subscription holds the lock;
every call may fail before or after its effect, Microsoft may drop it at any
time, and the configured secret may change with a restart.

### AddressLadder

People at one mail domain; a convention gives each person one address.  Deaths
(by a bounce or a definite refusal), acceptances by hand and restorations hold
the domain lock and are atomic.  Resolution (reads, lookups, conclusion) and
drafting (reads the address, later writes the row) hold none, so they are split.
Eras order attempts, deaths and restorations.  Not kept: the candidates'
persisted rank, because everybody who chooses ranks again; rejected and
candidate are one; a resolution that is taken over keeps only its successor's
pass; the ladder is switched on or off and the circuit breaker open or closed
freely; a change of employer is "leaves"; suppression is of addresses, not domains.

### CodexRunner, DesktopWindow, LocalStack

`CodexRunner` has the semaphore with its queue of waiters and, per call, the
process, its relatives (`kin`), the escalation from SIGTERM to SIGKILL and the
one budget for all.  `DesktopWindow` has the queue of turns, the caller's
deadline that already runs while it waits, and the shown chat, in which an answer grows,
pauses and completes while nobody may be listening.  `LocalStack` has the
supervisor's two ways of stopping, which may overlap, the children and the
descendants of their groups.

### ActionLock

Sessions of a pool and how often each holds a key.  The settings key is tried,
the others are waited for; who waits in vain gives everything back and starts
again, an inner scope keeps what the outer one holds.  `Outside` are calls whose
action needs another session of the same pool (a provider that reads its journal
or token on it).  The other modules take a call's locks as one step, which
`SectionsExclude` justifies as long as the session lives; `SendService` models
the loss itself.  `NestingAssumption` says which calls open scopes of their own and
what those may ask for; `GetsOn` lists the guards of the steps that move a call on,
without the one that only asks again.
An unlock may be answered by an error on a session that lives (`UnlockFails`).  An
inner scope then leaves its lock to the outer one's clean-up; an outermost scope
whose last clean-up is not confirmed withholds the session from the pool with
whatever locks are on it (`unclean`), until its connection breaks (`LoseWithheld`)
or the program restarts.

## 3. The runs

Eight runs pass, four show a disagreement between the code and what its
comments or docs say.  Sizes are of complete explorations.

| run | instance | distinct states, depth | checks |
|---|---|---|---|
| SendSmtp | an operator and a recovery caller, 2 tokens, both may die, slow owner, lost lock session, SMTP | 772 215, 68 | `StatusIsTrue`, `ReconciliationIsTrue`, refinement `DeliversOnce` |
| SendGraph | the same callers over Graph, the operator may die; slow owner, changing permissions, revoked mailbox; fairness | 207 472, 41 | `AtMostOnce`, `SubmissionIsRemembered`, `DecisionHoldsAtSubmission`, `SentIsFinal`, `ClaimsAreResolved` |
| Replies | 2 records, 2 ingesters that may die, a two-step campaign with review | 109 850, 21 | `HoldsAreCounted`, `NoScheduleForSentStep`, `NoSubmitWhileReplyPending`, refinement `KeepsInStep` |
| FollowUps | 2 workers, one of which may die, a record, with and without automatic follow-ups | 681 751, 37 | `WorkerSendsNext`, `NoSubmitAfterTerminalReply` |
| HoldsReleased | 2 ingesters, one of which may die, a record, fairness, a classifier that answers in the end | 4 893, 15 | `HoldsAreReleased` |
| Maintenance | 2 cycles, a command and one requeue of it, 2 attempts, one death; fairness | 288 332, 32 | `LeaseGuardsWork`, `AttemptsInBudget`, `OutcomesAreFinal`, `CommandsAreSettled` |
| Local | eight parts, one awake: dispatcher, stack, Codex calls, desktop window, ladder of a person, ladder of a company, action locks, calendars | 932 656, 53 | see below |
| Mail | five parts, one awake: lane, IMAP rounds, tokens, subscription, Graph letters | 2 251 966, 36 | see below |
| SentUndone | as SendSmtp without disturbances | counterexample | `SentIsFinal` fails over SMTP |
| EndedRevived | 1 worker, automatic follow-ups | counterexample | `TerminalIsFinal` fails |
| StaleFollowUp | 1 worker, 1 ingester, 1 record, automatic | counterexample | `StaleInvocationsSendNothing` fails |
| AddressNotInUse | the ladder of a person | counterexample | `OnlyTheAddressInUse` fails |

| part of Local | instance | properties |
|---|---|---|
| dispatch | 3 requests for one key, 3 attempts | `OneRunAtATime`, `SuccessIsTheRuns` |
| stack | worker and web server, all interrupts; fairness | `NothingIsOrphaned`, `InterruptEndsStack` |
| codex | 3 calls, one slot | `SlotsAreConserved`, `ForcedEndsLeaveNobody` |
| window | 2 callers, 8 instants | `AnswersAreOwnAndWhole` |
| person | one contact, 2 sequences, 2 forms of address, 2 rungs, 2 eras | `TheDeadStayDead`, `OneDeathOneAddress`, `LeaversAreLeftAlone` |
| company | 2 people, a sequence each, verdicts on conventions | `VerdictsStand` and those of person |
| locks | a send, a save, two nested rounds over 2 sessions, 2 sessions lost or not cleaned | `SectionsExclude`, `NobodyIsStuck` |
| calendar | no, one or two open days, every opening and every change of the clock by a minute over a week of 3 days of 4 minutes, from each of 26 instants, two to a minute | `SearchIsExact` |

| part of Mail | instance | properties |
|---|---|---|
| lane | one message, 2 passes, a week of 3 days of 4 instants of which two are open, a look every 3, a contact delay of 4, 2 clicks, 8 instants | `EveryClickEndsOnce`, `PromisesAreKept` |
| rounds | 2 mails, 2 UID epochs, 4 minutes, a server a minute ahead of UTC | `NothingIsOutOfReach`, `OpenGateIsInformed` |
| tokens | 2 requests, 2 callbacks, 3 grants, 3 writes | `LateAnswersAreHarmless` |
| subscription | 2 subscriptions, 2 secrets | `OneSubscription` |
| graph | a good letter and one that does not parse, a drain, delta rounds | `NoLetterIsLost` |

### Bounds

The races on one message are between an owner and one that takes over: two
callers give every order of two claims, two submissions and a late write; a
third claim needs a third token, which is free only when an earlier one is
forgotten, and adds no new pair.  Two records are the least for which the first
and the last hold differ; two ingesters the least for a takeover; two steps the
least for a sequence that moves on, has a predecessor to check and completes.
Two cycles give a stale owner and its successor, two attempts a first and a
last one, one requeue a row that starts again with its history.  Three requests
are an owner, a taker and a late third; three calls over one slot are one that
runs, one that waits and one that is skipped when it is handed on.  Two sessions
for four holders are too few for all, which is when waiting matters; two
sequences to one person share an address, two people share a convention.  Two mails are one at the
cursor and one behind it.  The proofs below remove the bounds for what they
cover.

What the two ladder parts leave out to stay small (`MCLadder`): in *person* one
contact is written to by two sequences, the operator accepts only the second
address by hand and suppresses only the first, one sequence has follow-ups
and the other may end; in *company* two people meet in the verdict on a
convention, one's addresses are chosen by hand, the other's by resolution, and
the ladder stays on and its circuit breaker closed.

The part *graph* has one drain, so two drains that overtake each other on the
receipts are not in the run; that nothing is lost then rests on the theorem
`LettersAreNotLost`, which is for any number of them.

No state constraint is used.  Counters are bounded in the guards: `LastAttempt`,
`MaxAttempts`, `MaxRequeues`, `MaxDeaths`, `MaxLosses`, `MaxClicks`,
`MaxActivity`, `LastEra`, `LastEpoch` and the clocks `EndOfTime`, `LastTime`,
`Horizon`, `LastMinute`, `LastTick`; `minted` and the hold count are bounded by
the sends and records there are.

`CHECK_DEADLOCK FALSE` stands in every configuration because the system really
may stop: a sent message with idle callers, an ended sequence whose records are
processed, a stack that has exited, a calendar, in which nothing moves, and every
part whose clock has reached its bound.  What must not stop is stated as a
property (`NobodyIsStuck`, the liveness properties).

### Fairness

* `SendService!Fairness`: every transaction, provider call and lock wait of a
  running caller ends (provider calls time out), the maintenance cycle calls
  the recovery stage every minute, time passes.  Operators owe nothing; the
  server may refuse or lose every call.
* `EnrollmentLifecycle!Fairness`: a live ingestion goes on, and is not overtaken
  in its last transaction for ever (the claim lasts five minutes, the
  transaction milliseconds), which is why `Finish` is strongly fair; sweeps keep
  coming in processes that do not die, for each record that is chosen again and
  again; a send's locks are released.  Only `RecoveringSpec` adds that the
  classifier does not fail on one message for ever.
* `MaintenanceCycle!FairMaintenanceSpec`: `TimeFairness` is that time passes
  (commands become due, claims and leases grow old).  `CycleFairness` is strong
  for starting a cycle, for the stages ahead of the commands and for the pass's
  first steps, because each is tried again on every tick of the worker and is
  disabled in between; it says that what is tried for ever succeeds once.  Work
  in progress is weakly fair: a stage ends or is retained, and retained work
  settles.
* `LocalStack!StackFairness`: a killed process dies, and each way of stopping
  takes its next step (its waits are bounded by timers).  Children owe nothing:
  they may ignore SIGTERM for ever.

## 4. What the runs found

* **A confirmed send is undone (SentUndone).**  The functions that give a claim
  back look at token and attempt count, not at the status
  (`messages/send-service.ts:319-323`, `818-833`).  After an uncertain message
  was released and claimed again, the first submission's confirmation and the
  second caller's failing reconciliation can end with the sent row back at
  `drafted`.  The journal still prevents a second delivery (proved).
* **An ended sequence is revived (EndedRevived).**  The already-approved branch
  of a follow-up writes `approved` to whatever row has the id
  (`workflows/follow-up-service.ts:731-736`).
* **A withdrawn schedule is worked off (StaleFollowUp).**  A reply clears the
  schedule and leaves the workflow claim, which is all an invocation checks.
* **A message goes to an address no longer in use (AddressNotInUse).**  The
  policy compares recipient and accepted address only while the contact is
  resolved (`messages/send-service.ts:937-956`).  A draft that read an address
  before acceptance moved, and a later resolution whose lookup failed, end with
  a message to the old one.

Each is a finding of `PROJECT.json` with the lines and the quoted sentence.
Five more disagreements are stated in the modules and fail when they are named
in a configuration, but no run is spent on them:

* `EnrollmentLifecycle!WaitingIsScheduled`: `rescheduleFollowUp` writes
  `waiting` and a due date to a row whose token was withdrawn meanwhile, and
  nobody looks at that row again (`workflows/follow-up-service.ts:163`).
* `EnrollmentLifecycle!AbandonedReportsAreReclaimed`: failed records come first
  and one record is taken per tick, so one message the classifier never manages
  starves the sweep (`replies/inbound-service.ts:1034`).
* `SendService!RecoveryNeverClaimsApproved`: a stale claim listed by recovery
  and handed back to `approved` by somebody else is claimed from there, contrary
  to the comment at `messages/send-service.ts:1366-1370`.
* `GraphSubscription!RegisteredIsHeard`: a subscription whose creation succeeded
  and whose registration was lost leaves a row without a secret hash; when the
  configured secret then changes, `clientStateChanged` is false for want of a
  hash (`mailboxes/microsoft-graph-subscription-service.ts:254-256`), the old
  subscription is adopted (`307-316`) and recorded with the new hash, and the
  webhook rejects everything it delivers.  Delta rounds still read the mail, so
  the cost is latency.
* `ScheduledSends!EveryOfferIsKept`: the comment on the anchor says that "a wait
  the intent may not stand for is never advertised as one, so the button and the
  expiry cannot promise different things" (`messages/scheduled-send.ts:65-68`).
  The lane gives an intent up when its *next look* comes after the expiry (750),
  and the next look is projected on the calendar.  A refusal that ends within the
  last five minutes of an opening is therefore met by a look that finds it
  standing and by none before the next opening; when that opening is more than a
  day away the click is dropped.  With the shipped day between two messages to a
  contact, who was written to on Thursday three minutes before the window shuts
  and whose next message is clicked a minute later, this is Friday's last look.
  The lane's instance shows it because its looks are three instants apart; with a
  look at every instant no refusal ends between two looks.

The other properties that are stated without a run (`WorkerDrainsFirst`,
`StartedTurnsAreHeard`, `ExcusedStaysExcused`, `LiveAddressIsKept`,
`StatesAreUsedOnce`, `NewIntentSurvives`, `UnattendedSendsAreSoon`,
`WorkingOneIsKept`, `NothingIsSkipped`, the type invariants) hold in the
instances above.

The exceptions these findings make are written into the properties that pass:
`HoldsAreCounted` speaks of campaigns without automatic follow-ups, and the
sequence that `KeepsInStep` implements is opened again only where nobody reviews,
so that it contains `TerminalIsFinal` for the campaign of the run Replies.
`NoScheduleForSentStep` counts as a
schedule what `findDueEnrollments` can find, which takes a token, because of
`WaitingIsScheduled`.

`PromisesAreKept` says that an offered click is dropped only at the last look of
an opening, because of `EveryOfferIsKept`.  It is about settings whose longest
delay is a day or more: with shorter ones, a full cap behind a shut window is
not in the lifetime, though the comment at `messages/scheduled-send.ts:106-108`
counts "never less than the cap's own day" (`worstConfiguredWaitMs`, 160-172,
counts it only when the cap is the refusal that is reported).

`NoSubmitAfterTerminalReply` has an exception that only instances with two
records show.  The policy reads the *last* reply's classification, and a later
neutral answer or report overwrites a final one; the state then still says that
the sequence ended, unless it is written over.  Two writes do: the
already-approved branch of an automatic follow-up (EndedRevived), and, in a
campaign of one step, the re-addressing of a completed enrollment after a hard
bounce (`email-resolution/ladder-service.ts:1471`).  The property therefore says
that a submission after a final answer needs other news *and* one of these two
kinds of campaign; everywhere else there is none.  That it says no more than
this was found by proving it.

Seen while reading and modelling, not stated as properties:

* `undelivered_send_outstanding` is checked per enrollment only, not per contact.
* A draft whose recipient was read before that address died answers "existing"
  to every later generation.
* The comment inside `latchConventionDemotions` that the bounce's transaction
  "holds no advisory lock" (`ladder-service.ts:411`) is older than the code: both
  paths that report a death take the domain's lock before the transaction
  (`inbound-service.ts:261-270`, `send-service.ts:643-673`).
* A crash between a command's claim and its execution spends an attempt.
* A retryable failure inside a stage makes a completed maintenance dispatch
  failed.
* The worker's shutdown grace equals its supervisor's (30 s), so a drain that
  takes all of it is killed.
* The lane takes an intent before it sends: a crash in between leaves no attempt
  and no intent, an approved message the operator must send again.
* `nextWorkingInstant` keeps the seconds of the instant it starts from.
* Graph receipts are claimed with the `now` of their pass, so the claims of a
  long pass are shorter than they look.
* Delta rounds ignore Graph's retry deadline.
* A delta round in flight may write its cursor to a mailbox that was
  disconnected meanwhile.
* The settings key of a send is only tried, so one send at a time holds locks in
  the whole installation.
* After an ordinary end of a Codex run nobody kills its process group
  (`lib/codex/process-runner.ts:204-219`): a descendant that has let go of the output
  lives on without bound, inside the group or out of it.  `ForcedEndsLeaveNobody`
  therefore speaks of calls that were ended by force.
* A session whose clean-up was not confirmed keeps its locks until its connection
  breaks or the program restarts.  Calls for those keys are refused or ask again
  until then, and the pool is smaller by one; `NobodyIsStuck` is about pools without
  such a session.

## 5. What is proved

Checked with TLAPS for every value of the constants their assumptions allow, so
for any number of callers, records, workers, ingesters, cycles, commands,
requests, holders, mails, people, calls and steps.  `PROJECT.json` lists the
theorems.

**MailProviderProofs.**  The inductive invariant `IInv` says who holds the
attempt row: at most one call is between its attempt and its verdict, what that
call knows about the server is true (`HolderKnows`), and over SMTP whatever the
server did is covered by an attempt row that nothing deletes any more
(`JournalIsTrue`).  `AtMostOnce` alone is not inductive: two calls in "submit"
satisfy it and break it in a step.  From `IInv` follow the types, at most one
delivery over SMTP, true reconciliations, that folders never decide after a
delivery, and that the provider implements `OutreachDelivery` (initial states
map to initial states, each step to a step or a stutter).

**SendServiceProofs.**  The service's variables have their types; each of its
steps is a provider step or leaves the provider alone (`ServiceUsesProvider`),
so that everything proved of the provider holds below the service: at most one
delivery over SMTP whatever the claims do, and the refinement.  `StatusIsTrue`
follows from true reconciliations and a server that settles once.
`DecisionsHold` needs that no lock session is lost: the invariant `LocksHold`
says that a caller between the final policy and the submission holds the lock
and was permitted.  Over Graph, where there is no journal, `AttemptCovers` ties
the submission in progress and the one done to the row's reserved attempt; it
gives at most one delivery, that a submission is remembered, and that a sent row
stays sent (`GraphSendsAreFinal`): such a row keeps its attempt, which is what
every function that gives a claim back looks at.  Over SMTP that is false
(SentUndone), because there an uncertain message may be released to try again.

**EnrollmentLifecycleProofs** proves the types, one lemma per write of
`EnrollmentRow` and one per group of actions.

**EnrollmentSafetyProofs** has four invariants, each one group of actions at a
time.

* `HoldsInv` proves that holds are counted exactly.  It adds to the types that a
  record in classification has one owner whose call is about it (`Owners`), that
  what an ingestion believes it holds is what the record says, and that an absent
  record holds nothing (`Unreceived`); without these a late answer could release
  a hold a second time.  Under `ASSUME AutomaticFollowUps = {FALSE}` it also
  gives that an ended sequence stays ended and that nothing is submitted while a
  reply or report is pending.  The assumption is needed: EndedRevived is the
  counterexample without it.
* `ScheduleInv` proves, for every campaign, that no schedule is that of a sent
  step and that a worker sends what comes next.  `ScheduleOK` is about the row
  (parked and ended rows have no token, neither for themselves nor in what their
  holds interrupted; nobody has a claim on them), `SequenceInv` relates the row
  to the messages (nothing beyond its step was attempted, only its own step may
  be in flight, a step with a schedule follows one that was sent), `WorkInv` says
  that whoever *still* holds the claim is at the row's step.
* `ReplyInv`, which contains both, proves that a final answer is final, with the
  exception of section 4.  What it adds: only processed records have a category,
  a dead first address was reported by a record, the row remembers a final
  answer that nothing came after, a completed sequence's last message was sent,
  and in campaigns of several steps without automatic follow-ups a final answer
  ends the sequence.
* `KeptInv` is `ReplyInv` with what the refinement needs besides (`DoneInv`):
  nothing is under way where a sequence is completed, what an ended row would be
  given back is not a completion, and a completion that holds keep back is that
  of a confirmed last message.  Without it a released hold could complete a
  sequence whose message is in flight, or whose end was decided meanwhile.  The
  initial state maps to the sequence's, and each step, one lemma per kind
  (`IdlesKeeps`, `SubmitKeeps`, `ConfirmKeeps`, `RefuseKeeps`, `ReportKeeps`), to
  one of its actions or a stutter: `SequenceIsKept`, for every campaign, with
  automatic follow-ups or without, of any number of steps.  (TLC was asked first:
  `KeepsInStep`, `DoneInv` and `NothingIsSkipped` in the instances of Replies and
  FollowUps with one, two and three steps, up to 2 722 876 states.)
  `StepsAreNeverSkipped` is then proved of the sequence, whose seven actions are
  all it has to look at, and read back through the mapping.

**MaintenanceCycleProofs.**  `MaintenanceInv` has three parts.  `GoodRow`: a row
names a living claim only while it runs, and its attempts are within the
budget; a row that is claimed had an attempt left.  `GoodPass`: what a pass
holds in hand and has counted.  `LeaseInv`: with punctual heartbeats whoever has
work running has the lease and keeps it fresh, and a living owner has work
running.  `LeaseGuardsWork` alone is not inductive, because it does not say that
the lease a second cycle would take is held.  From it follow the types, the
budget, that the work of a live lease is alone, that a fresh lease is given up
by its owner only, and that an outcome once recorded stands until the operator
asks again.

**AddressLadderProofs.**  `LadderInv` adds to the three safety properties that
who has moved has no resolution under way (`Deserted`), that an attempted address
has a message on record (`Witnessed`), that nothing is dated in an era to come
(`Dated`), and the latch: a verdict the record supports is written down, with the
time of its last restoration (`Latched`).  That the dead stay dead needs
`Deserted` and the types; that verdicts stand needs `Latched` and `Dated`,
because a convention is judged only by failures since its restoration.  The
action properties (`VerdictsStand`, `LiveAddressIsKept`) follow from the same
invariant.  The choice of an address by rank (a least element, `LeastNumber`) is
proved to exist from the well-foundedness of the naturals.

**MachineryProofs**, a part for each component.

* *Dispatcher.*  `HeldInv`: a live run that the row names has it started, and
  with heartbeats on time the row names every live run.  `ReturnedInv`: who is
  about to record a success has returned from the task.  `AttemptInv` bounds
  takeovers.  They give one run at a time when heartbeats are on time, and,
  whatever the heartbeats do, that the success in the row is the success of the
  run the row names.
* *Action locks.*  `LockInv` counts: a session holds each key as often as the scopes
  on it took it, or more often where a clean-up failed, scopes of two holders are on
  two sessions, and no two sessions have a key (`Apart`).  It gives mutual exclusion
  of the protected actions, withheld sessions or not.  `SomebodyGetsOn` follows from
  the same invariant where every session is clean: suppose nobody underway gets on.  Who waits for a key with locks to give back would get on
  by giving them back, so that whoever waits is in a scope of its own and has
  taken none of its keys (`WhoWaits`).  The key it waits for is on the session of
  another call, which is stuck in the same way and so holds only its outer keys;
  `NestingAssumption` says that inner scopes take none of those.  So nobody has a
  session, everybody is queueing for one, and the pool is full.  The assumption
  is the code's: the only calls that open scopes of their own are inbound rounds
  (`mailboxes/inbound-reconciliation.ts:176-260`), and the key they hold, the
  `inbound-delta` key of line 155, is taken by no inner scope.
* *Local stack.*  `StackInv`: `WayInv` says, for each way of stopping and each
  of its steps, what the children it is past are; it implies that nobody is left
  behind and that the worker is drained before the web server is asked.
* *Codex runner.*  `RunnerInv`: the count of the semaphore is the number of
  holders and nobody waits beside a free slot (`LineInv`); a run is within its
  budget or, once it is being ended, within the grace; what was ended by force leaves
  nobody, what ended by itself at most a quiet descendant (`CallInv`).
* *Chat window.*  `WindowInv`: who is queued is waiting, or past its deadline and
  about to be released (`QueueInv`); the chat is empty up to the submit, from
  there on its prompt is the turn's and what was read is whole (`TurnInv`); half
  an answer has not stood still longer than the app pauses (`PauseInv`), which
  with `WindowAssumption` is shorter than the quiet a reader waits for.

**MailboxProofs**, likewise.

* *Calendar.*  What `nextWorkingInstant` answers is open, not before the instant
  it was asked at and within the horizon, or `NoOpening` (`WhatOpensIsOpen`).  Each
  step of the search leads on and stops only where it is open (`StepIsSound`);
  that the steps exist as a function and that each is sound is shown by a least
  step that fails (`LeastExists`), from the well-foundedness of the naturals.
  `TheSearchIsExact` adds that nothing open is passed over (and
  `TheSearchStaysExact` that this holds wherever the lane is), from arithmetic on
  quotients and remainders: between an instant and the opening or the midnight it
  jumps to, a clock that does not change shows shut minutes only
  (`JumpsOverClosed`), and where the clock reads differently on arrival the
  interval is scanned (`StepIsExact`).  That it gives up only where nothing opens
  needs that twenty steps cross the horizon: a jump that finds nothing open ends
  at midnight, so that each step is a day but for the first and two about the
  change of the clock (`Pace`), which is enough for a week of fifteen days and the
  day beyond it.
* *Scheduled sends.*  `ClicksInv`: a message has no intent or one, and the clicks
  are the consumed ones and that one.  `LaneInv` adds what a pass under way
  knows (`PassOK`, `RowOK`): the rows it read were due when it began; an intent
  it did not read was clicked after it began, and an intent is never due before
  its click, so the instant of the row cannot be that of a newer intent; a row
  it acts on had not run out; and a pass that has not sent is in time.  The
  invariant gives that newer clicks survive a pass and, with one delivery a pass
  (`dispatchScheduledSends` has that as its default and its caller keeps it),
  that what the send button took on leaves within two hours or not at all.  With
  more than one a later row of the pass waits for the sends before it.
* *What the button promises.*  `PromiseInv` on top of `LaneInv`: no refusal that
  time lifts lasts longer than the longest delay from now (`BlocksInv`); a
  promised intent is due now or later, at an open instant, before it ends, and
  ends at least one look after every refusal of its click (`InTime`); and the
  verdict a pass acts on is still true of the instant it was read at
  (`VerdictsStand`).  So a pass that is at a promised intent is at its very
  instant (`PassAtPromise`), and if it gives it up while the next look would be
  open, the refusal has outlasted its bound, or nothing would open at all, which
  `TheSearchIsExact` excludes.  The theorem assumes `WaitsFit`: looks come within
  a day, the longest delay is between a day, which is the shipped contact delay,
  and a week, which is as far as the code anchors an intent, and a week has at
  most fifteen days.
* *IMAP rounds.*  `RoundsInv` is the counterpart of `ReachInv` below: what is
  owed is above the cursor and, where it has a date of its own, not older than
  the anchor (`OwedInv`); what a round has read of the folder is still true of it
  or of an older epoch (`RoundInv`); before it fetches a round starts below
  everything owed (`WalkInv`).  Later steps say what is on the page or recorded,
  and what the round's start has seen, from which the send gate's claim follows.
  `NothingIsOutOfReach` alone is not inductive: it says nothing of the position
  the round will save.
* *Tokens.*  A code is exchanged once (`ConsumedOK`), and what a refresh or a
  refusal may write is about the consent it was asked with (`TokensOK`).
* *Subscription.*  `SubscriptionInv`: a creation is under way only where no
  subscription lives, and whoever is replacing the registered subscription found
  it not intact.
* *Graph.*  `ReachInv` is the heart of `GraphInv`: what a link has reported is
  recorded, and a letter in the inbox that is not recorded is dated within
  whatever a round may look from, which is the saved link, the anchor and the
  round under way.  `ClockInv` orders these dates and the delay after which
  Microsoft shows a letter, `DrainInv` says that a closed receipt is one whose
  letter was recorded or is gone.  Hence no letter is lost, however
  notifications and rounds interleave, links are rejected, claims run out and
  drains die.

Assumptions on the constants are named in the module that declares them
(`ProviderAssumption`, `CallersAssumption`, `RowAssumption`,
`LifecycleAssumption`, `QueueAssumption`, `CycleAssumption`, `LadderAssumption`,
`DispatchAssumption`, `LockAssumption`, `NestingAssumption`, `RunnerAssumption`,
`WindowAssumption`, `HoursAssumption`, `CalendarAssumption`, `ScheduleAssumption`,
`InboundAssumption`, `ZoneAssumption`,
`TokenAssumption`, `SubscriptionAssumption`, `GraphAssumption`); the runs
evaluate all of them.  Where a proof counts, the sets are finite: people, mails,
records.

Model-checked only: liveness (`ClaimsAreResolved`, `HoldsAreReleased`,
`CommandsAreSettled`, `InterruptEndsStack`) is out of the prover's reach.
`NobodyIsStuck` is stated by the guards of the steps (`GetsOn`) instead of
`ENABLED`, so that it can be proved.  `PromisesAreKept` for a delay of more than a
week is not proved.

## 6. What could come next

1. `EnrollmentLifecycle` with a one-step campaign and two records, for a reply
   followed by a hard bounce after completion.
2. `ScheduledSends` composed with `SendService`: the lane's send as the
   service's steps instead of their outcomes.
3. `AddressLadder` composed with the inbound records that report a death.
4. Proofs: `PromisesAreKept` for delays of more than a week, which the card
   offers only when the calendar makes up for them.
5. The order of the send policy's refusals, and the login throttle's window, as
   pure operators against a reference definition.

## 7. Not modelled

* Campaigns, their templates and the selection of enrollments: single
  transactions that insert or edit rows under the locks `ActionLock` models;
  what their concurrency can do to a sequence enters through `EnrollmentRow`.
* Operator session and login throttle: one cookie and one counter; the UI, the
  screens and most API routes: reads and calls of modelled operations.
* MIME, TLS, the wire protocols of SMTP and IMAP: their outcomes are the
  provider's (accepted, refused, lost).
* Agents' prompts and what they answer: an answer is valid, invalid or late.
* Graph's per-request retry deadlines, notifications of deletions, and the
  suppression of whole domains.
* The evaluation harness, fixtures and migrations: offline, one process.
* The unmatched branch of ingestion, and the parts of contacts and research that
  only store what a lookup answered.

## 8. Running

    tlasany SendService.tla
    tlc -workers 2 -config SendSmtp.cfg MCSendService
    tlc -workers 2 -config Mail.cfg MCMail
    tlapm MaintenanceCycleProofs.tla

Which module goes with which configuration is in `PROJECT.json` (`runs`), as is
the source line every definition stands for (`map`) and the mutation that
breaks each property (`mutants`; their definitions stand beside the ones they
vary, marked "Mutant").  Local and Mail take two to three minutes each, the others
less.
