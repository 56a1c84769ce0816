----------------------------- MODULE GraphInbound -----------------------------
(***************************************************************************)
(* How a Microsoft mailbox is read (microsoft-graph-sync-service.ts,       *)
(* microsoft-graph-inbound-source.ts): notifications become receipts, and  *)
(* each receipt is worked off under a claim; rounds of the delta query     *)
(* follow an opaque link, which Graph may reject, from one saved round to  *)
(* the next.  A receipt whose letter is gone runs a round of its own.      *)
(*                                                                         *)
(* A letter reaches the inbox when it is received.  One that is moved into *)
(* it later with its old date is left out: the saved link may report it, a *)
(* round that starts again from the anchor does not ask for it.            *)
(***************************************************************************)
EXTENDS Naturals

CONSTANTS Letters, Drains,    \* letters of the inbox, passes over the receipts
          GraphSkew,          \* INBOUND_ANCHOR_SKEW_MS
          ShownWithin,        \* how late the delta query shows a letter
          LastTick            \* bound: the clock

Ticks == 0..LastTick
NoLetter == "none"
Timer == "timer"

ASSUME GraphAssumption ==
    /\ GraphSkew \in Nat
    /\ ShownWithin \in 0..GraphSkew
    /\ LastTick \in Nat
    /\ {Timer, NoLetter} \cap Drains = {}

VARIABLES tick,
          letter,    \* where it is, when it was received, whether the delta shows it
          bad,       \* letters whose shape the program does not understand
          known,     \* the recorded letters
          delta,     \* the saved link: what it has reported, and since when it looks
          anchor,    \* last_synced_at
          walk,      \* the round that holds the round lock
          receipt, drain

graphVars == <<tick, letter, bad, known, delta, anchor, walk, receipt, drain>>

NoLink == [saved |-> FALSE, seen |-> {}, since |-> 0]
NoWalk == [for |-> NoLetter, seen |-> {}, since |-> 0, began |-> 0, restarted |-> FALSE]
NoReceipt == [at |-> "none", claim |-> NoLetter]
NoDrain == [at |-> "off", of |-> NoLetter]

GraphTypeOK ==
    /\ tick \in Ticks
    /\ letter \in [Letters -> [in: {"nowhere", "inbox", "gone"}, date: Ticks, shown: BOOLEAN]]
    /\ bad \subseteq Letters
    /\ known \subseteq Letters
    /\ delta \in [saved: BOOLEAN, seen: SUBSET Letters, since: Ticks]
    /\ anchor \in Ticks
    /\ walk \in [for: Drains \cup {Timer, NoLetter}, seen: SUBSET Letters, since: Ticks,
                 began: Ticks, restarted: BOOLEAN]
    /\ receipt \in [Letters -> [at: {"none", "open", "review", "closed"},
                                claim: Drains \cup {NoLetter}]]
    /\ drain \in [Drains -> [at: {"off", "fetch", "walk", "ok"},
                             of: Letters \cup {NoLetter}]]

GraphInit ==
    /\ tick = 0
    /\ letter = [m \in Letters |-> [in |-> "nowhere", date |-> 0, shown |-> FALSE]]
    /\ bad \in SUBSET Letters
    /\ known = {}
    /\ delta = NoLink
    /\ anchor = 0
    /\ walk = NoWalk
    /\ receipt = [m \in Letters |-> NoReceipt]
    /\ drain = [d \in Drains |-> NoDrain]

InInbox(m) == letter[m].in = "inbox"

-----------------------------------------------------------------------------
(* The mailbox, as the program meets it. *)

Received(m) ==
    /\ letter[m].in = "nowhere"
    /\ letter' = [letter EXCEPT ![m] = [in |-> "inbox", date |-> tick, shown |-> FALSE]]
    /\ UNCHANGED <<tick, bad, known, delta, anchor, walk, receipt, drain>>

Shown(m) ==
    /\ InInbox(m) /\ ~letter[m].shown
    /\ letter' = [letter EXCEPT ![m].shown = TRUE]
    /\ UNCHANGED <<tick, bad, known, delta, anchor, walk, receipt, drain>>

\* Matters only to a receipt that is still worked on.
Removed(m) ==
    /\ InInbox(m) /\ receipt[m].at = "open"
    /\ letter' = [letter EXCEPT ![m].in = "gone"]
    /\ UNCHANGED <<tick, bad, known, delta, anchor, walk, receipt, drain>>

TickPasses ==
    /\ tick < LastTick
    /\ \A m \in Letters : InInbox(m) /\ ~letter[m].shown => tick < letter[m].date + ShownWithin
    /\ tick' = tick + 1
    /\ UNCHANGED <<letter, bad, known, delta, anchor, walk, receipt, drain>>

-----------------------------------------------------------------------------
(* A round: reconcileGraphDelta. *)

\* From the saved link, or from the anchor.
StartWalk(for) ==
    /\ walk = NoWalk
    /\ walk' = [for |-> for, seen |-> delta.seen,
                since |-> IF delta.saved THEN delta.since ELSE anchor,
                began |-> tick, restarted |-> FALSE]

TimerRound == StartWalk(Timer) /\ UNCHANGED <<tick, letter, bad, known, delta, anchor, receipt, drain>>

\* Graph rejects the link, at any page: once, the round starts again from the
\* anchor; what it has recorded stays.
LinkExpires ==
    /\ walk # NoWalk /\ ~walk.restarted
    /\ walk' = [walk EXCEPT !.seen = {}, !.since = anchor, !.restarted = TRUE]
    /\ UNCHANGED <<tick, letter, bad, known, delta, anchor, receipt, drain>>

\* What the delta query has still to report in this round.
Ahead == {m \in Letters : InInbox(m) /\ letter[m].shown /\ letter[m].date >= walk.since}
             \ walk.seen

\* A page is recorded before the next one is asked for; a record that is still to
\* be finished, or that another call works on, counts.
Page(m) ==
    /\ walk # NoWalk
    /\ m \in Ahead \ bad
    /\ walk' = [walk EXCEPT !.seen = @ \cup {m}]
    /\ known' = known \cup {m}
    /\ UNCHANGED <<tick, letter, bad, delta, anchor, receipt, drain>>

\* The drain that ran a round goes on when it ends, well or not.
Answered(ok) ==
    drain' = [d \in Drains |-> IF walk.for # d THEN drain[d]
                               ELSE IF ok THEN [drain[d] EXCEPT !.at = "ok"] ELSE NoDrain]
Rescheduled(ok) ==
    receipt' = [m \in Letters |->
        IF ~ok /\ walk.for \in Drains /\ receipt[m].claim = walk.for /\ drain[walk.for].of = m
        THEN [receipt[m] EXCEPT !.claim = NoLetter] ELSE receipt[m]]

\* Mutant: the anchor is the moment the round ends.
SaveLinkNow ==
    /\ walk # NoWalk /\ Ahead = {}
    /\ delta' = [saved |-> TRUE, seen |-> walk.seen, since |-> walk.since]
    /\ anchor' = tick
    /\ walk' = NoWalk
    /\ Answered(TRUE) /\ UNCHANGED receipt
    /\ UNCHANGED <<tick, letter, bad, known>>

\* The link of the last page and the anchor, a little before the round began.
SaveLink ==
    /\ walk # NoWalk /\ Ahead = {}
    /\ delta' = [saved |-> TRUE, seen |-> walk.seen, since |-> walk.since]
    /\ anchor' = IF walk.began > GraphSkew THEN walk.began - GraphSkew ELSE 0
    /\ walk' = NoWalk
    /\ Answered(TRUE) /\ UNCHANGED receipt
    /\ UNCHANGED <<tick, letter, bad, known>>

\* A letter that cannot be read or recorded, a second rejected link, any error.
WalkFails ==
    /\ walk # NoWalk
    /\ walk' = NoWalk
    /\ Answered(FALSE) /\ Rescheduled(FALSE)
    /\ UNCHANGED <<tick, letter, bad, known, delta, anchor>>

-----------------------------------------------------------------------------
(* Receipts: stageGraphWebhook, reconcilePendingGraphNotifications. *)

Notified(m) ==
    /\ InInbox(m) /\ receipt[m].at = "none"
    /\ receipt' = [receipt EXCEPT ![m].at = "open"]
    /\ UNCHANGED <<tick, letter, bad, known, delta, anchor, walk, drain>>

ClaimReceipt(d, m) ==
    /\ drain[d] = NoDrain
    /\ receipt[m].at = "open" /\ receipt[m].claim = NoLetter
    /\ receipt' = [receipt EXCEPT ![m].claim = d]
    /\ drain' = [drain EXCEPT ![d] = [at |-> "fetch", of |-> m]]
    /\ UNCHANGED <<tick, letter, bad, known, delta, anchor, walk>>

\* Five minutes after the pass began.
ClaimRunsOut(m) ==
    /\ receipt[m].claim # NoLetter
    /\ receipt' = [receipt EXCEPT ![m].claim = NoLetter]
    /\ UNCHANGED <<tick, letter, bad, known, delta, anchor, walk, drain>>

\* 404: the delta query is asked instead.
NotFound(d) ==
    /\ drain[d].at = "fetch" /\ letter[drain[d].of].in = "gone"
    /\ StartWalk(d)
    /\ drain' = [drain EXCEPT ![d].at = "walk"]
    /\ UNCHANGED <<tick, letter, bad, known, delta, anchor, receipt>>

\* The letter is fetched and recorded, if only to be finished later.
Record(d) ==
    /\ drain[d].at = "fetch" /\ InInbox(drain[d].of) /\ drain[d].of \notin bad
    /\ known' = known \cup {drain[d].of}
    /\ drain' = [drain EXCEPT ![d].at = "ok"]
    /\ UNCHANGED <<tick, letter, bad, delta, anchor, walk, receipt>>

\* Every write of a drain is fenced on its claim.
Owns(d) == receipt[drain[d].of].claim = d
Written(d, with) == receipt' = IF Owns(d) THEN [receipt EXCEPT ![drain[d].of] = with] ELSE receipt

CloseReceipt(d) ==
    /\ drain[d].at = "ok"
    /\ Written(d, [at |-> "closed", claim |-> NoLetter])
    /\ drain' = [drain EXCEPT ![d] = NoDrain]
    /\ UNCHANGED <<tick, letter, bad, known, delta, anchor, walk>>

\* A letter of another shape is put before the operator.
Quarantine(d) ==
    /\ drain[d].at = "fetch" /\ InInbox(drain[d].of) /\ drain[d].of \in bad
    /\ Written(d, [at |-> "review", claim |-> NoLetter])
    /\ drain' = [drain EXCEPT ![d] = NoDrain]
    /\ UNCHANGED <<tick, letter, bad, known, delta, anchor, walk>>

\* Graph does not answer, or the record was not written: again when its
\* delay is over.
Postpone(d) ==
    /\ drain[d].at = "fetch"
    /\ Written(d, [at |-> "open", claim |-> NoLetter])
    /\ drain' = [drain EXCEPT ![d] = NoDrain]
    /\ UNCHANGED <<tick, letter, bad, known, delta, anchor, walk>>

\* The process ends, and the round it ran with it.
DrainDies(d) ==
    /\ drain[d] # NoDrain
    /\ drain' = [drain EXCEPT ![d] = NoDrain]
    /\ walk' = IF walk.for = d THEN NoWalk ELSE walk
    /\ UNCHANGED <<tick, letter, bad, known, delta, anchor, receipt>>

-----------------------------------------------------------------------------

DrainStep(d) ==
    \/ \E m \in Letters : ClaimReceipt(d, m)
    \/ NotFound(d) \/ Record(d) \/ CloseReceipt(d) \/ Quarantine(d)
    \/ Postpone(d) \/ DrainDies(d)

GraphNext ==
    \/ \E m \in Letters :
        \/ Received(m) \/ Shown(m) \/ Removed(m) \/ Page(m)
        \/ Notified(m) \/ ClaimRunsOut(m)
    \/ \E d \in Drains : DrainStep(d)
    \/ TimerRound \/ LinkExpires \/ SaveLink \/ WalkFails \/ TickPasses

GraphSpec == GraphInit /\ [][GraphNext]_graphVars

-----------------------------------------------------------------------------

\* A round that began now would report the letter, whether Graph honours the
\* saved link or sends the round back to the anchor.
InReach(m) ==
    /\ letter[m].date >= anchor
    /\ m \notin delta.seen
    /\ delta.saved => letter[m].date >= delta.since

\* No reply is lost, though links expire, the query shows a letter late, rounds
\* and drains fail, die and overtake each other: a letter in the inbox that is
\* not recorded is in reach of the next round, and its notification is not
\* closed unless the operator was asked to look.
NoLetterIsLost ==
    \A m \in Letters : InInbox(m) /\ m \notin known =>
        (InReach(m) /\ receipt[m].at # "closed")

=============================================================================
