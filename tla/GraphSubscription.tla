-------------------------- MODULE GraphSubscription --------------------------
(***************************************************************************)
(* The change subscription of a Microsoft mailbox.  Microsoft keeps it for *)
(* a few days and may remove it at any time; calls to Microsoft fail before *)
(* or after they had their effect.  Everything that touches it holds the   *)
(* mailbox's lock; connecting and revoking (GraphTokens) do not.           *)
(***************************************************************************)
EXTENDS Integers, FiniteSets

CONSTANTS Subs,          \* subscription ids
          ClientStates,  \* configured secrets that notifications carry
          Life           \* a subscription's lifetime; renewed when 1 is left

ASSUME SubscriptionAssumption == Life \in Nat \ {0, 1}

VARIABLES secret,    \* the configured client state
          box,       \* status, subscriptionId, what is left of it, its client state
          remote,    \* per id, at Microsoft: client state and time left (0: none)
          held,      \* what the holder of the mailbox's lock is doing
          cooling,   \* the retry deadline is ahead
          event      \* per lifecycle event: where its handling is

subscriptionVars == <<secret, box, remote, held, cooling, event>>

Kinds == {"removed", "reauthorize"}
NoSub == "none"
NoEvent == <<"none", NoSub>>
Free == [op |-> "none", step |-> "off", sub |-> NoSub, changed |-> FALSE, for |-> NoEvent]
Live(s) == remote[s].left > 0

SubscriptionTypeOK ==
    /\ secret \in ClientStates
    /\ box \in [status: {"available", "revoked", "disconnected"}, sub: Subs \cup {NoSub},
                left: 0..Life, state: ClientStates \cup {"none"}]
    /\ remote \in [Subs -> [state: ClientStates, left: 0..Life]]
    /\ held.op \in {"none", "ensure", "renew", "reauthorize", "disconnect"}
    /\ held.step \in {"off", "delete", "list", "purge", "create", "write", "patch"}
    /\ held.sub \in Subs \cup {NoSub}
    /\ held.for \in (Kinds \X Subs) \cup {NoEvent}
    /\ cooling \in BOOLEAN
    /\ event \in [Kinds \X Subs -> {"none", "pending", "missing", "handled"}]

SubscriptionInit ==
    /\ secret \in ClientStates
    /\ box = [status |-> "available", sub |-> NoSub, left |-> 0, state |-> "none"]
    /\ remote \in {[s \in Subs |-> [state |-> c, left |-> 0]] : c \in {secret}}
    /\ held = Free
    /\ cooling = FALSE
    /\ event = [e \in Kinds \X Subs |-> "none"]

-----------------------------------------------------------------------------
(* Who does not hold the lock *)

Connect ==
    /\ box.status # "available"
    /\ box' = [box EXCEPT !.status = "available"]
    /\ UNCHANGED <<secret, remote, held, cooling, event>>

Revoked ==
    /\ box.status = "available"
    /\ box' = [box EXCEPT !.status = "revoked"]
    /\ UNCHANGED <<secret, remote, held, cooling, event>>

\* Microsoft drops a subscription.
Dropped(s) ==
    /\ Live(s)
    /\ remote' = [remote EXCEPT ![s].left = 0]
    /\ UNCHANGED <<secret, box, held, cooling, event>>

\* A day goes by.
DayPasses ==
    /\ remote' = [s \in Subs |-> [remote[s] EXCEPT !.left = IF @ = 0 THEN 0 ELSE @ - 1]]
    /\ box' = [box EXCEPT !.left = IF @ = 0 THEN 0 ELSE @ - 1]
    /\ <<box, remote>>' # <<box, remote>>
    /\ UNCHANGED <<secret, held, cooling, event>>

CoolsDown ==
    /\ cooling
    /\ cooling' = FALSE
    /\ UNCHANGED <<secret, box, remote, held, event>>

\* The secret is changed: every process is restarted.
Redeploy ==
    /\ \E c \in ClientStates \ {secret} : secret' = c
    /\ held' = Free
    /\ UNCHANGED <<box, remote, cooling, event>>

Crash ==
    /\ held # Free
    /\ held' = Free
    /\ UNCHANGED <<secret, box, remote, cooling, event>>

-----------------------------------------------------------------------------
(* ensureGraphSubscription *)

Allowed == held = Free /\ box.status = "available" /\ ~cooling

Intact(b) == b.sub # NoSub /\ b.left > 0 /\ b.state = secret

\* What ensureGraphSubscriptionLocked starts from, on the row as it is.
Ensuring(b, e) ==
    [op |-> "ensure", step |-> IF b.sub = NoSub THEN "list" ELSE "delete", sub |-> b.sub,
     changed |-> b.state # "none" /\ b.state # secret, for |-> e]

EnsureBegins ==
    /\ Allowed /\ ~Intact(box)
    /\ held' = Ensuring(box, NoEvent)
    /\ UNCHANGED <<secret, box, remote, cooling, event>>

\* Ids are not used twice while anything speaks of them.
NewIds == {s \in Subs : ~Live(s) /\ s # box.sub /\ \A k \in Kinds : event[<<k, s>>] = "none"}

\* A call fails: the deadline of the mailbox is set, nothing else is tried.
CallFails ==
    /\ held.step \in {"delete", "list", "purge", "create", "patch"}
    /\ held.op # "disconnect"
    /\ cooling' = TRUE
    /\ held' = Free
    /\ \/ UNCHANGED remote
       \/ /\ held.step = "delete"
          /\ remote' = [remote EXCEPT ![held.sub].left = 0]
       \/ /\ held.step = "purge"
          /\ \E gone \in SUBSET {s \in Subs : Live(s)} :
                remote' = [s \in Subs |-> IF s \in gone THEN [remote[s] EXCEPT !.left = 0] ELSE remote[s]]
       \/ /\ held.step = "create"
          /\ \E s \in NewIds : remote' = [remote EXCEPT ![s] = [state |-> secret, left |-> Life]]
       \/ /\ held.step = "patch" /\ Live(held.sub)
          /\ remote' = [remote EXCEPT ![held.sub].left = Life]
    /\ UNCHANGED <<secret, box, event>>

Onward(step) == held' = [held EXCEPT !.step = step]

DeleteOld ==
    /\ held.op = "ensure" /\ held.step = "delete"
    /\ remote' = [remote EXCEPT ![held.sub].left = 0]
    /\ Onward("list")
    /\ UNCHANGED <<secret, box, cooling, event>>

\* The update at the end finds the row it read, or nothing.
Owner == box.status = "available" /\ box.sub = held.sub

Register(s) ==
    /\ box' = IF Owner THEN [box EXCEPT !.sub = s, !.left = remote'[s].left, !.state = secret]
              ELSE box
    /\ event' = IF held.for \in DOMAIN event /\ Owner
                THEN [event EXCEPT ![held.for] = "handled"] ELSE event
    /\ held' = Free

\* Mutant: a subscription is created without a look at what is there.
ListBlindly ==
    /\ held.op = "ensure" /\ held.step = "list"
    /\ Onward(IF held.changed THEN "purge" ELSE "create")
    /\ UNCHANGED <<secret, box, remote, cooling, event>>

\* What Microsoft has is taken over, or removed first if the secret is another.
List ==
    /\ held.op = "ensure" /\ held.step = "list"
    /\ LET there == {s \in Subs : Live(s)}
       IN \/ /\ held.changed /\ Onward("purge")
             /\ UNCHANGED <<box, event>>
          \/ /\ ~held.changed /\ there = {} /\ Onward("create")
             /\ UNCHANGED <<box, event>>
          \/ /\ ~held.changed
             /\ \E s \in there : UNCHANGED remote /\ Register(s)
    /\ UNCHANGED <<secret, remote, cooling>>

Purge ==
    /\ held.op = "ensure" /\ held.step = "purge"
    /\ remote' = [s \in Subs |-> [remote[s] EXCEPT !.left = 0]]
    /\ Onward("create")
    /\ UNCHANGED <<secret, box, cooling, event>>

Create ==
    /\ held.op = "ensure" /\ held.step = "create"
    /\ \E s \in NewIds :
        /\ remote' = [remote EXCEPT ![s] = [state |-> secret, left |-> Life]]
        /\ Register(s)
    /\ UNCHANGED <<secret, cooling>>

-----------------------------------------------------------------------------
(* Lifecycle events and renewal *)

\* stageGraphWebhook: kept if it is about the subscription of the row.
Stage(k, s) ==
    /\ held = Free
    /\ event[<<k, s>>] = "none"
    /\ box.sub = s /\ box.status = "available" /\ remote[s].state = secret
    /\ (k = "removed") <=> ~Live(s)
    /\ event' = [event EXCEPT ![<<k, s>>] = "pending"]
    /\ UNCHANGED <<secret, box, remote, held, cooling>>

\* recoverGraphSubscription: an event about another subscription is stale.
Recover(e) ==
    /\ Allowed \/ (held = Free /\ box.sub \notin {NoSub, e[2]})
    /\ event[e] = IF e[1] = "removed" THEN "pending" ELSE "missing"
    /\ IF box.sub \notin {NoSub, e[2]}
       THEN /\ event' = [event EXCEPT ![e] = "handled"]
            /\ UNCHANGED <<box, held>>
       ELSE /\ box' = [box EXCEPT !.sub = NoSub, !.left = 0]
            /\ held' = Ensuring([box EXCEPT !.sub = NoSub], e)
            /\ UNCHANGED event
    /\ UNCHANGED <<secret, remote, cooling>>

\* reauthorizeGraphSubscriptionIfCurrent, up to the call.
Reauthorize(e) ==
    /\ Allowed
    /\ e[1] = "reauthorize" /\ event[e] = "pending"
    /\ IF box.sub = e[2]
       THEN /\ held' = [op |-> "reauthorize", step |-> "patch", sub |-> e[2],
                        changed |-> FALSE, for |-> e]
            /\ UNCHANGED event
       ELSE /\ event' = [event EXCEPT ![e] = IF box.sub = NoSub THEN "missing" ELSE "handled"]
            /\ UNCHANGED held
    /\ UNCHANGED <<secret, box, remote, cooling>>

\* renewDueGraphSubscriptions, up to the call.
RenewBegins ==
    /\ Allowed
    /\ box.sub # NoSub /\ box.left <= 1
    /\ held' = [Free EXCEPT !.op = "renew", !.step = "patch", !.sub = box.sub]
    /\ UNCHANGED <<secret, box, remote, cooling, event>>

\* The subscription lives on, and the row knows.
Prolonged ==
    /\ held.step = "patch" /\ Live(held.sub)
    /\ remote' = [remote EXCEPT ![held.sub].left = Life]
    /\ box' = IF Owner THEN [box EXCEPT !.left = Life] ELSE box
    /\ event' = IF held.op = "reauthorize" THEN [event EXCEPT ![held.for] = "handled"] ELSE event
    /\ held' = Free
    /\ UNCHANGED <<secret, cooling>>

\* Microsoft does not know it any more: it is taken off the row, and a removal
\* is recorded if nobody else will go on.
Absent ==
    /\ held.step = "patch" /\ ~Live(held.sub)
    /\ LET cleared == IF held.op = "renew" THEN Owner ELSE box.sub = held.sub
       IN /\ box' = IF cleared THEN [box EXCEPT !.sub = NoSub, !.left = 0] ELSE box
          /\ event' = CASE held.op = "reauthorize" ->
                             [event EXCEPT ![held.for] = IF cleared THEN "missing" ELSE "handled"]
                        [] held.op = "renew" /\ cleared ->
                             [event EXCEPT ![<<"removed", held.sub>>] = "pending"]
                        [] OTHER -> event
    /\ held' = Free
    /\ UNCHANGED <<secret, remote, cooling>>

\* After the subscription a delta round is walked; the event is done, or taken up
\* again from the start, also when its claim has grown old.
EventEnds(e) ==
    /\ held.for # e
    /\ \/ event[e] = "handled" /\ event' = [event EXCEPT ![e] = "none"]
       \/ event[e] \in {"handled", "missing"} /\ event' = [event EXCEPT ![e] = "pending"]
    /\ UNCHANGED <<secret, box, remote, held, cooling>>

-----------------------------------------------------------------------------
(* disconnectMicrosoftMailbox *)

DisconnectBegins ==
    /\ held = Free
    /\ held' = [Free EXCEPT !.op = "disconnect", !.step = "delete", !.sub = box.sub]
    /\ UNCHANGED <<secret, box, remote, cooling, event>>

\* The remote subscription is removed, if the caller gave the means and the call
\* arrives; the row forgets everything about it.
DisconnectEnds ==
    /\ held.op = "disconnect"
    /\ remote' \in {remote} \cup {[remote EXCEPT ![s].left = 0] : s \in {held.sub} \ {NoSub}}
    /\ box' = [status |-> "disconnected", sub |-> NoSub, left |-> 0, state |-> "none"]
    /\ held' = Free
    /\ UNCHANGED <<secret, cooling, event>>

Working ==
    \/ EnsureBegins \/ DeleteOld \/ List \/ Purge \/ Create
    \/ RenewBegins \/ Prolonged \/ Absent
    \/ \E e \in Kinds \X Subs : Recover(e) \/ Reauthorize(e) \/ EventEnds(e)
    \/ DisconnectEnds

SubscriptionNext ==
    \/ Connect \/ Revoked \/ Redeploy \/ Crash \/ CoolsDown \/ DayPasses
    \/ \E s \in Subs : Dropped(s) \/ \E k \in Kinds : Stage(k, s)
    \/ Working \/ CallFails
    \/ DisconnectBegins

SubscriptionSpec == SubscriptionInit /\ [][SubscriptionNext]_subscriptionVars

-----------------------------------------------------------------------------

\* Lost answers, crashes and new secrets never leave two subscriptions behind,
\* each of which would deliver every message.
OneSubscription == \A s, t \in Subs : Live(s) /\ Live(t) => s = t

\* A late event about a subscription that was replaced takes nothing away: a
\* subscription that is registered, alive and speaks the configured secret is
\* given up only for an event that names it, or with the mailbox.
WorkingOneIsKept ==
    [][(Intact(box) /\ Live(box.sub) /\ box'.sub # box.sub) =>
            (held.op = "disconnect" \/ (held'.op = "ensure" /\ held'.for[2] = box.sub))
      ]_subscriptionVars

\* What is registered with the configured secret speaks it: its notifications
\* pass the check of the webhook.  The code fails it (README): a subscription whose
\* creation was never registered is taken over under the next secret.
RegisteredIsHeard ==
    box.sub # NoSub /\ Live(box.sub) /\ box.state = secret => remote[box.sub].state = secret

=============================================================================
