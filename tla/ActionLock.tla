------------------------------ MODULE ActionLock ------------------------------
(***************************************************************************)
(* withActionLocks (lib/db/action-lock.ts): a call reserves a session of   *)
(* the pool, takes PostgreSQL advisory locks on it in the order of their   *)
(* keys, runs its action and gives everything back.  The settings key is   *)
(* only tried, the others are waited for 100 ms; who waits in vain gives   *)
(* up session and locks and starts again.  An action may open a scope of   *)
(* its own on the same session: PostgreSQL counts what is taken twice, and *)
(* a scope that waits in vain keeps what the outer one holds.  An unlock   *)
(* may fail on a session that lives: what an inner scope could not give    *)
(* back stays counted until the outermost one unlocks all, and a session   *)
(* whose last clean-up is not confirmed never goes back to the pool.  An   *)
(* action may also need a second session: a provider that was built on the *)
(* pool reads its journal or its token there (send-service.ts).            *)
(***************************************************************************)
EXTENDS Naturals

CONSTANTS Holders, Sessions,  \* the calls, each made once, and the pool
          Outer, Inner,       \* the keys of a call, and of the scope its action opens
          Outside,            \* the calls whose action needs another session
          LastKey,            \* keys 1..LastKey, in their order
          MaxLosses           \* bound: sessions that break and clean-ups that fail

SettingsKey == 0
Keys == SettingsKey..LastKey
NoSession == "none"

ASSUME LockAssumption ==
    /\ LastKey \in Nat
    /\ Outer \in [Holders -> SUBSET Keys]
    /\ Inner \in [Holders -> SUBSET (Keys \ {SettingsKey})]
    /\ Outside \subseteq Holders
    /\ MaxLosses \in Nat
    /\ Sessions # {} /\ NoSession \notin Sessions

\* The one call with scopes of its own is an inbound round; it holds the key of its
\* round, which no scope inside another takes.
ASSUME NestingAssumption ==
    \A c, d \in Holders : c # d /\ Inner[c] # {} /\ Inner[d] # {} => Inner[c] \cap Outer[d] = {}

VARIABLES lock,     \* how often a session holds a key
          scope,    \* where a call is
          unclean,  \* sessions that may hold what a failed clean-up left
          losses

lockVars == <<lock, scope, unclean, losses>>

NoLocks == [k \in Keys |-> 0]

\* got: the keys the outer and the inner scope took; due: what the action has
\* to do yet.
Uncalled == [at |-> "idle", on |-> NoSession, depth |-> 1,
             got |-> [d \in 1..2 |-> {}], due |-> {"inner", "outside"}]

ActionLockTypeOK ==
    /\ lock \in [Sessions -> [Keys -> Nat]]
    /\ scope \in [Holders -> [at: {"idle", "queueing", "running", "ended"},
                            on: Sessions \cup {NoSession}, depth: 1..2,
                            got: [1..2 -> SUBSET Keys], due: SUBSET {"inner", "outside"}]]
    /\ unclean \subseteq Sessions
    /\ losses \in 0..MaxLosses

ActionLockInit ==
    /\ lock = [s \in Sessions |-> NoLocks]
    /\ scope = [c \in Holders |-> Uncalled]
    /\ unclean = {}
    /\ losses = 0

Reserved(c) == scope[c].on # NoSession
Pool == Sessions \ (unclean \cup {scope[c].on : c \in Holders})

\* What the innermost scope of a call has still to take, the settings key first.
Wanted(c) == IF scope[c].depth = 1 THEN Outer[c] ELSE Inner[c]
Missing(c) == Wanted(c) \ scope[c].got[scope[c].depth]
IsNext(c, k) == k \in Missing(c) /\ \A j \in Missing(c) : k <= j
Available(c, k) == \A s \in Sessions \ {scope[c].on} : lock[s][k] = 0

Locking(c) == scope[c].at = "running" /\ Reserved(c) /\ Missing(c) # {}
Acting(c) == scope[c].at = "running" /\ Missing(c) = {}

\* What the action of a call has to do before it returns.
Has(c, n) == /\ Acting(c) /\ scope[c].depth = 1
             /\ n \in scope[c].due
             /\ IF n = "inner" THEN Inner[c] # {} /\ Reserved(c) ELSE c \in Outside

-----------------------------------------------------------------------------

Call(c) ==
    /\ scope[c].at = "idle"
    /\ scope' = [scope EXCEPT ![c].at = "queueing"]
    /\ UNCHANGED <<lock, unclean, losses>>

Reserve(c) ==
    /\ scope[c].at = "queueing"
    /\ \E s \in Pool : scope' = [scope EXCEPT ![c].at = "running", ![c].on = s]
    /\ UNCHANGED <<lock, unclean, losses>>

Take(c) ==
    /\ Locking(c)
    /\ \E k \in Missing(c) :
        /\ IsNext(c, k) /\ Available(c, k)
        /\ lock' = [lock EXCEPT ![scope[c].on][k] = @ + 1]
        /\ scope' = [scope EXCEPT ![c].got[scope[c].depth] = @ \cup {k}]
    /\ UNCHANGED <<unclean, losses>>

\* Of each lock of the innermost scope of c one count is given back, but of the
\* failed ones.
Unlocked(c, failed) ==
    IF ~Reserved(c) THEN lock
    ELSE [lock EXCEPT ![scope[c].on] =
             [k \in Keys |-> @[k] - (IF k \in scope[c].got[scope[c].depth] \ failed THEN 1 ELSE 0)]]

Cleaned(c) == IF Reserved(c) THEN [lock EXCEPT ![scope[c].on] = NoLocks] ELSE lock

\* An unlock of the innermost scope of c is answered by an error, on a session that lives.
UnlockFails(c, failed) ==
    /\ Reserved(c) /\ losses < MaxLosses
    /\ lock' = Unlocked(c, failed)
    /\ unclean' = unclean \cup {scope[c].on}
    /\ losses' = losses + 1

\* An inner scope gives back its own counts and must not unlock all: that would
\* free what the outer one holds.
UnlockInner(c) ==
    \/ lock' = Unlocked(c, {}) /\ UNCHANGED <<unclean, losses>>
    \/ \E failed \in SUBSET scope[c].got[2] : failed # {} /\ UnlockFails(c, failed)

\* The session is cleaned before the pool gets it back, of what an inner scope left
\* on it too.  When pg_advisory_unlock_all is not confirmed the pool does not get it
\* back; a cancelled one is asked again and no step.
GiveBack(c) ==
    \/ /\ lock' = Cleaned(c)
       /\ unclean' = unclean \ {scope[c].on}
       /\ UNCHANGED losses
    \/ \E failed \in SUBSET scope[c].got[1] : UnlockFails(c, failed)

\* pg_try_advisory_lock says no at once, lock_timeout after 100 ms.  Settings that
\* are busy end the call; who waited for another key starts again, an inner
\* scope with what the outer one holds.
Denied(c) ==
    /\ Locking(c)
    /\ \E k \in Missing(c) :
        /\ IsNext(c, k) /\ ~Available(c, k)
        /\ \/ /\ scope[c].depth = 1
              /\ GiveBack(c)
              /\ scope' = [scope EXCEPT ![c] =
                     [Uncalled EXCEPT !.at = IF k = SettingsKey THEN "ended" ELSE "queueing"]]
           \/ /\ scope[c].depth = 2
              /\ UnlockInner(c)
              /\ scope' = [scope EXCEPT ![c].got[2] = {}]

OpenInner(c) ==
    /\ Has(c, "inner")
    /\ scope' = [scope EXCEPT ![c].depth = 2]
    /\ UNCHANGED <<lock, unclean, losses>>

\* The provider's own query: it needs a session for a moment.
AskOutside(c) ==
    /\ Has(c, "outside") /\ Pool # {}
    /\ scope' = [scope EXCEPT ![c].due = @ \ {"outside"}]
    /\ UNCHANGED <<lock, unclean, losses>>

\* Mutant: the operation waits for its session as long as it takes.
Waits(c) == Has(c, "outside") /\ Pool # {}

\* The provider operation is bounded: it fails, and the action goes on.
Expires(c) == Has(c, "outside")

OutsideTimesOut(c) ==
    /\ Expires(c)
    /\ scope' = [scope EXCEPT ![c].due = @ \ {"outside"}]
    /\ UNCHANGED <<lock, unclean, losses>>

InnerIsDone(c) == scope[c].depth = 2 /\ (Acting(c) \/ ~Reserved(c))

\* Mutant: an inner scope ends with pg_advisory_unlock_all as well.
LeaveInnerClean(c) ==
    /\ InnerIsDone(c)
    /\ lock' = Cleaned(c)
    /\ scope' = [scope EXCEPT ![c].depth = 1, ![c].got[2] = {}, ![c].due = @ \ {"inner"}]
    /\ UNCHANGED <<unclean, losses>>

LeaveInner(c) ==
    /\ InnerIsDone(c)
    /\ UnlockInner(c)
    /\ scope' = [scope EXCEPT ![c].depth = 1, ![c].got[2] = {}, ![c].due = @ \ {"inner"}]

Outermost(c) == scope[c].at = "running" /\ scope[c].depth = 1

IsOver(c) ==
    /\ Outermost(c)
    /\ GiveBack(c)
    /\ scope' = [scope EXCEPT ![c] = [Uncalled EXCEPT !.at = "ended"]]

\* The action returns when it has done what it has to; a query on a session that
\* is gone throws.
IsDone(c) ==
    /\ Reserved(c) => Acting(c)
    /\ \A n \in {"inner", "outside"} : ~Has(c, n)

Leave(c) == IsDone(c) /\ IsOver(c)

Throw(c) == Acting(c) /\ IsOver(c)

\* The connection breaks: the server frees its locks, the pool opens another one
\* in its place, and the action goes on without either.
LoseSession(c) ==
    /\ Reserved(c) /\ losses < MaxLosses
    /\ losses' = losses + 1
    /\ lock' = [lock EXCEPT ![scope[c].on] = NoLocks]
    /\ unclean' = unclean \ {scope[c].on}
    /\ scope' = [scope EXCEPT ![c].on = NoSession]

\* So does the connection of a session the pool did not get back.
LoseWithheld(s) ==
    /\ s \in unclean /\ losses < MaxLosses
    /\ \A c \in Holders : scope[c].on # s
    /\ losses' = losses + 1
    /\ lock' = [lock EXCEPT ![s] = NoLocks]
    /\ unclean' = unclean \ {s}
    /\ UNCHANGED scope

-----------------------------------------------------------------------------

Advance(c) ==
    \/ Denied(c) \/ OpenInner(c) \/ AskOutside(c) \/ OutsideTimesOut(c)
    \/ LeaveInner(c) \/ Leave(c)

ActionLockNext ==
    \/ \E c \in Holders :
          Call(c) \/ Reserve(c) \/ Take(c) \/ Advance(c) \/ Throw(c) \/ LoseSession(c)
    \/ \E s \in Sessions : LoseWithheld(s)

ActionLockSpec == ActionLockInit /\ [][ActionLockNext]_lockVars

-----------------------------------------------------------------------------

\* The keys under whose protection the action of a call runs.
Protected(c) ==
    IF ~Reserved(c) THEN {}
    ELSE (IF scope[c].depth = 2 \/ Acting(c) THEN Outer[c] ELSE {})
         \cup (IF scope[c].depth = 2 /\ Acting(c) THEN Inner[c] ELSE {})

\* Two actions under one key never run at once, whichever scope took it and
\* however inner scopes end, wait or fail to unlock, as long as the sessions are
\* alive.
SectionsExclude ==
    \A c, d \in Holders : c # d => Protected(c) \cap Protected(d) = {}

\* Who gets on: a session is there to reserve; the next key is, or something to
\* give back while waiting for it; or the action is at a point of its own.  Who
\* only asks again for a key with nothing to give back does not.
GetsOn(c) ==
    \/ scope[c].at = "queueing" /\ Pool # {}
    \/ /\ Locking(c)
       /\ \E k \in Missing(c) :
             IsNext(c, k) /\ (Available(c, k) \/ scope[c].depth = 1 \/ scope[c].got[2] # {})
    \/ Has(c, "inner") \/ Expires(c) \/ InnerIsDone(c)
    \/ Outermost(c) /\ IsDone(c)

\* With every session reserved by calls that wait for each other's locks, or for
\* a session, somebody can still move on: nobody waits without a bound for what
\* only a waiting call can give back.  This is not said of a pool with a session on
\* which a clean-up failed: who needs a key that is left on it asks until it breaks
\* or the program restarts.
UnderWay(c) == scope[c].at \notin {"idle", "ended"}
NobodyIsStuck ==
    (unclean = {} /\ \E c \in Holders : UnderWay(c)) => \E c \in Holders : GetsOn(c)

=============================================================================
