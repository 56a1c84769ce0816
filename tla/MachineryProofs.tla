--------------------------- MODULE MachineryProofs ----------------------------
(* The machinery that runs the work, part by part: the dispatcher of the     *)
(* requests, the locks of the actions, the two processes of the local stack, *)
(* the runner of the command line and the chat window, each under its own    *)
(* specification and for every value of its constants.                       *)
EXTENDS WorkflowDispatch, ActionLock, LocalStack, CodexRunner, DesktopWindow,
        FiniteSetTheorems, SequenceTheorems, TLAPS

-----------------------------------------------------------------------------
(* The dispatcher (WorkflowDispatch): work runs once at a time while renewals *)
(* are on time, and a success on record is that of the run the row names.     *)

\* A live run that the row names has it started; on time, the row names every
\* live run.  A task that is about to be recorded as done has returned.
HeldInv ==
    /\ \A r \in Requests : Alive(r) /\ event.run = r => event.status = "started"
    /\ onTime => \A r \in Requests :
          Alive(r) => event.run = r /\ event.status = "started" /\ event.recent
ReturnedInv ==
    /\ \A r \in Requests : request[r] = "succeed" => r \in returned
    /\ SuccessIsTheRuns

\* The bound on takeovers: a row that is not there has seen no attempt, and who
\* is about to take it over read one below the bound.
AttemptInv ==
    /\ event.status = "absent" => event.attempt = 0
    /\ \A r \in Requests : request[r] = "retake" => prior[r] < LastAttempt

DispatchInv == DispatchTypeOK /\ HeldInv /\ ReturnedInv /\ AttemptInv

LEMMA DispatchInvInit == DispatchInit => DispatchInv
BY DispatchAssumption DEF DispatchInit, DispatchInv, DispatchTypeOK, HeldInv, ReturnedInv, AttemptInv, SuccessIsTheRuns, Alive

\* The row a request takes, by insertion or by takeover: nobody is alive on
\* time, and the row is the request's own from then on.
LEMMA TakingStep ==
    ASSUME DispatchInv, NEW r \in Requests, request[r] \in {"idle", "retake"},
           event.status # "succeeded", Abandoned \/ event.status = "absent",
           event.attempt < LastAttempt,
           event' = Taken(r), returned' = returned \ {r}, Proceed(r, "execute"),
           UNCHANGED <<prior, onTime>>
    PROVE  DispatchInv'
<1>1. onTime => \A q \in Requests : ~Alive(q)
  BY DEF DispatchInv, HeldInv, Abandoned
<1>2. /\ event' \in [status: {"absent", "started", "failed", "succeeded"},
                     run: Requests \cup {"nobody", "gone"},
                     attempt: 0..LastAttempt, recent: BOOLEAN]
      /\ event'.run = r /\ event'.status = "started" /\ event'.recent
  BY DispatchAssumption DEF Taken, DispatchInv, DispatchTypeOK
<1>3. /\ request' \in [Requests -> {"idle", "retake", "execute", "succeed", "fail"}]
      /\ request'[r] = "execute"
      /\ \A q \in Requests \ {r} : request'[q] = request[q]
  BY DEF Proceed, DispatchInv, DispatchTypeOK
<1>4. DispatchTypeOK'
  BY <1>2, <1>3 DEF DispatchInv, DispatchTypeOK
<1>5. HeldInv'
  BY <1>1, <1>2, <1>3 DEF HeldInv, Alive
<1>6. ReturnedInv'
  BY <1>2, <1>3 DEF DispatchInv, ReturnedInv, SuccessIsTheRuns
<1>7. AttemptInv'
  BY <1>2, <1>3 DEF DispatchInv, DispatchTypeOK, AttemptInv
<1> QED BY <1>4, <1>5, <1>6, <1>7 DEF DispatchInv

LEMMA InsertStep == ASSUME DispatchInv, NEW r \in Requests, Insert(r) PROVE DispatchInv'
<1>1. event.attempt < LastAttempt
  BY DispatchAssumption DEF Insert, DispatchInv, AttemptInv
<1> QED BY <1>1, TakingStep DEF Insert

LEMMA ReadStep == ASSUME DispatchInv, NEW r \in Requests, Read(r) PROVE DispatchInv'
BY DEF Read, Proceed, DispatchInv, DispatchTypeOK, HeldInv, ReturnedInv, AttemptInv, SuccessIsTheRuns, Alive

LEMMA RetakeStep == ASSUME DispatchInv, NEW r \in Requests, Retake(r) PROVE DispatchInv'
<1>1. CASE Abandoned /\ event.attempt = prior[r]
  <2>1. event.attempt < LastAttempt /\ event.status # "succeeded"
    BY <1>1 DEF Retake, DispatchInv, AttemptInv, Abandoned
  <2> QED BY <1>1, <2>1, TakingStep DEF Retake
<1>2. CASE ~(Abandoned /\ event.attempt = prior[r])
  BY <1>2 DEF Retake, Proceed, DispatchInv, DispatchTypeOK, HeldInv, ReturnedInv, AttemptInv,
     SuccessIsTheRuns, Alive
<1> QED BY <1>1, <1>2

\* The task of a live run moves on without touching the row.
LEMMA TaskStep ==
    ASSUME DispatchInv, NEW r \in Requests,
           TaskReturns(r) \/ TaskThrows(r) \/ SuccessNotRecorded(r)
    PROVE  DispatchInv'
BY DEF TaskReturns, TaskThrows, SuccessNotRecorded, Executing, Proceed, DispatchInv,
   DispatchTypeOK, HeldInv, ReturnedInv, AttemptInv, SuccessIsTheRuns, Alive

LEMMA RenewStep == ASSUME DispatchInv, NEW r \in Requests, Renew(r) PROVE DispatchInv'
BY DEF Renew, DispatchInv, DispatchTypeOK, HeldInv, ReturnedInv, AttemptInv, SuccessIsTheRuns, Alive

LEMMA FinishStep ==
    ASSUME DispatchInv, NEW r \in Requests, NEW status \in {"succeeded", "failed"}, Alive(r),
           status = "succeeded" => r \in returned, Finish(r, status)
    PROVE  DispatchInv'
<1>1. /\ event' \in [status: {"absent", "started", "failed", "succeeded"},
                     run: Requests \cup {"nobody", "gone"},
                     attempt: 0..LastAttempt, recent: BOOLEAN]
      /\ event'.run = event.run /\ event'.attempt = event.attempt /\ event'.recent = event.recent
      /\ event.run # r => event'.status = event.status
      /\ event'.status \in {event.status, status}
      /\ event'.status = "succeeded" => event.run \in returned
  BY DEF Finish, DispatchInv, DispatchTypeOK, ReturnedInv, SuccessIsTheRuns
<1>2. /\ request' \in [Requests -> {"idle", "retake", "execute", "succeed", "fail"}]
      /\ request'[r] = "idle"
      /\ \A q \in Requests \ {r} : request'[q] = request[q]
  BY DEF Finish, Proceed, DispatchInv, DispatchTypeOK
<1>3. DispatchTypeOK'
  BY <1>1, <1>2 DEF Finish, DispatchInv, DispatchTypeOK
<1>4. HeldInv'
  BY <1>1, <1>2 DEF Finish, DispatchInv, HeldInv, Alive
<1>5. ReturnedInv'
  BY <1>1, <1>2 DEF Finish, DispatchInv, ReturnedInv, SuccessIsTheRuns
<1>6. AttemptInv'
  BY <1>1, <1>2 DEF Finish, DispatchInv, DispatchTypeOK, AttemptInv
<1> QED BY <1>3, <1>4, <1>5, <1>6 DEF DispatchInv

LEMMA RecordKeeps ==
    ASSUME DispatchInv, NEW r \in Requests, RecordSuccess(r) \/ RecordFailure(r)
    PROVE  DispatchInv'
<1>1. CASE RecordSuccess(r)
  <2>1. Alive(r) /\ r \in returned /\ Finish(r, "succeeded")
    BY <1>1 DEF RecordSuccess, Alive, DispatchInv, ReturnedInv
  <2> QED BY <2>1, FinishStep
<1>2. CASE RecordFailure(r)
  <2>1. Alive(r) /\ Finish(r, "failed")
    BY <1>2 DEF RecordFailure, Alive
  <2> QED BY <2>1, FinishStep
<1> QED BY <1>1, <1>2

LEMMA VanishStep == ASSUME DispatchInv, NEW r \in Requests, Vanish(r) PROVE DispatchInv'
<1>1. event.run = r => event.status = "started"
  BY DEF Vanish, DispatchInv, HeldInv
<1> QED
  BY <1>1, DispatchAssumption DEF Vanish, Proceed, DispatchInv, DispatchTypeOK, HeldInv,
     ReturnedInv, AttemptInv, SuccessIsTheRuns, Alive

LEMMA LeaseStep == ASSUME DispatchInv, LeaseRunsOut PROVE DispatchInv'
BY DispatchAssumption DEF LeaseRunsOut, DispatchInv, DispatchTypeOK, HeldInv, ReturnedInv, AttemptInv,
   SuccessIsTheRuns, Alive

LEMMA DispatchInvStep == DispatchInv /\ [DispatchNext]_dispatchVars => DispatchInv'
<1> SUFFICES ASSUME DispatchInv, [DispatchNext]_dispatchVars PROVE DispatchInv'
  OBVIOUS
<1>1. CASE UNCHANGED dispatchVars
  BY <1>1 DEF dispatchVars, DispatchInv, DispatchTypeOK, HeldInv, ReturnedInv, AttemptInv, SuccessIsTheRuns, Alive
<1>2. ASSUME NEW r \in Requests, RequestStep(r) PROVE DispatchInv'
  BY <1>2, InsertStep, ReadStep, RetakeStep, TaskStep, RenewStep, RecordKeeps, VanishStep
     DEF RequestStep
<1> QED BY <1>1, <1>2, LeaseStep DEF DispatchNext

\* The inductive invariant of the dispatch row (dispatcher.ts).
THEOREM DispatchInvariance == DispatchSpec => []DispatchInv
BY DispatchInvInit, DispatchInvStep, PTL DEF DispatchSpec

\* As long as a live run's heartbeats are within the lease, requests for the
\* same work never run its task twice at once.
THEOREM RunsAreSingle == DispatchSpec => []OneRunAtATime
<1>1. DispatchInv => OneRunAtATime
  BY DEF DispatchInv, HeldInv, OneRunAtATime, Executing, Alive
<1> QED BY <1>1, DispatchInvariance, PTL

\* Even when they are not, a run that was taken over never has the row say
\* succeeded in its successor's name.
THEOREM SuccessesAreTheRuns == DispatchSpec => []SuccessIsTheRuns
<1>1. DispatchInv => SuccessIsTheRuns
  BY DEF DispatchInv, ReturnedInv
<1> QED BY <1>1, DispatchInvariance, PTL

-----------------------------------------------------------------------------
(* The action locks (ActionLock): no two actions run at once under one key    *)
(* while their sessions live, whatever scopes they open inside each other,    *)
(* whatever sessions are lost and whatever clean-ups fail.                    *)

ScopeRows == [at: {"idle", "queueing", "running", "ended"},
              on: Sessions \cup {NoSession}, depth: 1..2,
              got: [1..2 -> SUBSET Keys], due: SUBSET {"inner", "outside"}]

\* How often the scopes of a call hold a key.
One(k, S) == IF k \in S THEN 1 ELSE 0
Count(row, k) == One(k, row.got[1]) + One(k, row.got[2])

\* A row as a call leaves it behind: a call without a session that is not in
\* its action holds nothing, and inner scopes open under all of the outer locks.
RowOK(c, row) ==
    /\ row \in ScopeRows
    /\ row.at # "running" => row.on = NoSession /\ row.depth = 1 /\ row.got[1] = {}
    /\ row.got[1] \subseteq Outer[c]
    /\ row.depth = 1 => row.got[2] = {}
    /\ row.depth = 2 => Outer[c] \subseteq row.got[1]

\* PostgreSQL holds on each session what its call took, with more of it only where a
\* clean-up failed, and nothing on the sessions of the pool.
LocksOK ==
    /\ lock \in [Sessions -> [Keys -> Nat]]
    /\ unclean \subseteq Sessions
    /\ \A c \in Holders, k \in Keys : Reserved(c) =>
           /\ Count(scope[c], k) <= lock[scope[c].on][k]
           /\ scope[c].on \notin unclean => lock[scope[c].on][k] = Count(scope[c], k)
    /\ \A s \in Pool, k \in Keys : lock[s][k] = 0

Apart(r, q) ==
    r.on # NoSession /\ q.on # NoSession =>
        /\ r.on # q.on
        /\ \A k \in Keys : Count(r, k) = 0 \/ Count(q, k) = 0

LockInv ==
    /\ scope \in [Holders -> ScopeRows]
    /\ \A c \in Holders : RowOK(c, scope[c])
    /\ LocksOK
    /\ \A c, d \in Holders : c # d => Apart(scope[c], scope[d])

-----------------------------------------------------------------------------

LEMMA LockInvInit == ActionLockInit => LockInv
BY LockAssumption DEF ActionLockInit, LockInv, LocksOK, RowOK, Apart, ScopeRows, Uncalled, NoLocks,
   Reserved, Pool, Keys

LEMMA Counting ==
    ASSUME NEW row \in ScopeRows, NEW k \in Keys
    PROVE  /\ Count(row, k) \in 0..2
           /\ Count(row, k) = 0 <=> (k \notin row.got[1] /\ k \notin row.got[2])
<1>1. row.got \in [1..2 -> SUBSET Keys]
  BY DEF ScopeRows
<1> QED BY <1>1 DEF Count, One

\* What PostgreSQL counts on the session of c suits a row that c could have.
Suits(c, row) ==
    Reserved(c) => \A k \in Keys :
        /\ Count(row, k) <= lock'[scope[c].on][k]
        /\ scope[c].on \notin unclean' => lock'[scope[c].on][k] = Count(row, k)

\* A call that keeps its session, and on it takes no key that another one
\* holds, keeps the invariant when PostgreSQL counts what it took.
LEMMA SameSession ==
    ASSUME LockInv, NEW c \in Holders, NEW row, RowOK(c, row), row.on = scope[c].on,
           scope' = [scope EXCEPT ![c] = row],
           lock' \in [Sessions -> [Keys -> Nat]],
           unclean' \subseteq Sessions, unclean' = unclean \/ unclean' = unclean \cup {scope[c].on},
           \A s \in Sessions \ {scope[c].on} : lock'[s] = lock[s],
           Suits(c, row),
           \A k \in Keys : \/ Count(row, k) = 0
                           \/ Count(scope[c], k) # 0
                           \/ Reserved(c) /\ Available(c, k)
    PROVE  LockInv'
<1>1. row \in ScopeRows /\ scope \in [Holders -> ScopeRows]
  BY DEF RowOK, LockInv
<1>2. scope' \in [Holders -> ScopeRows] /\ scope'[c] = row
      /\ \A d \in Holders \ {c} : scope'[d] = scope[d]
  BY <1>1
<1>3. \A d \in Holders : scope'[d].on = scope[d].on
  BY <1>2
<1>4. \A d \in Holders : RowOK(d, scope'[d])
  BY <1>2 DEF LockInv
<1>5. \A d \in Holders \ {c} : Reserved(d) /\ Reserved(c) => scope[d].on # scope[c].on
  BY DEF LockInv, Apart, Reserved
<1>6. \A d \in Holders : scope[d].on \in Sessions \cup {NoSession}
  BY <1>1 DEF ScopeRows
<1>7. \A d \in Holders, k \in Keys : Reserved(d)' =>
        /\ Count(scope'[d], k) <= lock'[scope'[d].on][k]
        /\ scope'[d].on \notin unclean' => lock'[scope'[d].on][k] = Count(scope'[d], k)
  <2> SUFFICES ASSUME NEW d \in Holders, NEW k \in Keys, scope[d].on # NoSession
               PROVE  /\ Count(scope'[d], k) <= lock'[scope[d].on][k]
                      /\ scope[d].on \notin unclean' => lock'[scope[d].on][k] = Count(scope'[d], k)
    BY <1>3 DEF Reserved
  <2>1. scope[d].on \in Sessions
    BY <1>6
  <2>2. CASE d = c
    BY <1>2, <2>2 DEF Reserved, Suits
  <2>3. CASE d # c
    <3>1. lock'[scope[d].on] = lock[scope[d].on] /\ unclean \subseteq unclean'
      BY <1>5, <2>1, <2>3 DEF Reserved
    <3>2. /\ Count(scope[d], k) <= lock[scope[d].on][k]
          /\ scope[d].on \notin unclean => lock[scope[d].on][k] = Count(scope[d], k)
      BY DEF LockInv, LocksOK, Reserved
    <3>3. scope[d].on \notin unclean' => scope[d].on \notin unclean
      BY <3>1
    <3> QED BY <1>2, <2>3, <3>1, <3>2, <3>3
  <2> QED BY <2>2, <2>3
<1>8. \A s \in Pool', k \in Keys : lock'[s][k] = 0
  <2>1. Pool' \subseteq Pool
    BY <1>3 DEF Pool
  <2>2. \A s \in Pool : lock'[s] = lock[s]
    BY DEF Pool
  <2> QED BY <2>1, <2>2 DEF LockInv, LocksOK
<1>9. ASSUME NEW d \in Holders \ {c} PROVE Apart(row, scope[d])
  <2> SUFFICES ASSUME row.on # NoSession, scope[d].on # NoSession, NEW k \in Keys,
                      Count(row, k) # 0
               PROVE  row.on # scope[d].on /\ Count(scope[d], k) = 0
    BY <1>5 DEF Apart, Reserved
  <2>1. row.on # scope[d].on
    BY <1>5 DEF Reserved
  <2>2. CASE Count(scope[c], k) # 0
    BY <2>1, <2>2 DEF LockInv, Apart
  <2>3. CASE Available(c, k)
    <3>1. lock[scope[d].on][k] = 0
      BY <1>6, <2>1, <2>3 DEF Available
    <3>2. Count(scope[d], k) <= 0
      BY <3>1 DEF LockInv, LocksOK, Reserved
    <3> QED BY <1>1, <2>1, <3>2, Counting
  <2> QED BY <2>2, <2>3
<1>10. \A a, b \in Holders : a # b => Apart(scope'[a], scope'[b])
  <2>1. \A r, q : Apart(r, q) => Apart(q, r)
    BY DEF Apart
  <2> QED BY <1>2, <1>9, <2>1 DEF LockInv
<1> QED BY <1>2, <1>4, <1>7, <1>8, <1>10 DEF LockInv, LocksOK

\* What a call does to the lock table when it gives its session up: the other
\* sessions stand, and on its own nothing is left, or the pool does not get it.
Parts(c) ==
    /\ lock' \in [Sessions -> [Keys -> Nat]]
    /\ unclean' \subseteq Sessions
    /\ \A s \in Sessions \ {scope[c].on} :
           lock'[s] = lock[s] /\ (s \in unclean' <=> s \in unclean)
    /\ scope[c].on \in Sessions =>
           scope[c].on \in unclean' \/ lock'[scope[c].on] = NoLocks

\* A call that has no session any more, and on what the pool got back left none of
\* its locks behind.
LEMMA GivesBack ==
    ASSUME LockInv, NEW c \in Holders, NEW row, RowOK(c, row), row.on = NoSession,
           scope' = [scope EXCEPT ![c] = row], Parts(c)
    PROVE  LockInv'
<1>1. row \in ScopeRows /\ scope \in [Holders -> ScopeRows]
  BY DEF RowOK, LockInv
<1>2. scope' \in [Holders -> ScopeRows] /\ scope'[c] = row
      /\ \A d \in Holders \ {c} : scope'[d] = scope[d]
  BY <1>1
<1>3. \A d \in Holders : RowOK(d, scope'[d])
  BY <1>2 DEF LockInv
<1>5. \A d \in Holders : scope[d].on \in Sessions \cup {NoSession}
  BY <1>1 DEF ScopeRows
<1>7. \A d \in Holders, k \in Keys : Reserved(d)' =>
        /\ Count(scope'[d], k) <= lock'[scope'[d].on][k]
        /\ scope'[d].on \notin unclean' => lock'[scope'[d].on][k] = Count(scope'[d], k)
  <2> SUFFICES ASSUME NEW d \in Holders, NEW k \in Keys, scope'[d].on # NoSession
               PROVE  /\ Count(scope'[d], k) <= lock'[scope'[d].on][k]
                      /\ scope'[d].on \notin unclean' =>
                             lock'[scope'[d].on][k] = Count(scope'[d], k)
    BY DEF Reserved
  <2>1. d # c /\ scope'[d] = scope[d] /\ scope[d].on \in Sessions
    BY <1>2, <1>5
  <2>2. scope[c].on # scope[d].on
    BY <2>1 DEF LockInv, Apart
  <2>3. lock'[scope[d].on] = lock[scope[d].on] /\ (scope[d].on \in unclean' <=> scope[d].on \in unclean)
    BY <2>1, <2>2 DEF Parts
  <2> QED BY <2>1, <2>3 DEF LockInv, LocksOK, Reserved
<1>8. \A s \in Pool', k \in Keys : lock'[s][k] = 0
  <2> SUFFICES ASSUME NEW s \in Pool', NEW k \in Keys PROVE lock'[s][k] = 0
    OBVIOUS
  <2>1. s \in Sessions /\ s \notin unclean'
    BY DEF Pool
  <2>2. CASE s = scope[c].on
    BY <2>1, <2>2 DEF Parts, NoLocks
  <2>3. CASE s # scope[c].on
    <3>1. lock'[s] = lock[s] /\ s \notin unclean
      BY <2>1, <2>3 DEF Parts
    <3>2. s \in Pool
      BY <1>2, <2>1, <2>3, <3>1 DEF Pool
    <3> QED BY <3>1, <3>2 DEF LockInv, LocksOK
  <2> QED BY <2>2, <2>3
<1>9. \A a, b \in Holders : a # b => Apart(scope'[a], scope'[b])
  BY <1>2 DEF LockInv, Apart
<1> QED BY <1>2, <1>3, <1>7, <1>8, <1>9 DEF LockInv, LocksOK, Parts

-----------------------------------------------------------------------------
(* The steps of a call. *)

\* What a call may assume of its own row.
LEMMA OwnRow ==
    ASSUME LockInv, NEW c \in Holders
    PROVE  /\ scope[c] \in ScopeRows /\ RowOK(c, scope[c])
           /\ scope[c].got \in [1..2 -> SUBSET Keys] /\ scope[c].depth \in 1..2
           /\ Wanted(c) \subseteq Keys
           /\ lock \in [Sessions -> [Keys -> Nat]] /\ unclean \subseteq Sessions
           /\ Reserved(c) => /\ scope[c].on \in Sessions /\ scope[c].at = "running"
                             /\ \A k \in Keys :
                                  /\ Count(scope[c], k) <= lock[scope[c].on][k]
                                  /\ scope[c].on \notin unclean =>
                                         lock[scope[c].on][k] = Count(scope[c], k)
BY LockAssumption DEF LockInv, LocksOK, RowOK, ScopeRows, Wanted, Reserved, Keys, SettingsKey

\* A step that takes and gives back no lock.
LEMMA LocksStay ==
    ASSUME LockInv, NEW c \in Holders, NEW row, RowOK(c, row), row.on = scope[c].on,
           row.got = scope[c].got, scope' = [scope EXCEPT ![c] = row],
           lock' = lock, unclean' = unclean
    PROVE  LockInv'
<1>1. \A k \in Keys : Count(row, k) = Count(scope[c], k)
  BY DEF Count
<1>2. /\ lock' \in [Sessions -> [Keys -> Nat]] /\ unclean' \subseteq Sessions
      /\ \A s \in Sessions \ {scope[c].on} : lock'[s] = lock[s]
      /\ Suits(c, row)
  BY <1>1, OwnRow DEF Suits
<1>3. \A k \in Keys : \/ Count(row, k) = 0
                      \/ Count(scope[c], k) # 0
                      \/ Reserved(c) /\ Available(c, k)
  BY <1>1
<1> QED BY <1>2, <1>3, SameSession

LEMMA CallsStep == ASSUME LockInv, NEW c \in Holders, Call(c) PROVE LockInv'
<1> DEFINE row == [scope[c] EXCEPT !.at = "queueing"]
<1>1. RowOK(c, row) /\ row.on = scope[c].on /\ row.got = scope[c].got
  BY OwnRow DEF Call, RowOK, ScopeRows
<1>2. scope' = [scope EXCEPT ![c] = row] /\ lock' = lock /\ unclean' = unclean
  BY DEF Call
<1> HIDE DEF row
<1> QED BY <1>1, <1>2, LocksStay

LEMMA ReserveStep == ASSUME LockInv, NEW c \in Holders, Reserve(c) PROVE LockInv'
<1>1. PICK s \in Pool : scope' = [scope EXCEPT ![c].at = "running", ![c].on = s]
  BY DEF Reserve
<1> DEFINE row == [scope[c] EXCEPT !.at = "running", !.on = s]
<1>2. /\ RowOK(c, row) /\ row.on = s /\ row.got = scope[c].got
      /\ scope[c].got[1] = {} /\ scope[c].got[2] = {} /\ scope[c].on = NoSession
  <2>1. /\ scope[c].got[1] = {} /\ scope[c].got[2] = {} /\ scope[c].on = NoSession
        /\ scope[c].depth = 1 /\ scope[c] \in ScopeRows /\ s \in Sessions
    BY OwnRow DEF Reserve, RowOK, Pool
  <2>2. row \in ScopeRows /\ row.on = s /\ row.got = scope[c].got /\ row.depth = 1
        /\ row.at = "running"
    BY <2>1 DEF ScopeRows
  <2> HIDE DEF row
  <2> QED BY <2>1, <2>2 DEF RowOK
<1>3. scope' = [scope EXCEPT ![c] = row] /\ lock' = lock /\ unclean' = unclean
  <2>1. scope \in [Holders -> ScopeRows]
    BY DEF LockInv
  <2> QED BY <1>1, <2>1 DEF Reserve
<1> HIDE DEF row
<1>4. \A k \in Keys : Count(row, k) = 0
  BY <1>2 DEF Count, One
<1>5. scope' \in [Holders -> ScopeRows] /\ scope'[c] = row
      /\ \A d \in Holders \ {c} : scope'[d] = scope[d]
  BY <1>2, <1>3 DEF LockInv, RowOK
<1>6. s \in Sessions /\ s # NoSession /\ s \notin unclean /\ \A d \in Holders : scope[d].on # s
  BY LockAssumption DEF Pool
<1>7. \A d \in Holders : RowOK(d, scope'[d])
  BY <1>2, <1>5 DEF LockInv
<1>8. \A d \in Holders, k \in Keys : Reserved(d)' =>
        /\ Count(scope'[d], k) <= lock'[scope'[d].on][k]
        /\ scope'[d].on \notin unclean' => lock'[scope'[d].on][k] = Count(scope'[d], k)
  <2> SUFFICES ASSUME NEW d \in Holders, NEW k \in Keys, scope'[d].on # NoSession
               PROVE  /\ Count(scope'[d], k) <= lock[scope'[d].on][k]
                      /\ scope'[d].on \notin unclean => lock[scope'[d].on][k] = Count(scope'[d], k)
    BY <1>3 DEF Reserved
  <2>1. CASE d = c
    <3>1. lock[s][k] = 0 /\ Count(scope'[d], k) = 0 /\ scope'[d].on = s
      BY <1>2, <1>4, <1>5, <2>1 DEF LockInv, LocksOK
    <3> QED BY <3>1
  <2>2. CASE d # c
    BY <1>3, <1>5, <2>2 DEF LockInv, LocksOK, Reserved
  <2> QED BY <2>1, <2>2
<1>9. \A t \in Pool', k \in Keys : lock'[t][k] = 0
  <2>1. Pool' \subseteq Pool
    <3> SUFFICES ASSUME NEW t \in Pool' PROVE t \in Pool
      OBVIOUS
    <3>1. t \in Sessions /\ t \notin unclean /\ \A d \in Holders : scope'[d].on # t
      BY <1>3 DEF Pool
    <3>2. \A d \in Holders : scope[d].on # t
      BY <1>2, <1>5, <3>1, LockAssumption
    <3> QED BY <3>1, <3>2 DEF Pool
  <2> QED BY <1>3, <2>1 DEF LockInv, LocksOK
<1>10. \A a, b \in Holders : a # b => Apart(scope'[a], scope'[b])
  BY <1>2, <1>4, <1>5, <1>6 DEF LockInv, Apart
<1>11. LocksOK'
  BY <1>3, <1>8, <1>9 DEF LockInv, LocksOK
<1> QED BY <1>5, <1>7, <1>10, <1>11 DEF LockInv

\* The next key is taken on top of what the scopes hold.
LEMMA TakeStep == ASSUME LockInv, NEW c \in Holders, Take(c) PROVE LockInv'
<1>1. PICK k \in Missing(c) :
        /\ Available(c, k) /\ unclean' = unclean
        /\ lock' = [lock EXCEPT ![scope[c].on][k] = @ + 1]
        /\ scope' = [scope EXCEPT ![c].got[scope[c].depth] = @ \cup {k}]
  BY DEF Take
<1> DEFINE n == scope[c].depth
           took == [scope[c].got EXCEPT ![n] = @ \cup {k}]
           row == [scope[c] EXCEPT !.got = took]
<1>2. /\ Reserved(c) /\ scope[c].on \in Sessions /\ k \in Keys /\ n \in 1..2
      /\ k \notin scope[c].got[n] /\ scope[c] \in ScopeRows /\ RowOK(c, scope[c])
      /\ scope[c].got \in [1..2 -> SUBSET Keys]
  BY OwnRow DEF Take, Locking, Missing
<1>3. took \in [1..2 -> SUBSET Keys]
      /\ \A d \in 1..2 : took[d] = IF d = n THEN scope[c].got[n] \cup {k} ELSE scope[c].got[d]
  BY <1>2
<1>4. /\ row \in ScopeRows /\ row.got = took /\ row.on = scope[c].on
      /\ row.at = scope[c].at /\ row.depth = n
  BY <1>2, <1>3 DEF ScopeRows
<1>5. scope' = [scope EXCEPT ![c] = row]
  <2>1. scope \in [Holders -> ScopeRows]
    BY DEF LockInv
  <2> QED BY <1>1, <2>1
<1> HIDE DEF took, row
<1>6. RowOK(c, row)
  <2>1. row.at = "running" /\ scope[c].at = "running"
    BY <1>4 DEF Take, Locking
  <2>2. n = 1 => k \in Outer[c]
    BY <1>1 DEF Missing, Wanted
  <2>3. row.got[1] \subseteq Outer[c]
    BY <1>2, <1>3, <1>4, <2>2 DEF RowOK
  <2> QED BY <1>2, <1>3, <1>4, <2>1, <2>3 DEF RowOK
<1>7. \A j \in Keys : Count(row, j) = IF j = k THEN Count(scope[c], k) + 1 ELSE Count(scope[c], j)
  <2> SUFFICES ASSUME NEW j \in Keys
               PROVE  Count(row, j) = IF j = k THEN Count(scope[c], k) + 1 ELSE Count(scope[c], j)
    OBVIOUS
  <2>1. CASE n = 1
    BY <1>2, <1>3, <1>4, <2>1 DEF Count, One
  <2>2. CASE n = 2
    BY <1>2, <1>3, <1>4, <2>2 DEF Count, One
  <2> QED BY <1>2, <2>1, <2>2
<1>8. \A j \in Keys : Count(scope[c], j) \in 0..2
  BY <1>2, Counting
<1>9. lock \in [Sessions -> [Keys -> Nat]] /\ unclean' \subseteq Sessions
  BY <1>1, OwnRow
<1> DEFINE mine == [lock[scope[c].on] EXCEPT ![k] = @ + 1]
<1>10. /\ lock' = [lock EXCEPT ![scope[c].on] = mine]
       /\ mine \in [Keys -> Nat]
       /\ \A j \in Keys : mine[j] = IF j = k THEN lock[scope[c].on][k] + 1 ELSE lock[scope[c].on][j]
  BY <1>1, <1>2, <1>9
<1> HIDE DEF mine
<1>11. /\ lock' \in [Sessions -> [Keys -> Nat]]
       /\ \A s \in Sessions \ {scope[c].on} : lock'[s] = lock[s]
       /\ Suits(c, row)
  <2>1. \A j \in Keys : /\ lock[scope[c].on][j] \in Nat
                        /\ Count(scope[c], j) <= lock[scope[c].on][j]
                        /\ scope[c].on \notin unclean => lock[scope[c].on][j] = Count(scope[c], j)
    BY <1>2, <1>9, OwnRow
  <2>2. lock' \in [Sessions -> [Keys -> Nat]] /\ lock'[scope[c].on] = mine
        /\ \A s \in Sessions \ {scope[c].on} : lock'[s] = lock[s]
    BY <1>2, <1>9, <1>10
  <2>3. \A j \in Keys : /\ Count(row, j) <= mine[j]
                        /\ scope[c].on \notin unclean => mine[j] = Count(row, j)
    <3> SUFFICES ASSUME NEW j \in Keys
                 PROVE  /\ Count(row, j) <= mine[j]
                        /\ scope[c].on \notin unclean => mine[j] = Count(row, j)
      OBVIOUS
    <3>1. CASE j = k
      <4>1. Count(row, j) = Count(scope[c], j) + 1 /\ mine[j] = lock[scope[c].on][j] + 1
        BY <1>7, <1>10, <3>1
      <4> QED BY <1>8, <2>1, <4>1
    <3>2. CASE j # k
      <4>1. Count(row, j) = Count(scope[c], j) /\ mine[j] = lock[scope[c].on][j]
        BY <1>7, <1>10, <3>2
      <4> QED BY <1>8, <2>1, <4>1
    <3> QED BY <3>1, <3>2
  <2>4. unclean' = unclean
    BY <1>1
  <2> QED BY <2>2, <2>3, <2>4 DEF Suits
<1>12. \A j \in Keys : \/ Count(row, j) = 0
                       \/ Count(scope[c], j) # 0
                       \/ Reserved(c) /\ Available(c, j)
  BY <1>1, <1>2, <1>7
<1>13. row.on = scope[c].on /\ scope' = [scope EXCEPT ![c] = row] /\ unclean' = unclean
  BY <1>1, <1>4, <1>5
<1> HIDE DEF n
<1> QED BY <1>6, <1>9, <1>11, <1>12, <1>13, SameSession

\* A row whose innermost scope lets go: PostgreSQL forgets that scope's count.
LEMMA LetsGo ==
    ASSUME LockInv, NEW c \in Holders, scope[c].depth = 2,
           NEW row \in ScopeRows, row.on = scope[c].on, row.at = scope[c].at,
           row.got = [scope[c].got EXCEPT ![2] = {}],
           row.depth = 1 \/ Outer[c] \subseteq scope[c].got[1],
           scope' = [scope EXCEPT ![c] = row], UnlockInner(c)
    PROVE  LockInv'
<1>1. /\ scope[c] \in ScopeRows /\ RowOK(c, scope[c])
      /\ scope[c].got \in [1..2 -> SUBSET Keys] /\ lock \in [Sessions -> [Keys -> Nat]]
      /\ unclean \subseteq Sessions
      /\ Reserved(c) => /\ scope[c].on \in Sessions
                        /\ \A k \in Keys :
                             /\ Count(scope[c], k) <= lock[scope[c].on][k]
                             /\ scope[c].on \notin unclean =>
                                    lock[scope[c].on][k] = Count(scope[c], k)
  BY OwnRow
<1>2. row.got[1] = scope[c].got[1] /\ row.got[2] = {} /\ row.depth \in 1..2
  BY <1>1 DEF ScopeRows
<1>3. \A k \in Keys : /\ Count(row, k) \in 0..2 /\ Count(scope[c], k) \in 0..2
                      /\ Count(row, k) = Count(scope[c], k) - One(k, scope[c].got[2])
                      /\ Count(row, k) = 0 \/ Count(scope[c], k) # 0
  BY <1>2 DEF Count, One
<1>4. scope[c].at = "running"
  BY <1>1 DEF RowOK
<1>5. RowOK(c, row)
  BY <1>1, <1>2, <1>4 DEF RowOK
<1>6. /\ lock' \in [Sessions -> [Keys -> Nat]]
      /\ unclean' \subseteq Sessions /\ (unclean' = unclean \/ unclean' = unclean \cup {scope[c].on})
      /\ \A s \in Sessions \ {scope[c].on} : lock'[s] = lock[s]
      /\ Suits(c, row)
  <2>1. CASE ~Reserved(c)
    BY <1>1, <2>1 DEF UnlockInner, UnlockFails, Unlocked, Suits
  <2>2. CASE Reserved(c)
    <3>1. PICK failed :
            /\ lock' = Unlocked(c, failed)
            /\ \/ failed = {} /\ unclean' = unclean
               \/ unclean' = unclean \cup {scope[c].on}
      BY DEF UnlockInner, UnlockFails
    <3> DEFINE mine == [k \in Keys |-> lock[scope[c].on][k]
                          - (IF k \in scope[c].got[scope[c].depth] \ failed THEN 1 ELSE 0)]
    <3>2. lock' = [lock EXCEPT ![scope[c].on] = mine]
      BY <2>2, <3>1 DEF Unlocked
    <3>3. \A k \in Keys : lock[scope[c].on][k] \in Nat
      BY <1>1, <2>2
    <3>4. \A k \in Keys : /\ mine[k] \in Nat /\ Count(row, k) <= mine[k]
                          /\ (failed = {} /\ scope[c].on \notin unclean) => mine[k] = Count(row, k)
      <4> SUFFICES ASSUME NEW k \in Keys
                   PROVE  /\ mine[k] \in Nat /\ Count(row, k) <= mine[k]
                          /\ (failed = {} /\ scope[c].on \notin unclean) => mine[k] = Count(row, k)
        OBVIOUS
      <4>1. /\ mine[k] = lock[scope[c].on][k] \/ mine[k] = lock[scope[c].on][k] - One(k, scope[c].got[2])
            /\ failed = {} => mine[k] = lock[scope[c].on][k] - One(k, scope[c].got[2])
        BY <3>3 DEF One
      <4>2. One(k, scope[c].got[2]) \in 0..1
        BY DEF One
      <4> HIDE DEF mine
      <4>3. /\ Count(scope[c], k) <= lock[scope[c].on][k]
            /\ scope[c].on \notin unclean => lock[scope[c].on][k] = Count(scope[c], k)
        BY <1>1, <2>2
      <4> QED BY <1>3, <3>3, <4>1, <4>2, <4>3
    <3>5. mine \in [Keys -> Nat]
      BY <3>4
    <3> HIDE DEF mine
    <3>6. lock' \in [Sessions -> [Keys -> Nat]] /\ lock'[scope[c].on] = mine
          /\ \A s \in Sessions \ {scope[c].on} : lock'[s] = lock[s]
      BY <1>1, <2>2, <3>2, <3>5
    <3>7. unclean' \subseteq Sessions /\ (unclean' = unclean \/ unclean' = unclean \cup {scope[c].on})
      BY <1>1, <2>2, <3>1
    <3>8. scope[c].on \notin unclean' => failed = {} /\ scope[c].on \notin unclean
      BY <3>1
    <3> QED BY <3>4, <3>6, <3>7, <3>8 DEF Suits
  <2> QED BY <2>1, <2>2
<1>7. \A k \in Keys : \/ Count(row, k) = 0
                      \/ Count(scope[c], k) # 0
                      \/ Reserved(c) /\ Available(c, k)
  BY <1>3
<1> QED BY <1>5, <1>6, <1>7, SameSession

\* A row without a session and without locks.
LEMMA FreshRow ==
    ASSUME NEW c \in Holders, NEW at \in {"idle", "queueing", "running", "ended"}
    PROVE  LET row == [Uncalled EXCEPT !.at = at]
           IN  at # "running" => RowOK(c, row) /\ row.on = NoSession
BY DEF Uncalled, RowOK, ScopeRows

\* The outermost scope gives up its session.
LEMMA SessionIsParted ==
    ASSUME LockInv, NEW c \in Holders,
           (scope[c].depth = 1 /\ GiveBack(c)) \/ LoseSession(c)
    PROVE  Parts(c)
<1>1. /\ lock \in [Sessions -> [Keys -> Nat]] /\ unclean \subseteq Sessions
      /\ scope[c].on \in Sessions \cup {NoSession} /\ NoSession \notin Sessions
      /\ NoLocks \in [Keys -> Nat] /\ scope[c].got \in [1..2 -> SUBSET Keys]
      /\ scope[c] \in ScopeRows
  BY OwnRow, LockAssumption DEF ScopeRows, NoLocks
<1>2. CASE lock' = Cleaned(c) /\ unclean' = unclean \ {scope[c].on}
  <2>1. CASE Reserved(c)
    BY <1>1, <1>2, <2>1 DEF Parts, Cleaned, Reserved
  <2>2. CASE ~Reserved(c)
    BY <1>1, <1>2, <2>2 DEF Parts, Cleaned, Reserved
  <2> QED BY <2>1, <2>2
<1>3. ASSUME scope[c].depth = 1, NEW failed, UnlockFails(c, failed) PROVE Parts(c)
  <2> DEFINE mine == [k \in Keys |-> lock[scope[c].on][k]
                        - (IF k \in scope[c].got[scope[c].depth] \ failed THEN 1 ELSE 0)]
  <2>1. Reserved(c) /\ scope[c].on \in Sessions /\ unclean' = unclean \cup {scope[c].on}
        /\ lock' = [lock EXCEPT ![scope[c].on] = mine]
    BY <1>1, <1>3 DEF UnlockFails, Unlocked, Reserved
  <2>2. \A k \in Keys : lock[scope[c].on][k] \in Nat /\ Count(scope[c], k) <= lock[scope[c].on][k]
    BY <1>1, <2>1, OwnRow
  <2>3. \A k \in Keys : /\ Count(scope[c], k) \in 0..2
                        /\ k \in scope[c].got[1] => Count(scope[c], k) # 0
    BY <1>1, Counting
  <2>4. \A k \in Keys : mine[k] \in Nat
    <3> SUFFICES ASSUME NEW k \in Keys PROVE mine[k] \in Nat
      OBVIOUS
    <3>1. \/ mine[k] = lock[scope[c].on][k]
          \/ k \in scope[c].got[1] /\ mine[k] = lock[scope[c].on][k] - 1
      BY <1>3, <2>2
    <3> HIDE DEF mine
    <3> QED BY <2>2, <2>3, <3>1
  <2>5. mine \in [Keys -> Nat]
    BY <2>4
  <2> HIDE DEF mine
  <2> QED BY <1>1, <2>1, <2>5 DEF Parts
<1>4. CASE LoseSession(c)
  BY <1>1, <1>4, <1>2 DEF LoseSession, Cleaned
<1> QED BY <1>2, <1>3, <1>4 DEF GiveBack

LEMMA DeniedStep == ASSUME LockInv, NEW c \in Holders, Denied(c) PROVE LockInv'
<1>1. CASE /\ scope[c].depth = 1 /\ GiveBack(c)
           /\ \E at \in {"ended", "queueing"} :
                  scope' = [scope EXCEPT ![c] = [Uncalled EXCEPT !.at = at]]
  BY <1>1, FreshRow, GivesBack, SessionIsParted
<1>2. CASE /\ scope[c].depth = 2 /\ UnlockInner(c)
           /\ scope' = [scope EXCEPT ![c].got[2] = {}]
  <2> DEFINE row == [scope[c] EXCEPT !.got = [scope[c].got EXCEPT ![2] = {}]]
  <2>1. /\ scope[c] \in ScopeRows /\ RowOK(c, scope[c]) /\ scope \in [Holders -> ScopeRows]
        /\ scope[c].got \in [1..2 -> SUBSET Keys]
    BY OwnRow DEF LockInv
  <2>2. [scope[c].got EXCEPT ![2] = {}] \in [1..2 -> SUBSET Keys]
    BY <2>1
  <2>3. /\ row \in ScopeRows /\ row.on = scope[c].on /\ row.at = scope[c].at
        /\ row.got = [scope[c].got EXCEPT ![2] = {}]
    BY <2>1, <2>2 DEF ScopeRows
  <2>4. scope' = [scope EXCEPT ![c] = row]
    BY <1>2, <2>1
  <2>5. Outer[c] \subseteq scope[c].got[1]
    BY <1>2, <2>1 DEF RowOK
  <2> HIDE DEF row
  <2> QED BY <1>2, <2>3, <2>4, <2>5, LetsGo
<1> QED BY <1>1, <1>2 DEF Denied

LEMMA OpenStep == ASSUME LockInv, NEW c \in Holders, OpenInner(c) PROVE LockInv'
<1> DEFINE row == [scope[c] EXCEPT !.depth = 2]
<1>1. /\ scope[c] \in ScopeRows /\ RowOK(c, scope[c]) /\ scope \in [Holders -> ScopeRows]
  BY OwnRow DEF LockInv
<1>2. row \in ScopeRows /\ row.on = scope[c].on /\ row.got = scope[c].got
      /\ row.depth = 2 /\ row.at = scope[c].at
  BY <1>1 DEF ScopeRows
<1>3. scope[c].at = "running" /\ Outer[c] \subseteq scope[c].got[1]
  BY DEF OpenInner, Has, Acting, Missing, Wanted
<1>4. scope' = [scope EXCEPT ![c] = row] /\ lock' = lock /\ unclean' = unclean
  BY <1>1 DEF OpenInner
<1> HIDE DEF row
<1>5. RowOK(c, row)
  BY <1>1, <1>2, <1>3 DEF RowOK
<1> QED BY <1>2, <1>4, <1>5, LocksStay

LEMMA OutsideStep ==
    ASSUME LockInv, NEW c \in Holders, AskOutside(c) \/ OutsideTimesOut(c)
    PROVE  LockInv'
<1> DEFINE row == [scope[c] EXCEPT !.due = @ \ {"outside"}]
<1>1. /\ scope[c] \in ScopeRows /\ RowOK(c, scope[c]) /\ scope \in [Holders -> ScopeRows]
  BY OwnRow DEF LockInv
<1>2. row \in ScopeRows /\ row.on = scope[c].on /\ row.got = scope[c].got
      /\ row.depth = scope[c].depth /\ row.at = scope[c].at
  BY <1>1 DEF ScopeRows
<1>3. scope' = [scope EXCEPT ![c] = row] /\ lock' = lock /\ unclean' = unclean
  BY <1>1 DEF AskOutside, OutsideTimesOut
<1> HIDE DEF row
<1>4. RowOK(c, row)
  BY <1>1, <1>2 DEF RowOK
<1> QED BY <1>2, <1>3, <1>4, LocksStay

LEMMA LeaveInnerStep == ASSUME LockInv, NEW c \in Holders, LeaveInner(c) PROVE LockInv'
<1> DEFINE dropped == [scope[c].got EXCEPT ![2] = {}]
           left == scope[c].due \ {"inner"}
           low == [scope[c] EXCEPT !.depth = 1]
           row == [low EXCEPT !.got = dropped, !.due = left]
<1>1. /\ scope[c] \in ScopeRows /\ scope \in [Holders -> ScopeRows]
      /\ scope[c].got \in [1..2 -> SUBSET Keys]
  BY OwnRow DEF LockInv
<1>2. dropped \in [1..2 -> SUBSET Keys] /\ left \in SUBSET {"inner", "outside"}
  BY <1>1 DEF ScopeRows
<1>3. /\ row \in ScopeRows /\ row.on = scope[c].on /\ row.at = scope[c].at
      /\ row.got = dropped /\ row.depth = 1
  <2> HIDE DEF dropped, left
  <2>1. /\ low \in ScopeRows /\ low.on = scope[c].on /\ low.at = scope[c].at
        /\ low.depth = 1
    BY <1>1 DEF ScopeRows
  <2> HIDE DEF low
  <2> QED BY <1>2, <2>1 DEF ScopeRows
<1>4. scope' = [scope EXCEPT ![c] = row]
  BY <1>1 DEF LeaveInner
<1> HIDE DEF row
<1> QED BY <1>3, <1>4, LetsGo DEF LeaveInner, InnerIsDone

LEMMA OverStep == ASSUME LockInv, NEW c \in Holders, IsOver(c) PROVE LockInv'
BY FreshRow, GivesBack, SessionIsParted DEF IsOver, Outermost

LEMMA LossStep == ASSUME LockInv, NEW c \in Holders, LoseSession(c) PROVE LockInv'
<1> DEFINE row == [scope[c] EXCEPT !.on = NoSession]
<1>1. /\ scope[c] \in ScopeRows /\ RowOK(c, scope[c]) /\ scope \in [Holders -> ScopeRows]
  BY OwnRow DEF LockInv
<1>2. row \in ScopeRows /\ row.on = NoSession /\ row.got = scope[c].got
      /\ row.depth = scope[c].depth /\ row.at = scope[c].at
  BY <1>1 DEF ScopeRows
<1>3. scope' = [scope EXCEPT ![c] = row]
  BY <1>1 DEF LoseSession
<1> HIDE DEF row
<1>4. RowOK(c, row)
  BY <1>1, <1>2 DEF RowOK
<1>5. Parts(c)
  BY SessionIsParted
<1> QED BY <1>2, <1>3, <1>4, <1>5, GivesBack

\* A session that nobody uses is empty, or not in the pool.
LEMMA WithheldStep == ASSUME LockInv, NEW s \in Sessions, LoseWithheld(s) PROVE LockInv'
<1>1. /\ scope' = scope /\ lock' = [lock EXCEPT ![s] = NoLocks] /\ unclean' = unclean \ {s}
      /\ lock \in [Sessions -> [Keys -> Nat]] /\ unclean \subseteq Sessions
      /\ NoLocks \in [Keys -> Nat] /\ \A k \in Keys : NoLocks[k] = 0
  BY DEF LoseWithheld, LockInv, LocksOK, NoLocks
<1>2. lock'[s] = NoLocks /\ \A t \in Sessions \ {s} : lock'[t] = lock[t]
  BY <1>1
<1>3. ASSUME NEW d \in Holders, NEW k \in Keys, scope[d].on # NoSession
      PROVE  /\ Count(scope[d], k) <= lock'[scope[d].on][k]
             /\ scope[d].on \notin unclean' => lock'[scope[d].on][k] = Count(scope[d], k)
  <2>1. scope[d].on \in Sessions \ {s}
    BY <1>3, OwnRow DEF LoseWithheld, Reserved
  <2> QED BY <1>1, <1>2, <1>3, <2>1 DEF LockInv, LocksOK, Reserved
<1>4. \A t \in Pool', k \in Keys : lock'[t][k] = 0
  <2>1. Pool' \subseteq Pool \cup {s}
    BY <1>1 DEF Pool
  <2>2. \A t \in Pool' : t \in Sessions
    BY DEF Pool
  <2> QED BY <1>1, <1>2, <2>1, <2>2 DEF LockInv, LocksOK
<1>5. LocksOK'
  BY <1>1, <1>3, <1>4 DEF LocksOK, Reserved
<1> QED BY <1>1, <1>5 DEF LockInv

LEMMA LockInvStep == LockInv /\ [ActionLockNext]_lockVars => LockInv'
<1> SUFFICES ASSUME LockInv, [ActionLockNext]_lockVars PROVE LockInv'
  OBVIOUS
<1>1. CASE UNCHANGED lockVars
  BY <1>1 DEF lockVars, LockInv, LocksOK, RowOK, Apart, Reserved, Pool
<1>2. ASSUME NEW c \in Holders,
             Call(c) \/ Reserve(c) \/ Take(c) \/ Advance(c) \/ Throw(c) \/ LoseSession(c)
      PROVE  LockInv'
  BY <1>2, CallsStep, ReserveStep, TakeStep, DeniedStep, OpenStep, OutsideStep, LeaveInnerStep,
     OverStep, LossStep DEF Advance, Leave, Throw
<1> QED BY <1>1, <1>2, WithheldStep DEF ActionLockNext

-----------------------------------------------------------------------------

\* The inductive invariant: what PostgreSQL counts on a session is what the
\* scopes of its call took, with more of it only where an unlock failed
\* (lib/db/action-lock.ts).
THEOREM LocksAreCounted == ActionLockSpec => []LockInv
BY LockInvInit, LockInvStep, PTL DEF ActionLockSpec

\* Two actions never run at once under one key, whichever scope of
\* withActionLocks took it, as long as their sessions live.
THEOREM ActionsExclude == ActionLockSpec => []SectionsExclude
<1>1. LockInv => SectionsExclude
  <2> SUFFICES ASSUME LockInv, NEW c \in Holders, NEW d \in Holders, c # d,
                      NEW k, k \in Protected(c), k \in Protected(d)
               PROVE  FALSE
    BY DEF SectionsExclude
  <2>1. ASSUME NEW b \in Holders, k \in Protected(b)
        PROVE  scope[b].on # NoSession /\ k \in Keys /\ Count(scope[b], k) # 0
    <3>1. /\ scope[b] \in ScopeRows /\ RowOK(b, scope[b])
          /\ scope[b].got \in [1..2 -> SUBSET Keys] /\ scope[b].depth \in 1..2
      BY OwnRow
    <3>2. scope[b].on # NoSession
      BY <2>1 DEF Protected, Reserved
    <3>3. k \in scope[b].got[1] \/ k \in scope[b].got[2]
      BY <2>1, <3>1 DEF Protected, RowOK, Acting, Missing, Wanted
    <3>4. k \in Keys
      BY <3>1, <3>3
    <3> QED BY <3>1, <3>2, <3>3, <3>4, Counting
  <2> QED BY <2>1 DEF LockInv, Apart
<1> QED BY <1>1, LocksAreCounted, PTL

LEMMA KeyOrder == OpToRel(<, Nat) = {ss \in Nat \X Nat : ss[1] < ss[2]}
BY Zenon DEF OpToRel

\* Who is taking locks has a key to take next.
LEMMA SomeKeyIsNext ==
    ASSUME LockInv, NEW c \in Holders, Missing(c) # {}
    PROVE  \E k \in Missing(c) : IsNext(c, k)
<1>1. Missing(c) \subseteq Nat
  <2>1. Wanted(c) \subseteq Keys
    BY OwnRow
  <2> QED BY <2>1, LockAssumption DEF Missing, Keys, SettingsKey
<1>2. PICK k \in Missing(c) : \A j \in Missing(c) : ~(<<j, k>> \in OpToRel(<, Nat))
  BY <1>1, NatLessThanWellFounded, WFMin
<1>3. \A j \in Missing(c) : <<j, k>> \notin {ss \in Nat \X Nat : ss[1] < ss[2]}
  BY <1>2, KeyOrder
<1>4. \A j \in Missing(c) : ~(j < k)
  BY <1>1, <1>3
<1>5. \A j \in Missing(c) : k <= j
  BY <1>1, <1>4
<1> QED BY <1>5 DEF IsNext

\* A call that runs and does not get on is in an inner scope, has taken none of its
\* keys and waits for one that another call's outer scope holds.
LEMMA WhoWaits ==
    ASSUME LockInv, unclean = {}, NEW c \in Holders, scope[c].at = "running", ~GetsOn(c)
    PROVE  /\ scope[c].depth = 2 /\ scope[c].got[2] = {} /\ Inner[c] # {}
           /\ \E d \in Holders \ {c} : \E k \in Inner[c] :
                 /\ scope[d].at = "running"
                 /\ k \in scope[d].got[1] \/ k \in scope[d].got[2]
<1>1. /\ scope[c] \in ScopeRows /\ RowOK(c, scope[c]) /\ scope[c].depth \in 1..2
      /\ scope[c].got \in [1..2 -> SUBSET Keys] /\ Wanted(c) \subseteq Keys
  BY OwnRow
<1>2. ~(Outermost(c) /\ IsDone(c)) /\ ~InnerIsDone(c) /\ ~Has(c, "inner") /\ ~Has(c, "outside")
  BY DEF GetsOn, Expires
<1>3. Reserved(c)
  <2> SUFFICES ASSUME ~Reserved(c) PROVE FALSE
    OBVIOUS
  <2>1. scope[c].depth # 2
    BY <1>2 DEF InnerIsDone
  <2>2. Outermost(c) /\ IsDone(c)
    BY <1>1, <1>2, <2>1 DEF Outermost, IsDone
  <2> QED BY <1>2, <2>2
<1>4. Missing(c) # {}
  <2> SUFFICES ASSUME Missing(c) = {} PROVE FALSE
    OBVIOUS
  <2>1. Acting(c)
    BY DEF Acting
  <2>2. scope[c].depth = 1
    BY <1>1, <1>2, <2>1 DEF InnerIsDone
  <2> QED BY <1>2, <2>1, <2>2 DEF Outermost, IsDone
<1>5. Locking(c)
  BY <1>3, <1>4 DEF Locking
<1>6. PICK k \in Missing(c) : IsNext(c, k)
  BY <1>4, SomeKeyIsNext
<1>7. ~Available(c, k) /\ scope[c].depth = 2 /\ scope[c].got[2] = {}
  BY <1>1, <1>5, <1>6 DEF GetsOn
<1>8. k \in Inner[c] /\ k \in Keys
  BY <1>1, <1>6, <1>7 DEF Missing, Wanted
<1>9. PICK s \in Sessions \ {scope[c].on} : lock[s][k] # 0
  BY <1>7 DEF Available
<1>10. s \notin Pool
  BY <1>8, <1>9 DEF LockInv, LocksOK
<1>11. PICK d \in Holders : scope[d].on = s
  BY <1>9, <1>10 DEF Pool
<1>12. d # c /\ Reserved(d)
  BY <1>9, <1>11, LockAssumption DEF Reserved
<1>13. Count(scope[d], k) # 0
  BY <1>8, <1>9, <1>11, <1>12 DEF LockInv, LocksOK
<1>14. scope[d] \in ScopeRows /\ RowOK(d, scope[d])
  BY OwnRow
<1>15. k \in scope[d].got[1] \/ k \in scope[d].got[2]
  BY <1>8, <1>13, <1>14, Counting
<1>16. scope[d].at = "running"
  BY <1>12, <1>14 DEF RowOK, Reserved
<1> QED BY <1>7, <1>8, <1>12, <1>15, <1>16

\* While calls are under way one of them gets on: with every session of the pool
\* reserved, by calls that wait for each other's keys, for a second session or for
\* the provider, nobody waits for what only a waiting call can give back, unless a
\* clean-up failed on a session.
THEOREM SomebodyGetsOn == ActionLockSpec => []NobodyIsStuck
<1>1. LockInv => NobodyIsStuck
  <2> SUFFICES ASSUME LockInv, unclean = {}, NEW c \in Holders, UnderWay(c),
                      \A d \in Holders : ~GetsOn(d)
               PROVE  FALSE
    BY DEF NobodyIsStuck
  <2>1. CASE \E d \in Holders : scope[d].at = "running"
    <3>1. PICK d \in Holders : scope[d].at = "running"
      BY <2>1
    <3>2. /\ Inner[d] # {}
          /\ \E b \in Holders \ {d} : \E k \in Inner[d] :
                /\ scope[b].at = "running"
                /\ k \in scope[b].got[1] \/ k \in scope[b].got[2]
      BY <3>1, WhoWaits
    <3>3. PICK b \in Holders \ {d}, k \in Inner[d] :
             scope[b].at = "running" /\ (k \in scope[b].got[1] \/ k \in scope[b].got[2])
      BY <3>2
    <3>4. scope[b].got[2] = {} /\ Inner[b] # {}
      BY <3>3, WhoWaits
    <3>5. k \in Outer[b]
      BY <3>3, <3>4, OwnRow DEF RowOK
    <3> QED BY <3>2, <3>3, <3>4, <3>5, NestingAssumption
  <2>2. CASE \A d \in Holders : scope[d].at # "running"
    <3>1. \A d \in Holders : scope[d].on = NoSession
      BY <2>2, OwnRow DEF RowOK
    <3>2. Pool # {}
      BY <3>1, LockAssumption DEF Pool
    <3>3. scope[c].at = "queueing"
      <4>1. scope[c] \in ScopeRows
        BY OwnRow
      <4> QED BY <2>2, <4>1 DEF ScopeRows, UnderWay
    <3> QED BY <3>2, <3>3 DEF GetsOn
  <2> QED BY <2>1, <2>2
<1> QED BY <1>1, LocksAreCounted, PTL

-----------------------------------------------------------------------------
(* The local stack (LocalStack). *)

\* Nothing of the child is left, or SIGKILL is on its way to what is.
Cleared(k) == proc[k] \in {"none", "exited", "killed"} /\ ~group[k]

Queues == {<<>>, <<"worker">>, <<"web">>, <<"worker", "web">>}
Busy == {"begin", "grace", "kill"}

StackTyped ==
    /\ proc \in [Children -> {"none", "up", "asked", "killed", "exited"}]
    /\ group \in [Children -> BOOLEAN]
    /\ stopping \in [Ways -> [at: Busy \cup {"off", "over"}, queue: Queues]]

\* What a way has dealt with: the children it does not list any more, and the one
\* it has killed.
WayInv(w) ==
    /\ (stopping[w].at \in Busy) = (stopping[w].queue # <<>>)
    /\ stopping[w].queue = <<"worker">> => Cleared("web")
    /\ stopping[w].queue = <<"web">> => Cleared("worker") /\ Gone("worker")
    /\ stopping[w].at = "kill" => Cleared(Current(w))
    /\ stopping[w].at = "over" => \A k \in Children : Cleared(k)

StackInv ==
    /\ StackTyped
    /\ \A w \in Ways : WayInv(w)
    /\ NothingIsOrphaned

LEMMA Lines ==
    /\ <<"worker", "web">> # <<>> /\ <<"worker">> # <<>> /\ <<"web">> # <<>>
    /\ <<"worker", "web">>[1] = "worker" /\ <<"worker">>[1] = "worker" /\ <<"web">>[1] = "web"
    /\ Len(<<"worker", "web">>) = 2 /\ Len(<<"worker">>) = 1 /\ Len(<<"web">>) = 1
    /\ Tail(<<"worker", "web">>) = <<"web">>
    /\ <<"worker", "web">> # <<"web">> /\ <<"worker", "web">> # <<"worker">>
    /\ <<"web">> # <<"worker">>
<1>1. <<"worker", "web">>[1] = "worker" /\ <<"worker">>[1] = "worker" /\ <<"web">>[1] = "web"
  OBVIOUS
<1>2. Len(<<"worker", "web">>) = 2 /\ Len(<<"worker">>) = 1 /\ Len(<<"web">>) = 1 /\ Len(<<>>) = 0
  OBVIOUS
<1>3. Tail(<<"worker", "web">>) = <<"web">>
  OBVIOUS
<1> QED BY <1>1, <1>2, <1>3

LEMMA StackInvInit == StackInit => StackInv
<1> SUFFICES ASSUME StackInit PROVE StackInv
  OBVIOUS
<1>1. StackTyped
  BY DEF StackInit, StackTyped, Children, Ways, Busy, Queues
<1>2. \A w \in Ways : stopping[w].at = "off" /\ stopping[w].queue = <<>>
  BY DEF StackInit
<1>3. \A w \in Ways : WayInv(w)
  BY <1>2, Lines DEF WayInv, Busy
<1>4. NothingIsOrphaned
  BY DEF StackInit, NothingIsOrphaned, Running
<1> QED BY <1>1, <1>3, <1>4 DEF StackInv

LEMMA CurrentIsAChild ==
    ASSUME StackInv, NEW w \in Ways, stopping[w].at \in Busy
    PROVE  /\ Current(w) \in Children
           /\ stopping[w].queue \in {<<"worker">>, <<"web">>, <<"worker", "web">>}
           /\ Len(stopping[w].queue) # 1 => stopping[w].queue = <<"worker", "web">>
           /\ stopping[w].queue = <<"worker", "web">> => Current(w) = "worker" /\ Len(stopping[w].queue) # 1
<1>1. stopping[w].queue \in {<<"worker">>, <<"web">>, <<"worker", "web">>}
  BY DEF StackInv, StackTyped, WayInv, Queues
<1> QED BY <1>1, Lines DEF Current, Children

\* What is cleared stays cleared, and who is gone stays gone.
LEMMA StandsStill ==
    ASSUME StackInv, StackNext, NEW k \in Children
    PROVE  (Cleared(k) => Cleared(k)') /\ (Gone(k) => Gone(k)')
<1> USE DEF StackInv, StackTyped, Cleared, Gone
<1>1. CASE OfferTick \/ TickReturns \/ Interrupt \/ Arm
  BY <1>1 DEF OfferTick, TickReturns, Interrupt, Arm
<1>2. ASSUME NEW j \in Children, ChildStep(j) PROVE (Cleared(k) => Cleared(k)') /\ (Gone(k) => Gone(k)')
  BY <1>2 DEF ChildStep, ExitsAsAsked, DiesKilled, ExitsUnexpectedly, Exit
<1>3. ASSUME NEW w \in Ways, StopStep(w) PROVE (Cleared(k) => Cleared(k)') /\ (Gone(k) => Gone(k)')
  <2> HIDE DEF StackInv, StackTyped
  <2>1. proc \in [Children -> {"none", "up", "asked", "killed", "exited"}]
        /\ group \in [Children -> BOOLEAN]
    BY DEF StackInv, StackTyped
  <2>2. CASE Ask(w) \/ GraceOver(w)
    <3>1. Current(w) \in Children
      BY <2>2, CurrentIsAChild DEF Ask, GraceOver, Busy
    <3> QED BY <2>1, <2>2, <3>1 DEF Ask, GraceOver
  <2>3. CASE FoundGone(w) \/ KilledAndGone(w)
    BY <2>1, <2>3 DEF FoundGone, KilledAndGone
  <2> QED BY <1>3, <2>2, <2>3 DEF StopStep
<1>4. CASE ForceStop
  BY <1>4 DEF ForceStop
<1> QED BY <1>1, <1>2, <1>3, <1>4 DEF StackNext

LEMMA WaySet ==
    ASSUME StackTyped, NEW w \in Ways, NEW at \in Busy \cup {"off", "over"}, NEW left \in Queues,
           stopping' = [stopping EXCEPT ![w] = [at |-> at, queue |-> left]]
    PROVE  stopping' \in [Ways -> [at: Busy \cup {"off", "over"}, queue: Queues]]
BY DEF StackTyped

LEMMA TypedStep == StackInv /\ StackNext => StackTyped'
<1> SUFFICES ASSUME StackInv, StackNext PROVE StackTyped'
  OBVIOUS
<1>0. /\ proc \in [Children -> {"none", "up", "asked", "killed", "exited"}]
      /\ group \in [Children -> BOOLEAN]
      /\ stopping \in [Ways -> [at: Busy \cup {"off", "over"}, queue: Queues]]
  BY DEF StackInv, StackTyped
<1>1. CASE OfferTick \/ TickReturns \/ Arm
  BY <1>0, <1>1 DEF OfferTick, TickReturns, Arm, StackTyped
<1>2. CASE Interrupt
  <2>1. "orderly" \in Ways /\ <<"worker", "web">> \in Queues /\ "begin" \in Busy \cup {"off", "over"}
    BY DEF Ways, Queues, Busy
  <2>2. stopping' \in [Ways -> [at: Busy \cup {"off", "over"}, queue: Queues]]
    BY <1>2, <2>1, WaySet DEF Interrupt, Shutdown, Begin, StackInv
  <2> QED BY <1>0, <1>2, <2>2 DEF Interrupt, StackTyped
<1>3. ASSUME NEW j \in Children, ChildStep(j) PROVE StackTyped'
  <2>1. proc' \in [Children -> {"none", "up", "asked", "killed", "exited"}]
        /\ group' \in [Children -> BOOLEAN]
    BY <1>0, <1>3 DEF ChildStep, ExitsAsAsked, DiesKilled, ExitsUnexpectedly, Exit
  <2>2. stopping' = stopping \/ \E left \in Queues : Begin("unexpected", left)
    <3>1. <<"worker">> \in Queues /\ <<"web">> \in Queues
      BY DEF Queues
    <3> QED BY <1>3, <3>1 DEF ChildStep, ExitsAsAsked, DiesKilled, ExitsUnexpectedly
  <2>3. "unexpected" \in Ways /\ "begin" \in Busy \cup {"off", "over"}
    BY DEF Ways, Busy
  <2>4. stopping' \in [Ways -> [at: Busy \cup {"off", "over"}, queue: Queues]]
    BY <1>0, <2>2, <2>3, WaySet DEF Begin, StackInv
  <2> QED BY <2>1, <2>4 DEF StackTyped
<1>4. ASSUME NEW w \in Ways, StopStep(w) PROVE StackTyped'
  <2>1. CASE Ask(w) \/ GraceOver(w)
    <3>1. proc' \in [Children -> {"none", "up", "asked", "killed", "exited"}]
          /\ group' \in [Children -> BOOLEAN]
      BY <1>0, <2>1, CurrentIsAChild DEF Ask, GraceOver, Busy
    <3>2. stopping' = [stopping EXCEPT ![w].at = "grace"] \/ stopping' = [stopping EXCEPT ![w].at = "kill"]
      BY <2>1 DEF Ask, GraceOver
    <3>3. stopping' \in [Ways -> [at: Busy \cup {"off", "over"}, queue: Queues]]
      <4> HIDE DEF Queues
      <4> QED BY <1>0, <3>2 DEF Busy
    <3> QED BY <3>1, <3>3 DEF StackTyped
  <2>2. CASE FoundGone(w) \/ KilledAndGone(w)
    <3>1. stopping[w].at \in Busy
      BY <2>2 DEF FoundGone, KilledAndGone, Busy
    <3>2. Tail(stopping[w].queue) \in Queues \/ Len(stopping[w].queue) = 1
      BY <3>1, CurrentIsAChild, Lines DEF Queues
    <3>3. NextChild(w) /\ proc' = proc /\ group' \in [Children -> BOOLEAN]
      BY <1>0, <2>2 DEF FoundGone, KilledAndGone
    <3>4. stopping' \in [Ways -> [at: Busy \cup {"off", "over"}, queue: Queues]]
      <4>1. "begin" \in Busy \cup {"off", "over"} /\ "over" \in Busy \cup {"off", "over"} /\ <<>> \in Queues
        BY DEF Busy, Queues
      <4> QED BY <3>2, <3>3, <4>1, WaySet DEF NextChild, Begin, StackInv
    <3> QED BY <1>0, <3>3, <3>4 DEF StackTyped
  <2> QED BY <1>4, <2>1, <2>2 DEF StopStep
<1>5. CASE ForceStop
  BY <1>0, <1>5 DEF ForceStop, StackTyped
<1> QED BY <1>1, <1>2, <1>3, <1>4, <1>5 DEF StackNext

\* A way that does not move keeps what it has dealt with.
LEMMA IdleWay ==
    ASSUME StackInv, StackNext, NEW w \in Ways, stopping'[w] = stopping[w]
    PROVE  WayInv(w)'
<1>1. WayInv(w) /\ (stopping[w].at \in Busy => Current(w) \in Children)
  BY CurrentIsAChild DEF StackInv
<1>2. \A k \in Children : (Cleared(k) => Cleared(k)') /\ (Gone(k) => Gone(k)')
  BY StandsStill
<1>3. "worker" \in Children /\ "web" \in Children
  BY DEF Children
<1>4. stopping[w].at = "kill" => Cleared(Current(w)) /\ Current(w) \in Children
  BY <1>1 DEF WayInv, Busy
<1>5. Current(w)' = Current(w)
  BY DEF Current
<1>6. stopping[w].at = "kill" => Cleared(Current(w))'
  <2> SUFFICES ASSUME stopping[w].at = "kill" PROVE Cleared(Current(w))'
    OBVIOUS
  <2> DEFINE k == Current(w)
  <2>1. k \in Children /\ Cleared(k) /\ k' = k
    BY <1>4, <1>5
  <2>2. proc'[k] \in {"none", "exited", "killed"} /\ ~group'[k]
    BY <1>2, <2>1 DEF Cleared
  <2> QED BY <2>1, <2>2 DEF Cleared
<1> QED BY <1>1, <1>2, <1>3, <1>6 DEF WayInv

\* The way that moves.
LEMMA BusyWay ==
    ASSUME StackInv, StackNext, NEW w \in Ways, stopping'[w] # stopping[w]
    PROVE  WayInv(w)'
<1>1. WayInv(w) /\ (stopping[w].at \in Busy => Current(w) \in Children)
  BY CurrentIsAChild DEF StackInv
<1>2. \A k \in Children : (Cleared(k) => Cleared(k)') /\ (Gone(k) => Gone(k)')
  BY StandsStill
<1>3. /\ proc \in [Children -> {"none", "up", "asked", "killed", "exited"}]
      /\ group \in [Children -> BOOLEAN]
      /\ stopping \in [Ways -> [at: Busy \cup {"off", "over"}, queue: Queues]]
  BY DEF StackInv, StackTyped
<1>4. CASE Interrupt
  <2>1. stopping'[w].at = "begin" /\ stopping'[w].queue = <<"worker", "web">>
    BY <1>3, <1>4 DEF Interrupt, Shutdown, Begin
  <2> QED BY <2>1, Lines DEF WayInv, Busy
<1>5. ASSUME NEW k \in Children, ChildStep(k) PROVE WayInv(w)'
  <2>1. ExitsUnexpectedly(k) /\ proc' = [proc EXCEPT ![k] = "exited"]
        /\ group' = [group EXCEPT ![k] = FALSE]
        /\ Begin("unexpected", IF k = "web" THEN <<"worker">> ELSE <<"web">>)
    BY <1>5 DEF ChildStep, ExitsAsAsked, DiesKilled, ExitsUnexpectedly, Exit
  <2>2. Cleared(k)' /\ Gone(k)'
    BY <1>3, <2>1 DEF Cleared, Gone
  <2>3. stopping'[w] = [at |-> "begin", queue |-> IF k = "web" THEN <<"worker">> ELSE <<"web">>]
    BY <1>3, <2>1 DEF Begin
  <2>4. CASE k = "web"
    BY <2>2, <2>3, <2>4, Lines DEF WayInv, Busy
  <2>5. CASE k = "worker"
    BY <2>2, <2>3, <2>5, Lines DEF WayInv, Busy
  <2> QED BY <2>4, <2>5 DEF Children
<1>6. ASSUME NEW v \in Ways, StopStep(v) PROVE WayInv(w)'
  <2>1. v = w
    BY <1>3, <1>6 DEF StopStep, Ask, FoundGone, GraceOver, KilledAndGone, NextChild, Begin
  <2>2. CASE Ask(w)
    <3>1. stopping'[w].at = "grace" /\ stopping'[w].queue = stopping[w].queue
          /\ stopping[w].at = "begin"
      BY <1>3, <2>2 DEF Ask
    <3> QED BY <1>1, <1>2, <3>1 DEF WayInv, Busy, Children
  <2>3. CASE GraceOver(w)
    <3>1. stopping'[w].at = "kill" /\ stopping'[w].queue = stopping[w].queue
          /\ stopping[w].at = "grace"
      BY <1>3, <2>3 DEF GraceOver
    <3>2. Current(w)' = Current(w) /\ Current(w) \in Children
      BY <1>1, <3>1 DEF Current, Busy
    <3>3. Cleared(Current(w))'
      BY <1>3, <2>3, <3>2 DEF GraceOver, Cleared
    <3> QED BY <1>1, <1>2, <3>1, <3>3 DEF WayInv, Busy, Children
  <2>4. CASE FoundGone(w) \/ KilledAndGone(w)
    <3> DEFINE k == Current(w)
    <3>1. stopping[w].at \in Busy /\ k \in Children /\ NextChild(w) /\ proc' = proc /\ Gone(k)
      BY <1>1, <2>4 DEF FoundGone, KilledAndGone, Busy
    <3>2. proc'[k] \in {"none", "exited"} /\ ~group'[k]
      <4>1. CASE FoundGone(w)
        BY <1>3, <3>1, <4>1 DEF FoundGone, Gone
      <4>2. CASE KilledAndGone(w)
        BY <1>1, <3>1, <4>2 DEF KilledAndGone, Gone, WayInv, Cleared
      <4> QED BY <2>4, <4>1, <4>2
    <3>3. CASE Len(stopping[w].queue) = 1
      <4>1. stopping'[w] = [at |-> "over", queue |-> <<>>]
        BY <1>3, <3>1, <3>3 DEF NextChild
      <4>2. stopping[w].queue \in {<<"worker">>, <<"web">>}
        BY <3>1, <3>3, CurrentIsAChild
      <4>3. \A j \in Children : j # k => Cleared(j)
        BY <1>1, <4>2, Lines DEF WayInv, Current, Children
      <4>4. \A j \in Children : proc'[j] \in {"none", "exited", "killed"} /\ ~group'[j]
        BY <1>2, <3>2, <4>3 DEF Cleared
      <4> QED BY <4>1, <4>4, Lines DEF WayInv, Busy, Cleared
    <3>4. CASE Len(stopping[w].queue) # 1
      <4>1. stopping[w].queue = <<"worker", "web">> /\ k = "worker"
        BY <3>1, <3>4, CurrentIsAChild
      <4>2. stopping'[w] = [at |-> "begin", queue |-> <<"web">>]
        BY <1>3, <3>1, <3>4, <4>1, Lines DEF NextChild, Begin
      <4> QED BY <3>2, <4>1, <4>2, Lines DEF WayInv, Busy, Cleared, Gone
    <3> QED BY <3>3, <3>4
  <2> QED BY <1>6, <2>1, <2>2, <2>3, <2>4 DEF StopStep
<1>7. CASE OfferTick \/ TickReturns \/ Arm \/ ForceStop
  BY <1>7 DEF OfferTick, TickReturns, Arm, ForceStop
<1> QED BY <1>4, <1>5, <1>6, <1>7 DEF StackNext

LEMMA OrphansStep == StackInv /\ StackNext => NothingIsOrphaned'
<1> SUFFICES ASSUME StackInv, StackNext, exitCode' # Running,
                    NEW j \in Children
             PROVE  proc'[j] \in {"none", "exited", "killed"} /\ ~group'[j]
  BY DEF NothingIsOrphaned
<1>1. CASE exitCode # Running
  <2>1. Cleared(j)
    BY <1>1 DEF StackInv, NothingIsOrphaned, Cleared
  <2> QED BY <2>1, StandsStill DEF Cleared
<1>2. CASE exitCode = Running
  <2>1. CASE ForceStop
    BY <2>1 DEF ForceStop, Gone, Children
  <2>2. ASSUME NEW w \in Ways, StopStep(w)
        PROVE  proc'[j] \in {"none", "exited", "killed"} /\ ~group'[j]
    <3>1. NextChild(w) /\ Len(stopping[w].queue) = 1
      BY <1>2, <2>2 DEF StopStep, Ask, FoundGone, GraceOver, KilledAndGone, NextChild
    <3>2. stopping'[w].at = "over"
      BY <3>1 DEF NextChild, StackInv, StackTyped
    <3>3. WayInv(w)'
      BY BusyWay, IdleWay
    <3>4. Cleared(j)'
      BY <3>2, <3>3 DEF WayInv
    <3> QED BY <3>4 DEF Cleared
  <2>3. CASE OfferTick \/ TickReturns \/ Interrupt \/ Arm \/ \E k \in Children : ChildStep(k)
    BY <1>2, <2>3 DEF OfferTick, TickReturns, Interrupt, Arm, ChildStep, ExitsAsAsked, DiesKilled,
       ExitsUnexpectedly
  <2> QED BY <2>1, <2>2, <2>3 DEF StackNext
<1> QED BY <1>1, <1>2

LEMMA StackInvStep == StackInv /\ [StackNext]_stackVars => StackInv'
<1> SUFFICES ASSUME StackInv, [StackNext]_stackVars PROVE StackInv'
  OBVIOUS
<1>1. CASE StackNext
  BY <1>1, TypedStep, IdleWay, BusyWay, OrphansStep DEF StackInv
<1>2. CASE UNCHANGED stackVars
  BY <1>2 DEF stackVars, StackInv, StackTyped, WayInv, Cleared, Gone, Current, NothingIsOrphaned
<1> QED BY <1>1, <1>2

LEMMA StackInvariance == StackInit /\ [][StackNext]_stackVars => []StackInv
BY StackInvInit, StackInvStep, PTL

\* Once the supervisor is done, no child and no descendant of one is left without
\* a SIGKILL on its way, however the ways of stopping and the interrupts overlapped
\* (startLocalStack: stopChild, monitor, shutdown, forceStop).
THEOREM NobodyIsLeftOnThePort == StackSpec => []NothingIsOrphaned
<1>1. StackInv => NothingIsOrphaned
  BY DEF StackInv
<1> QED BY <1>1, StackInvariance, PTL DEF StackSpec

\* The web server is asked to stop only when the worker is gone, whichever way
\* asks it.
THEOREM TheWorkerIsDrainedFirst == StackSpec => WorkerDrainsFirst
<1>1. StackInv /\ [StackNext]_stackVars =>
        [proc["web"] = "up" /\ proc'["web"] = "asked" => Gone("worker")]_stackVars
  <2> SUFFICES ASSUME StackInv, StackNext, proc["web"] = "up", proc'["web"] = "asked"
               PROVE  Gone("worker")
    OBVIOUS
  <2>1. PICK w \in Ways : Ask(w)
    BY DEF StackNext, OfferTick, TickReturns, Interrupt, Arm, ForceStop, ChildStep, ExitsAsAsked,
       DiesKilled, ExitsUnexpectedly, Exit, StopStep, FoundGone, GraceOver, KilledAndGone,
       StackInv, StackTyped, Children, Gone
  <2>2. stopping[w].at \in Busy /\ Current(w) = "web"
    BY <2>1 DEF Ask, Busy, StackInv, StackTyped
  <2>3. stopping[w].queue = <<"web">>
    BY <2>2, CurrentIsAChild, Lines DEF Current
  <2> QED BY <2>3 DEF StackInv, WayInv
<1> QED BY <1>1, StackInvariance, PTL DEF StackSpec, WorkerDrainsFirst

-----------------------------------------------------------------------------
(* The runner of the command line (CodexRunner). *)

Early == {"idle", "waiting", "acquired", "setup", "write", "spawn"}
Calling == [at: Steps, deadline: Nat, answer: Answers]
SlotHolders == {c \in Calls : call[c].at \in Holding}

RunnerTyped ==
    /\ clock \in Nat
    /\ active \in Int
    /\ waiting \in Seq(Calls)
    /\ call \in [Calls -> Calling]
    /\ child \in [Calls -> {"none", "up", "asked", "gone"}]
    /\ kin \in [Calls -> {"none", "holding", "quiet"}]
    /\ escalation \in [Calls -> Nat]

\* The slots are counted, and nobody stands in line twice.
LineInv ==
    /\ IsFiniteSet(SlotHolders) /\ active = Cardinality(SlotHolders)
    /\ active <= MaxConcurrency
    /\ waiting # <<>> => active = MaxConcurrency
    /\ \A i \in 1..Len(waiting) : At(waiting[i], "waiting")
    /\ \A i, j \in 1..Len(waiting) : waiting[i] = waiting[j] => i = j

\* A call has no process before its run; a run is within its budget or, once it is
\* being ended, within the grace; after it nobody is left but a descendant that let
\* go of the output, and not even that one when the call was ended by force.
CallInv(c) ==
    /\ call[c].at \in Early => child[c] = "none" /\ kin[c] = "none" /\ call[c].answer = "none"
    /\ (At(c, "run") /\ ~Terminal(c)) => clock <= call[c].deadline
    /\ (At(c, "run") /\ Terminal(c)) =>
           clock <= escalation[c] /\ escalation[c] <= call[c].deadline + TerminationGrace
    /\ call[c].at \in {"clean", "ended"} =>
           /\ child[c] \in {"none", "gone"}
           /\ kin[c] # "none" => (kin[c] = "quiet" /\ ~Terminal(c))

RunnerInv == RunnerTyped /\ LineInv /\ \A c \in Calls : CallInv(c)

LEMMA SlotsAreNumbers == MaxConcurrency \in Nat \ {0} /\ TimeoutMs \in Nat /\ TerminationGrace \in Nat
BY RunnerAssumption

LEMMA RunnerInvInit == RunnerInit => RunnerInv
<1> SUFFICES ASSUME RunnerInit PROVE RunnerInv
  OBVIOUS
<1>1. \A c \in Calls : call[c] = [at |-> "idle", deadline |-> 0, answer |-> "none"]
  BY DEF RunnerInit
<1>2. RunnerTyped
  <2>1. "idle" \in Steps /\ "none" \in Answers /\ 0 \in Nat
    BY DEF Steps, Answers
  <2>2. [at |-> "idle", deadline |-> 0, answer |-> "none"] \in Calling
    BY <2>1 DEF Calling
  <2> QED BY <2>1, <2>2 DEF RunnerInit, RunnerTyped
<1>3. SlotHolders = {}
  BY <1>1 DEF SlotHolders, Holding
<1>4. LineInv
  BY <1>3, FS_EmptySet, SlotsAreNumbers DEF LineInv, RunnerInit
<1>5. \A c \in Calls : CallInv(c)
  BY <1>1 DEF CallInv, RunnerInit, At, Terminal
<1> QED BY <1>2, <1>4, <1>5 DEF RunnerInv

LEMMA MovedTo ==
    ASSUME RunnerTyped, NEW c \in Calls, NEW step \in Steps, NEW answer \in Answers
    PROVE  /\ Moved(c, step, answer) \in [Calls -> Calling]
           /\ Moved(c, step, answer)[c].at = step /\ Moved(c, step, answer)[c].answer = answer
           /\ step # "ended" => Moved(c, step, answer)[c].deadline = call[c].deadline
           /\ \A d \in Calls : d # c => Moved(c, step, answer)[d] = call[d]
<1>1. call \in [Calls -> Calling] /\ call[c].deadline \in Nat /\ 0 \in Nat
  BY DEF RunnerTyped, Calling
<1> DEFINE deadline == IF step = "ended" THEN 0 ELSE call[c].deadline
<1>2. deadline \in Nat
  BY <1>1
<1>3. Moved(c, step, answer) =
        [call EXCEPT ![c].at = step, ![c].answer = answer, ![c].deadline = deadline]
  BY DEF Moved
<1>4. step # "ended" => deadline = call[c].deadline
  OBVIOUS
<1> HIDE DEF deadline
<1>5. /\ Moved(c, step, answer)[c] \in Calling
      /\ Moved(c, step, answer)[c].at = step /\ Moved(c, step, answer)[c].answer = answer
      /\ Moved(c, step, answer)[c].deadline = deadline
  BY <1>1, <1>2, <1>3 DEF Calling
<1>6. /\ \A d \in Calls : d # c => Moved(c, step, answer)[d] = call[d]
      /\ Moved(c, step, answer) = [d \in Calls |-> Moved(c, step, answer)[d]]
  BY <1>1, <1>3
<1>7. \A d \in Calls : Moved(c, step, answer)[d] \in Calling
  BY <1>1, <1>5, <1>6
<1> HIDE DEF Moved
<1> QED BY <1>4, <1>5, <1>6, <1>7

\* The slots and the line stand while calls go from one held step to another.
LEMMA SlotsStand ==
    ASSUME LineInv, RunnerTyped, UNCHANGED <<active, waiting>>,
           \A d \in Calls : /\ (call'[d].at \in Holding) = (call[d].at \in Holding)
                            /\ call[d].at = "waiting" => call'[d].at = "waiting"
    PROVE  LineInv'
<1>1. SlotHolders' = SlotHolders
  BY DEF SlotHolders
<1>2. \A i \in 1..Len(waiting) : waiting[i] \in Calls
  BY DEF RunnerTyped
<1> QED BY <1>1, <1>2 DEF LineInv, At

\* A call whose row, processes and timer stand, and one that gets its turn.
LEMMA CallStands ==
    ASSUME RunnerInv, NEW d \in Calls, clock' = clock,
           child'[d] = child[d], kin'[d] = kin[d], escalation'[d] = escalation[d],
           \/ call'[d] = call[d]
           \/ /\ call[d].at = "waiting" /\ call'[d].at = "acquired"
              /\ call'[d].answer = call[d].answer
    PROVE  CallInv(d)'
<1>1. CallInv(d)
  BY DEF RunnerInv
<1>2. CASE call'[d] = call[d]
  BY <1>1, <1>2 DEF CallInv, At, Terminal
<1>3. CASE call[d].at = "waiting" /\ call'[d].at = "acquired" /\ call'[d].answer = call[d].answer
  BY <1>1, <1>3 DEF CallInv, At, Terminal, Early
<1> QED BY <1>2, <1>3

LEMMA EndsAndReleases ==
    ASSUME RunnerInv, NEW c \in Calls, call[c].at \in Holding, NEW answer \in Answers,
           EndAndRelease(c, answer)
    PROVE  /\ LineInv' /\ call' \in [Calls -> Calling] /\ waiting' \in Seq(Calls) /\ active' \in Int
           /\ call'[c].at = "ended" /\ call'[c].answer = answer
           /\ \A d \in Calls \ {c} :
                 \/ call'[d] = call[d]
                 \/ /\ call[d].at = "waiting" /\ call'[d].at = "acquired"
                    /\ call'[d].answer = call[d].answer
<1>1. RunnerTyped /\ LineInv
  BY DEF RunnerInv
<1>2. waiting \in Seq(Calls) /\ active \in Int /\ call \in [Calls -> Calling]
  BY <1>1 DEF RunnerTyped
<1> DEFINE moved == Moved(c, "ended", answer)
<1>3. /\ moved \in [Calls -> Calling] /\ moved[c].at = "ended" /\ moved[c].answer = answer
      /\ \A d \in Calls : d # c => moved[d] = call[d]
  BY <1>1, MovedTo DEF Steps
<1>4. c \in SlotHolders /\ "ended" \notin Holding /\ "waiting" \notin Holding
      /\ "acquired" \in Holding
  BY DEF SlotHolders, Holding
<1>5. CASE waiting = <<>>
  <2>1. call' = moved /\ active' = active - 1 /\ waiting' = <<>>
    BY <1>5 DEF EndAndRelease, MoveWith
  <2> HIDE DEF moved
  <2>2. SlotHolders' = SlotHolders \ {c}
    BY <1>3, <1>4, <2>1 DEF SlotHolders
  <2>3. IsFiniteSet(SlotHolders') /\ Cardinality(SlotHolders') = Cardinality(SlotHolders) - 1
    BY <1>1, <1>4, <2>2, FS_RemoveElement DEF LineInv
  <2>4. LineInv'
    BY <1>1, <1>2, <2>1, <2>3, SlotsAreNumbers DEF LineInv
  <2> QED BY <1>2, <1>3, <1>5, <2>1, <2>4
<1>6. CASE waiting # <<>>
  <2> DEFINE h == Head(waiting)
  <2>1. /\ h \in Calls /\ Tail(waiting) \in Seq(Calls) /\ Len(Tail(waiting)) = Len(waiting) - 1
        /\ \A i \in 1..Len(Tail(waiting)) : Tail(waiting)[i] = waiting[i + 1]
    BY <1>2, <1>6, HeadTailProperties
  <2>2. h = waiting[1] /\ Len(waiting) \in Nat \ {0}
    BY <1>2, <1>6, EmptySeq
  <2>3. call[h].at = "waiting"
    BY <1>1, <2>2 DEF LineInv, At
  <2>4. h # c /\ h \notin SlotHolders
    BY <1>4, <2>3 DEF SlotHolders, Holding
  <2> HIDE DEF h
  <2>5. call' = [moved EXCEPT ![h].at = "acquired"] /\ active' = active
        /\ waiting' = Tail(waiting)
    BY <1>6 DEF EndAndRelease, h
  <2> HIDE DEF moved
  <2>6. call' \in [Calls -> Calling] /\ call'[h].at = "acquired" /\ call'[c] = moved[c]
        /\ call'[h].answer = call[h].answer
        /\ \A d \in Calls : d # c /\ d # h => call'[d] = call[d]
    <3>1. "acquired" \in Steps
      BY DEF Steps
    <3> QED BY <1>3, <2>1, <2>4, <2>5, <3>1 DEF Calling
  <2>7. SlotHolders' = (SlotHolders \ {c}) \cup {h}
    BY <1>3, <1>4, <2>1, <2>4, <2>6 DEF SlotHolders
  <2>8. IsFiniteSet(SlotHolders') /\ Cardinality(SlotHolders') = Cardinality(SlotHolders)
    <3>1. IsFiniteSet(SlotHolders \ {c})
          /\ Cardinality(SlotHolders \ {c}) = Cardinality(SlotHolders) - 1
      BY <1>1, <1>4, FS_RemoveElement DEF LineInv
    <3>2. IsFiniteSet(SlotHolders')
          /\ Cardinality(SlotHolders') = Cardinality(SlotHolders \ {c}) + 1
      BY <2>4, <2>7, <3>1, FS_AddElement
    <3>3. Cardinality(SlotHolders) \in Int
      BY <1>1, <1>2 DEF LineInv
    <3> QED BY <3>1, <3>2, <3>3
  <2>9. LineInv'
    <3>1. \A i \in 1..Len(waiting') : /\ i \in 1..Len(waiting) /\ i + 1 \in 1..Len(waiting)
                                      /\ waiting'[i] = waiting[i + 1]
      BY <2>1, <2>2, <2>5
    <3>2. \A i, j \in 1..Len(waiting) : waiting[i] = waiting[j] => i = j
      BY <1>1 DEF LineInv
    <3>3. \A i, j \in 1..Len(waiting') : waiting'[i] = waiting'[j] => i = j
      <4> TAKE i, j \in 1..Len(waiting')
      <4> HAVE waiting'[i] = waiting'[j]
      <4>1. i + 1 = j + 1
        BY <3>1, <3>2
      <4> QED BY <4>1
    <3>4. \A i \in 1..Len(waiting') : call'[waiting'[i]].at = "waiting"
      <4> TAKE i \in 1..Len(waiting')
      <4>1. waiting'[i] \in Calls /\ call[waiting'[i]].at = "waiting"
        BY <1>1, <1>2, <3>1 DEF LineInv, At
      <4>2. waiting'[i] # h
        <5>1. i + 1 # 1
          OBVIOUS
        <5>2. 1 \in 1..Len(waiting)
          BY <2>2
        <5> QED BY <2>2, <3>1, <3>2, <5>1, <5>2
      <4>3. waiting'[i] # c
        BY <4>1, <1>4
      <4>4. call'[waiting'[i]] = call[waiting'[i]]
        BY <2>6, <4>1, <4>2, <4>3
      <4> QED BY <4>1, <4>4
    <3>5. waiting' # <<>> => active' = MaxConcurrency
      BY <1>1, <1>6, <2>5 DEF LineInv
    <3>6. active' = Cardinality(SlotHolders')
      BY <1>1, <2>5, <2>8 DEF LineInv
    <3>7. active' <= MaxConcurrency
      BY <1>1, <2>5 DEF LineInv
    <3> QED BY <2>8, <3>3, <3>4, <3>5, <3>6, <3>7 DEF LineInv, At
  <2> QED BY <1>2, <1>3, <2>1, <2>3, <2>5, <2>6, <2>9
<1> QED BY <1>5, <1>6

LEMMA RunnerTypes ==
    ASSUME RunnerInv
    PROVE  /\ RunnerTyped /\ LineInv /\ clock \in Nat /\ active \in Int /\ waiting \in Seq(Calls)
           /\ call \in [Calls -> Calling]
           /\ child \in [Calls -> {"none", "up", "asked", "gone"}]
           /\ kin \in [Calls -> {"none", "holding", "quiet"}]
           /\ escalation \in [Calls -> Nat]
           /\ \A c \in Calls : CallInv(c)
BY DEF RunnerInv, RunnerTyped

\* A call that goes from one held step to another.
LEMMA StepsOn ==
    ASSUME RunnerInv, NEW c \in Calls, call[c].at \in Holding,
           NEW step \in Holding, NEW answer \in Answers,
           MoveWith(c, step, answer), UNCHANGED <<active, waiting>>
    PROVE  /\ LineInv' /\ call' \in [Calls -> Calling]
           /\ call'[c].at = step /\ call'[c].answer = answer
           /\ call'[c].deadline = call[c].deadline
           /\ \A d \in Calls \ {c} : call'[d] = call[d]
<1>1. step \in Steps /\ step # "ended" /\ step # "waiting" /\ call[c].at # "waiting"
  BY DEF Holding, Steps
<1>2. /\ call' \in [Calls -> Calling]
      /\ call'[c].at = step /\ call'[c].answer = answer /\ call'[c].deadline = call[c].deadline
      /\ \A d \in Calls : d # c => call'[d] = call[d]
  BY <1>1, MovedTo, RunnerTypes DEF MoveWith
<1>3. \A d \in Calls : /\ (call'[d].at \in Holding) = (call[d].at \in Holding)
                       /\ call[d].at = "waiting" => call'[d].at = "waiting"
  BY <1>1, <1>2
<1>4. LineInv'
  BY <1>3, SlotsStand, RunnerTypes
<1> QED BY <1>2, <1>4

LEMMA RequestKeepsInv == ASSUME RunnerInv, NEW c \in Calls, Request(c) PROVE RunnerInv'
<1>1. /\ call[c].at = "idle" /\ UNCHANGED <<clock, child, kin, escalation, directory>>
      /\ clock + TimeoutMs \in Nat /\ {"acquired", "waiting"} \subseteq Steps
      /\ "waiting" \notin Holding /\ "idle" \notin Holding /\ "acquired" \in Holding
  BY RunnerTypes, SlotsAreNumbers DEF Request, At, Steps, Holding
<1> DEFINE deadline == clock + TimeoutMs
<1>2. deadline \in Nat
  BY <1>1
<1>3. CallInv(c)' /\ (\A d \in Calls : d # c => call'[d] = call[d])
      /\ call' \in [Calls -> Calling]
      /\ call'[c].at = IF active < MaxConcurrency THEN "acquired" ELSE "waiting"
  <2>1. \E at \in {"acquired", "waiting"} :
          /\ at = IF active < MaxConcurrency THEN "acquired" ELSE "waiting"
          /\ call' = [[call EXCEPT ![c].deadline = deadline] EXCEPT ![c].at = at]
    BY DEF Request
  <2> HIDE DEF deadline
  <2>2. PICK at \in {"acquired", "waiting"} :
          /\ at = IF active < MaxConcurrency THEN "acquired" ELSE "waiting"
          /\ call' = [[call EXCEPT ![c].deadline = deadline] EXCEPT ![c].at = at]
    BY <2>1
  <2>3. /\ call'[c].at = at /\ call'[c].answer = call[c].answer /\ call' \in [Calls -> Calling]
        /\ \A d \in Calls : d # c => call'[d] = call[d]
    <3>1. call \in [Calls -> Calling]
      BY RunnerTypes
    <3>2. at \in Steps
      BY <1>1
    <3> QED BY <1>2, <2>2, <3>1, <3>2 DEF Calling
  <2>4. call[c].answer = "none" /\ child[c] = "none" /\ kin[c] = "none"
    BY <1>1, RunnerTypes DEF CallInv, Early
  <2> QED BY <1>1, <2>2, <2>3, <2>4 DEF CallInv, At, Terminal, Early
<1>4. \A d \in Calls : CallInv(d)'
  BY <1>1, <1>3, CallStands
<1>5. RunnerTyped' /\ LineInv'
  <2>1. CASE active < MaxConcurrency
    <3>1. active' = active + 1 /\ waiting' = waiting
      BY <2>1 DEF Request
    <3>2. SlotHolders' = SlotHolders \cup {c} /\ c \notin SlotHolders
      BY <1>1, <1>3, <2>1 DEF SlotHolders
    <3>3. IsFiniteSet(SlotHolders') /\ Cardinality(SlotHolders') = Cardinality(SlotHolders) + 1
      BY <3>2, RunnerTypes, FS_AddElement DEF LineInv
    <3>4. waiting = <<>>
      BY <2>1, RunnerTypes, SlotsAreNumbers DEF LineInv
    <3>5. LineInv'
      BY <2>1, <3>1, <3>3, <3>4, RunnerTypes, SlotsAreNumbers DEF LineInv
    <3> QED BY <1>1, <1>3, <3>1, <3>5, RunnerTypes DEF RunnerTyped
  <2>2. CASE ~(active < MaxConcurrency)
    <3>1. active' = active /\ waiting' = Append(waiting, c)
      BY <2>2 DEF Request
    <3>2. /\ waiting' \in Seq(Calls) /\ Len(waiting') = Len(waiting) + 1
          /\ waiting'[Len(waiting) + 1] = c /\ Len(waiting) \in Nat
          /\ \A i \in 1..Len(waiting) : waiting'[i] = waiting[i] /\ waiting[i] \in Calls
      BY <3>1, RunnerTypes
    <3>3. SlotHolders' = SlotHolders
      BY <1>1, <1>3, <2>2 DEF SlotHolders
    <3>4. active = MaxConcurrency
      BY <2>2, RunnerTypes, SlotsAreNumbers DEF LineInv
    <3>5. \A i \in 1..Len(waiting) : call[waiting[i]].at = "waiting" /\ waiting[i] # c
      BY <1>1, RunnerTypes DEF LineInv, At
    <3>6. \A i \in 1..Len(waiting') : call'[waiting'[i]].at = "waiting"
      BY <1>3, <2>2, <3>2, <3>5
    <3>7. \A i, j \in 1..Len(waiting') : waiting'[i] = waiting'[j] => i = j
      <4>1. \A i, j \in 1..Len(waiting) : waiting[i] = waiting[j] => i = j
        BY RunnerTypes DEF LineInv
      <4> QED BY <3>2, <3>5, <4>1
    <3>8. LineInv'
      BY <3>1, <3>3, <3>4, <3>6, <3>7, RunnerTypes DEF LineInv, At
    <3> QED BY <1>1, <1>3, <3>1, <3>2, <3>8, RunnerTypes DEF RunnerTyped
  <2> QED BY <2>1, <2>2
<1> QED BY <1>4, <1>5 DEF RunnerInv

\* The line without one of its places.
LEMMA OnePlaceLess ==
    ASSUME RunnerTyped, NEW i \in 1..Len(waiting)
    PROVE  /\ RemoveAt(waiting, i) \in Seq(Calls)
           /\ Len(RemoveAt(waiting, i)) = Len(waiting) - 1
           /\ \A j \in 1..(Len(waiting) - 1) :
                 RemoveAt(waiting, i)[j] = waiting[IF j < i THEN j ELSE j + 1]
<1>1. waiting \in Seq(Calls) /\ Len(waiting) \in Nat /\ \A j \in 1..Len(waiting) : waiting[j] \in Calls
  BY DEF RunnerTyped
<1> DEFINE l == SubSeq(waiting, 1, i - 1)
           r == SubSeq(waiting, i + 1, Len(waiting))
<1>2. l \in Seq(Calls) /\ Len(l) = i - 1 /\ \A j \in 1..(i - 1) : l[j] = waiting[j]
  BY <1>1, SubSeqProperties
<1>3. r \in Seq(Calls) /\ Len(r) = Len(waiting) - i
      /\ \A j \in 1..(Len(waiting) - i) : r[j] = waiting[i + j]
  BY <1>1, SubSeqProperties
<1>4. RemoveAt(waiting, i) = l \o r
  BY DEF RemoveAt
<1> HIDE DEF l, r
<1>5. /\ l \o r \in Seq(Calls) /\ Len(l \o r) = Len(l) + Len(r)
      /\ \A j \in 1..(Len(l) + Len(r)) : (l \o r)[j] = IF j <= Len(l) THEN l[j] ELSE r[j - Len(l)]
  BY <1>2, <1>3, ConcatProperties
<1>6. \A j \in 1..(Len(waiting) - 1) : (l \o r)[j] = waiting[IF j < i THEN j ELSE j + 1]
  <2> TAKE j \in 1..(Len(waiting) - 1)
  <2>1. CASE j < i
    BY <1>1, <1>2, <1>3, <1>5, <2>1
  <2>2. CASE ~(j < i)
    <3>1. (l \o r)[j] = r[j - (i - 1)] /\ j - (i - 1) \in 1..(Len(waiting) - i)
      BY <1>1, <1>2, <1>3, <1>5, <2>2
    <3>2. r[j - (i - 1)] = waiting[i + (j - (i - 1))] /\ i + (j - (i - 1)) = j + 1
      BY <1>1, <1>3, <3>1
    <3> QED BY <2>2, <3>1, <3>2
  <2> QED BY <2>1, <2>2
<1> QED BY <1>1, <1>2, <1>3, <1>4, <1>5, <1>6

LEMMA WaitTimesOutKeepsInv == ASSUME RunnerInv, NEW c \in Calls, WaitTimesOut(c) PROVE RunnerInv'
<1>1. /\ call[c].at = "waiting" /\ UNCHANGED <<clock, active, child, kin, escalation, directory>>
      /\ call' = Moved(c, "ended", "timeout")
      /\ {"ended", "timeout"} \subseteq Steps \cup Answers
      /\ "ended" \in Steps /\ "timeout" \in Answers
      /\ "waiting" \notin Holding /\ "ended" \notin Holding
  BY DEF WaitTimesOut, MoveWith, At, Steps, Answers, Holding
<1>2. /\ call' \in [Calls -> Calling] /\ call'[c].at = "ended" /\ call'[c].answer = "timeout"
      /\ \A d \in Calls : d # c => call'[d] = call[d]
  BY <1>1, MovedTo, RunnerTypes
<1>3. PICK i \in 1..Len(waiting) : waiting[i] = c /\ waiting' = RemoveAt(waiting, i)
  BY RunnerTypes DEF WaitTimesOut
<1>4. /\ waiting' \in Seq(Calls) /\ Len(waiting') = Len(waiting) - 1 /\ Len(waiting) \in Nat
      /\ \A j \in 1..(Len(waiting) - 1) : waiting'[j] = waiting[IF j < i THEN j ELSE j + 1]
  <2>1. RunnerTyped /\ Len(waiting) \in Nat
    BY RunnerTypes
  <2>2. /\ RemoveAt(waiting, i) \in Seq(Calls)
        /\ Len(RemoveAt(waiting, i)) = Len(waiting) - 1
        /\ \A j \in 1..(Len(waiting) - 1) :
              RemoveAt(waiting, i)[j] = waiting[IF j < i THEN j ELSE j + 1]
    BY <2>1, OnePlaceLess
  <2> QED BY <1>3, <2>1, <2>2
<1>5. /\ \A j \in 1..Len(waiting) : call[waiting[j]].at = "waiting" /\ waiting[j] \in Calls
      /\ \A j, k \in 1..Len(waiting) : waiting[j] = waiting[k] => j = k
  BY RunnerTypes DEF LineInv, At
<1>6. \A j \in 1..Len(waiting') : \E k \in 1..Len(waiting) :
          waiting'[j] = waiting[k] /\ k # i /\ k = IF j < i THEN j ELSE j + 1
  BY <1>4
<1>7. \A j \in 1..Len(waiting') : call'[waiting'[j]].at = "waiting"
  BY <1>2, <1>3, <1>5, <1>6
<1>8. \A j, k \in 1..Len(waiting') : waiting'[j] = waiting'[k] => j = k
  BY <1>4, <1>5, <1>6
<1>9. SlotHolders' = SlotHolders
  BY <1>1, <1>2 DEF SlotHolders
<1>10. waiting # <<>>
  BY <1>3, EmptySeq
<1>11. LineInv'
  BY <1>1, <1>7, <1>8, <1>9, <1>10, RunnerTypes DEF LineInv, At
<1>12. CallInv(c)'
  <2>1. child[c] = "none" /\ kin[c] = "none"
    BY <1>1, RunnerTypes DEF CallInv, Early
  <2> QED BY <1>1, <1>2, <2>1 DEF CallInv, At, Terminal, Early
<1>13. \A d \in Calls : CallInv(d)'
  BY <1>1, <1>2, <1>12, CallStands
<1> QED BY <1>1, <1>2, <1>4, <1>11, <1>13, RunnerTypes DEF RunnerInv, RunnerTyped

LEMMA EndsKeepInv ==
    ASSUME RunnerInv, NEW c \in Calls, Enter(c) \/ MakeDirectory(c) \/ CleanUp(c)
    PROVE  RunnerInv'
<1>1. call[c].at \in Holding /\ call[c].answer \in Answers
      /\ {"timeout", "setup", "none"} \subseteq Answers /\ {"setup", "write", "clean"} \subseteq Holding
  BY RunnerTypes DEF Enter, MakeDirectory, CleanUp, At, Holding, Calling, Answers
<1>2. /\ clock' = clock /\ child' = child /\ kin' = kin
      /\ escalation' \in [Calls -> Nat] /\ \A d \in Calls \ {c} : escalation'[d] = escalation[d]
  <2>1. escalation' = escalation \/ escalation' = [escalation EXCEPT ![c] = 0]
    BY DEF Enter, MakeDirectory, CleanUp
  <2>2. clock' = clock /\ child' = child /\ kin' = kin
    BY DEF Enter, MakeDirectory, CleanUp
  <2> QED BY <2>1, <2>2, RunnerTypes
<1>3. ASSUME NEW answer \in Answers, EndAndRelease(c, answer),
             \/ child[c] = "none" /\ kin[c] = "none"
             \/ /\ call[c].at = "clean"
                /\ answer = call[c].answer \/ answer = "setup"
      PROVE  RunnerInv'
  <2>1. /\ LineInv' /\ call' \in [Calls -> Calling] /\ waiting' \in Seq(Calls) /\ active' \in Int
        /\ call'[c].at = "ended" /\ call'[c].answer = answer
        /\ \A d \in Calls \ {c} :
              \/ call'[d] = call[d]
              \/ /\ call[d].at = "waiting" /\ call'[d].at = "acquired"
                 /\ call'[d].answer = call[d].answer
    BY <1>1, <1>3, EndsAndReleases
  <2>2. CallInv(c)'
    <3>1. CallInv(c)
      BY RunnerTypes
    <3> QED BY <1>2, <1>3, <2>1, <3>1 DEF CallInv, At, Terminal, Early
  <2>3. \A d \in Calls : CallInv(d)'
    BY <1>2, <2>1, <2>2, CallStands
  <2> QED BY <1>2, <2>1, <2>3, RunnerTypes DEF RunnerInv, RunnerTyped
<1>4. ASSUME NEW step \in {"setup", "write"}, Move(c, step), UNCHANGED <<active, waiting, escalation>>,
             call[c].at \in Early
      PROVE  RunnerInv'
  <2>1. /\ LineInv' /\ call' \in [Calls -> Calling]
        /\ call'[c].at = step /\ call'[c].answer = call[c].answer
        /\ \A d \in Calls \ {c} : call'[d] = call[d]
    BY <1>1, <1>4, StepsOn DEF Move, MoveWith
  <2>2. CallInv(c)'
    BY <1>2, <1>4, <2>1, RunnerTypes DEF CallInv, At, Terminal, Early
  <2>3. \A d \in Calls : CallInv(d)'
    BY <1>2, <1>4, <2>1, <2>2, CallStands
  <2> QED BY <1>2, <1>4, <2>1, <2>3, RunnerTypes DEF RunnerInv, RunnerTyped
<1>5. CASE Enter(c)
  <2>1. call[c].at \in Early /\ child[c] = "none" /\ kin[c] = "none"
    BY <1>5, RunnerTypes DEF Enter, At, CallInv, Early
  <2> QED BY <1>1, <1>3, <1>4, <1>5, <2>1 DEF Enter
<1>6. CASE MakeDirectory(c)
  <2>1. call[c].at \in Early /\ child[c] = "none" /\ kin[c] = "none"
    BY <1>6, RunnerTypes DEF MakeDirectory, At, CallInv, Early
  <2> QED BY <1>1, <1>3, <1>4, <1>6, <2>1 DEF MakeDirectory
<1>7. CASE CleanUp(c)
  <2>1. \E answer \in Answers : EndAndRelease(c, answer) /\ (answer = call[c].answer \/ answer = "setup")
    BY <1>1, <1>7 DEF CleanUp
  <2> QED BY <1>3, <1>7, <2>1 DEF CleanUp, At
<1> QED BY <1>5, <1>6, <1>7

\* A step of a call that keeps its slot.
LEMMA HeldStep ==
    ASSUME RunnerInv, NEW c \in Calls, call[c].at \in Holding,
           NEW step \in Holding, NEW answer \in Answers,
           MoveWith(c, step, answer), UNCHANGED <<clock, active, waiting>>,
           child' \in [Calls -> {"none", "up", "asked", "gone"}],
           kin' \in [Calls -> {"none", "holding", "quiet"}],
           escalation' \in [Calls -> Nat],
           \A d \in Calls \ {c} : /\ child'[d] = child[d] /\ kin'[d] = kin[d]
                                  /\ escalation'[d] = escalation[d],
           step \in Early => child'[c] = "none" /\ kin'[c] = "none" /\ answer = "none",
           (step = "run" /\ answer \notin {"timeout", "output_limit"}) => clock <= call[c].deadline,
           (step = "run" /\ answer \in {"timeout", "output_limit"}) =>
               /\ clock <= escalation'[c]
               /\ escalation'[c] <= call[c].deadline + TerminationGrace,
           step = "clean" =>
               /\ child'[c] \in {"none", "gone"}
               /\ kin'[c] # "none" => kin'[c] = "quiet" /\ answer \notin {"timeout", "output_limit"}
    PROVE  RunnerInv'
<1>1. /\ LineInv' /\ call' \in [Calls -> Calling]
      /\ call'[c].at = step /\ call'[c].answer = answer /\ call'[c].deadline = call[c].deadline
      /\ \A d \in Calls \ {c} : call'[d] = call[d]
  BY StepsOn
<1>2. step # "ended"
  BY DEF Holding
<1>3. CallInv(c)'
  BY <1>1, <1>2 DEF CallInv, At, Terminal
<1>4. \A d \in Calls : CallInv(d)'
  BY <1>1, <1>3, CallStands
<1> QED BY <1>1, <1>4, RunnerTypes DEF RunnerInv, RunnerTyped

LEMMA Words == /\ {"spawn", "run", "clean"} \subseteq Holding
               /\ {"spawn", "run", "clean"} \cap Early = {"spawn"}
               /\ Answers = {"none", "ok", "invalid", "timeout", "output_limit", "spawn", "setup"}
BY DEF Holding, Early, Answers

LEMMA WriteKeepsInv == ASSUME RunnerInv, NEW c \in Calls, WriteSchema(c) PROVE RunnerInv'
<1>1. /\ call[c].at = "write" /\ call[c].at \in Holding /\ call[c].at \in Early
      /\ UNCHANGED <<clock, active, waiting, child, kin, escalation, directory>>
  BY DEF WriteSchema, At, Holding, Early
<1>2. child[c] = "none" /\ kin[c] = "none" /\ call[c].answer = "none"
  BY <1>1, RunnerTypes DEF CallInv
<1>3. MoveWith(c, "spawn", "none") \/ MoveWith(c, "clean", "setup")
  BY <1>2 DEF WriteSchema, Move, MoveWith
<1>4. /\ child' \in [Calls -> {"none", "up", "asked", "gone"}]
      /\ kin' \in [Calls -> {"none", "holding", "quiet"}] /\ escalation' \in [Calls -> Nat]
  BY <1>1, RunnerTypes
<1>5. CASE MoveWith(c, "spawn", "none")
  BY <1>1, <1>2, <1>4, <1>5, HeldStep, Words
<1>6. CASE MoveWith(c, "clean", "setup")
  BY <1>1, <1>2, <1>4, <1>6, HeldStep, Words
<1> QED BY <1>3, <1>5, <1>6

LEMMA SpawnKeepsInv == ASSUME RunnerInv, NEW c \in Calls, Spawn(c) PROVE RunnerInv'
<1>1. /\ call[c].at = "spawn" /\ call[c].at \in Holding /\ call[c].at \in Early
      /\ UNCHANGED <<clock, active, waiting, kin, escalation, directory>>
  BY DEF Spawn, At, Holding, Early
<1>2. /\ child[c] = "none" /\ kin[c] = "none" /\ call[c].answer = "none"
      /\ clock \in Nat /\ call[c].deadline \in Nat
  BY <1>1, RunnerTypes DEF CallInv, Calling
<1>3. /\ child' \in [Calls -> {"none", "up", "asked", "gone"}]
      /\ kin' \in [Calls -> {"none", "holding", "quiet"}] /\ escalation' \in [Calls -> Nat]
      /\ \A d \in Calls \ {c} : child'[d] = child[d] /\ kin'[d] = kin[d] /\ escalation'[d] = escalation[d]
  BY <1>1, RunnerTypes DEF Spawn
<1>4. \/ \E answer \in {"timeout", "spawn"} : MoveWith(c, "clean", answer) /\ child' = child
      \/ MoveWith(c, "run", "none") /\ call[c].deadline > clock
  BY <1>2 DEF Spawn, Move, MoveWith
<1>5. ASSUME NEW answer \in {"timeout", "spawn"}, MoveWith(c, "clean", answer), child' = child
      PROVE  RunnerInv'
  BY <1>1, <1>2, <1>3, <1>5, HeldStep, Words
<1>6. CASE MoveWith(c, "run", "none") /\ call[c].deadline > clock
  BY <1>1, <1>2, <1>3, <1>6, HeldStep, Words
<1> QED BY <1>4, <1>5, <1>6

LEMMA TerminateKeepsInv ==
    ASSUME RunnerInv, NEW c \in Calls, RunTimesOut(c) \/ OutputLimit(c) PROVE RunnerInv'
<1>1. PICK reason \in {"timeout", "output_limit"} : Terminate(c, reason)
  BY DEF RunTimesOut, OutputLimit
<1>2. /\ call[c].at = "run" /\ ~Terminal(c) /\ call[c].at \in Holding
      /\ MoveWith(c, "run", reason) /\ UNCHANGED <<clock, active, waiting, kin, directory>>
      /\ child' = [child EXCEPT ![c] = IF @ = "up" THEN "asked" ELSE @]
      /\ escalation' = [escalation EXCEPT ![c] = clock + TerminationGrace]
  BY <1>1 DEF Terminate, At, Holding
<1>3. /\ clock <= call[c].deadline /\ clock \in Nat /\ call[c].deadline \in Nat
      /\ TerminationGrace \in Nat
  BY <1>2, RunnerTypes, SlotsAreNumbers DEF CallInv, At, Calling
<1>4. clock + TerminationGrace \in Nat /\ clock <= clock + TerminationGrace
      /\ clock + TerminationGrace <= call[c].deadline + TerminationGrace
  BY <1>3
<1>5. /\ child' \in [Calls -> {"none", "up", "asked", "gone"}]
      /\ kin' \in [Calls -> {"none", "holding", "quiet"}] /\ escalation' \in [Calls -> Nat]
      /\ escalation'[c] = clock + TerminationGrace
      /\ \A d \in Calls \ {c} : child'[d] = child[d] /\ kin'[d] = kin[d] /\ escalation'[d] = escalation[d]
  BY <1>2, <1>4, RunnerTypes
<1> QED BY <1>2, <1>4, <1>5, HeldStep, Words

LEMMA CloseKeepsInv ==
    ASSUME RunnerInv, NEW c \in Calls, Escalate(c) \/ Close(c) PROVE RunnerInv'
<1>1. /\ call[c].at = "run" /\ call[c].at \in Holding /\ call[c].answer \in Answers
      /\ UNCHANGED <<clock, active, waiting, escalation, directory>>
  BY RunnerTypes DEF Escalate, Close, At, Holding, Calling
<1>2. /\ child' \in [Calls -> {"none", "up", "asked", "gone"}]
      /\ kin' \in [Calls -> {"none", "holding", "quiet"}] /\ escalation' \in [Calls -> Nat]
      /\ \A d \in Calls \ {c} : child'[d] = child[d] /\ kin'[d] = kin[d] /\ escalation'[d] = escalation[d]
  BY <1>1, RunnerTypes DEF Escalate, Close, KillGroup
<1>3. PICK answer \in Answers :
        /\ MoveWith(c, "clean", answer)
        /\ \/ KillGroup(c)
           \/ /\ answer \notin {"timeout", "output_limit"}
              /\ child[c] = "gone" /\ kin[c] # "holding" /\ UNCHANGED <<child, kin>>
  BY <1>1, Words DEF Escalate, Close, Move, MoveWith, Terminal
<1>4. /\ child'[c] = "gone"
      /\ kin'[c] # "none" => kin'[c] = "quiet" /\ answer \notin {"timeout", "output_limit"}
  <2>1. CASE KillGroup(c)
    BY <2>1, RunnerTypes DEF KillGroup
  <2>2. CASE ~KillGroup(c)
    <3>1. kin[c] \in {"none", "holding", "quiet"}
      BY RunnerTypes
    <3> QED BY <1>3, <2>2, <3>1
  <2> QED BY <2>1, <2>2
<1> QED BY <1>1, <1>2, <1>3, <1>4, HeldStep, Words

\* Processes come and go by themselves, and time goes on.
LEMMA OutsideKeepsInv ==
    ASSUME RunnerInv,
           (\E c \in Calls : Forks(c) \/ ChildExits(c) \/ KinExits(c)) \/ RunnerTick
    PROVE  RunnerInv'
<1>1. UNCHANGED <<active, waiting, call, escalation, directory>>
  BY DEF Forks, ChildExits, KinExits, RunnerTick
<1>2. RunnerTyped'
  <2>1. CASE RunnerTick
    BY <1>1, <2>1, RunnerTypes DEF RunnerTick, RunnerTyped
  <2>2. ASSUME NEW c \in Calls, Forks(c) \/ ChildExits(c) \/ KinExits(c) PROVE RunnerTyped'
    <3>1. clock' = clock /\ (child' = child \/ child' = [child EXCEPT ![c] = "gone"])
          /\ (kin' = kin \/ \E k \in {"none", "holding", "quiet"} : kin' = [kin EXCEPT ![c] = k])
      BY <2>2 DEF Forks, ChildExits, KinExits
    <3> QED BY <1>1, <3>1, RunnerTypes DEF RunnerTyped
  <2> QED BY <2>1, <2>2
<1>3. LineInv'
  BY <1>1, RunnerTypes DEF LineInv, SlotHolders, At
<1>4. ASSUME NEW d \in Calls PROVE CallInv(d)'
  <2>1. CallInv(d)
    BY RunnerTypes
  <2>2. CASE RunnerTick
    <3>1. /\ clock' = clock + 1 /\ child' = child /\ kin' = kin /\ clock \in Nat
          /\ call[d].deadline \in Nat /\ escalation[d] \in Nat
          /\ At(d, "run") => clock < IF Terminal(d) THEN escalation[d] ELSE call[d].deadline
      BY <2>2, RunnerTypes DEF RunnerTick, Punctual, Calling
    <3> QED BY <1>1, <2>1, <3>1 DEF CallInv, At, Terminal, Early
  <2>3. ASSUME NEW c \in Calls, Forks(c) \/ ChildExits(c) \/ KinExits(c) PROVE CallInv(d)'
    <3>1. clock' = clock
      BY <2>3 DEF Forks, ChildExits, KinExits
    <3>2. CASE d # c
      BY <1>1, <2>1, <2>3, <3>1, <3>2, RunnerTypes DEF CallInv, At, Terminal, Forks, ChildExits, KinExits
    <3>3. CASE d = c
      <4>1. /\ child'[d] = child[d] \/ (child'[d] = "gone" /\ child[d] # "none")
            /\ kin'[d] = kin[d] \/ kin'[d] = "none" \/ call[d].at = "run"
        <5>1. CASE Forks(c)
          BY <3>3, <5>1 DEF Forks, At
        <5>2. CASE ChildExits(c)
          BY <3>3, <5>2, RunnerTypes DEF ChildExits
        <5>3. CASE KinExits(c)
          <6>1. kin \in [Calls -> {"none", "holding", "quiet"}]
            BY RunnerTypes
          <6>2. kin' = [kin EXCEPT ![d] = "none"] /\ child' = child
            BY <3>3, <5>3 DEF KinExits
          <6> QED BY <6>1, <6>2
        <5> QED BY <2>3, <5>1, <5>2, <5>3
      <4> QED BY <1>1, <2>1, <3>1, <4>1 DEF CallInv, At, Terminal, Early
    <3> QED BY <3>2, <3>3
  <2> QED BY <2>2, <2>3
<1> QED BY <1>2, <1>3, <1>4 DEF RunnerInv

LEMMA RunnerInvStep == RunnerInv /\ [RunnerNext]_runnerVars => RunnerInv'
<1> SUFFICES ASSUME RunnerInv, [RunnerNext]_runnerVars PROVE RunnerInv'
  OBVIOUS
<1>1. CASE RunnerNext
  BY <1>1, RequestKeepsInv, WaitTimesOutKeepsInv, EndsKeepInv, WriteKeepsInv,
     SpawnKeepsInv, TerminateKeepsInv, CloseKeepsInv, OutsideKeepsInv
     DEF RunnerNext, CallStep
<1>2. CASE UNCHANGED runnerVars
  BY <1>2 DEF runnerVars, RunnerInv, RunnerTyped, LineInv, CallInv, SlotHolders, At, Terminal
<1> QED BY <1>1, <1>2

LEMMA RunnerInvariance == RunnerSpec => []RunnerInv
BY RunnerInvInit, RunnerInvStep, PTL DEF RunnerSpec

\* The semaphore's count is the calls that hold a slot, and nobody waits while one
\* is free, whatever times out, fails or is handed over (Semaphore.acquire,
\* release; for every number of calls and of slots).
THEOREM SlotsAreNeverLost == RunnerSpec => []SlotsAreConserved
<1>1. RunnerInv => SlotsAreConserved
  <2> SUFFICES ASSUME RunnerInv PROVE SlotsAreConserved
    OBVIOUS
  <2>1. DOMAIN waiting = 1..Len(waiting)
    BY RunnerTypes
  <2> QED BY <2>1, RunnerTypes DEF LineInv, SlotHolders, SlotsAreConserved
<1> QED BY <1>1, RunnerInvariance, PTL

\* A run is over by its budget's end and the grace, and the CLI is gone with it; a
\* call that was ended by force leaves nobody of its group, and one that ended by
\* itself at most a descendant that let go of the output (runStructured,
\* NodeProcessRunner.run; for every number of calls, of slots and every budget).
THEOREM ForceLeavesNobody == RunnerSpec => []ForcedEndsLeaveNobody
<1>1. RunnerInv => ForcedEndsLeaveNobody
  <2> SUFFICES ASSUME RunnerInv, NEW c \in Calls
               PROVE  /\ At(c, "run") => clock <= call[c].deadline + TerminationGrace
                      /\ ~At(c, "run") => child[c] \in {"none", "gone"}
                      /\ (~At(c, "run") /\ kin[c] # "none") => (kin[c] = "quiet" /\ ~Terminal(c))
    BY DEF ForcedEndsLeaveNobody
  <2>1. /\ CallInv(c) /\ clock \in Nat /\ call[c].deadline \in Nat /\ escalation[c] \in Nat
        /\ TerminationGrace \in Nat /\ call[c].at \in Steps
    BY RunnerTypes, SlotsAreNumbers DEF Calling
  <2>2. ~At(c, "run") => call[c].at \in Early \cup {"clean", "ended"}
    BY <2>1 DEF At, Steps, Early
  <2> QED BY <2>1, <2>2 DEF CallInv
<1> QED BY <1>1, RunnerInvariance, PTL

-----------------------------------------------------------------------------
(* The chat window (DesktopWindow). *)

CallerRows == [deadline: Nat, told: {"idle", "waiting", "ok", "invalid", "timeout", "surface"},
               read: {"none", "part", "whole"}, from: Prompts]
TurnRows == [step: {"start", "open", "mode", "model", "submit", "await", "restore", "judge"},
             attempt: 1..2, toggled: BOOLEAN, outcome: {"none", "timeout", "surface"},
             saw: BOOLEAN, read: {"none", "part", "whole"}, from: Prompts]
ChatRows == [temporary: BOOLEAN, prompt: Prompts, answer: {"none", "part", "whole"}, still: Nat]

WindowTyped ==
    /\ time \in Nat /\ label \in BOOLEAN
    /\ queue \in Seq(Callers)
    /\ caller \in [Callers -> CallerRows]
    /\ turn \in TurnRows
    /\ chat \in ChatRows

\* Nobody is in the queue twice, and who is there listens or was released at the
\* deadline that his turn will find spent.
QueueInv ==
    /\ queue = <<>> => turn.step = "start"
    /\ \A i, j \in 1..Len(queue) : queue[i] = queue[j] => i = j
    /\ \A i \in 1..Len(queue) :
          \/ caller[queue[i]].told = "waiting"
          \/ caller[queue[i]].told = "timeout" /\ time >= caller[queue[i]].deadline
    /\ StartedTurnsAreHeard

\* Up to the submit the chat is empty, from there on its prompt is the turn's,
\* and what was read is the whole of the answer to it.
TurnInv ==
    /\ turn.step \in {"mode", "model", "submit"} => chat.prompt = NoPrompt /\ chat.answer = "none"
    /\ turn.step = "await" => chat.prompt.of = NextTurn /\ chat.prompt # NoPrompt
    /\ (turn.step = "judge" \/ (turn.step = "restore" /\ turn.outcome = "none")) =>
          turn.from.of = NextTurn /\ turn.read = "whole"
    /\ turn.saw => label

\* Half an answer has not stood still for longer than the app pauses.
PauseInv == chat.answer = "part" => chat.still <= LongestPause

WindowInv == WindowTyped /\ QueueInv /\ TurnInv /\ PauseInv /\ AnswersAreOwnAndWhole

LEMMA WindowNumbers ==
    /\ Budget \in Nat \ {0} /\ Quiet \in Nat \ {0} /\ LongestPause \in Nat \ {0}
    /\ 4 * Quiet \in Nat /\ LongestPause < 4 * Quiet
<1>1. Budget \in Nat \ {0} /\ Quiet \in Nat \ {0} /\ LongestPause \in Nat \ {0} /\ LongestPause < 4 * Quiet
  BY WindowAssumption
<1> QED BY <1>1

LEMMA WindowTypes ==
    ASSUME WindowInv
    PROVE  /\ time \in Nat /\ label \in BOOLEAN /\ queue \in Seq(Callers)
           /\ caller \in [Callers -> CallerRows] /\ turn \in TurnRows /\ chat \in ChatRows
           /\ QueueInv /\ TurnInv /\ PauseInv /\ AnswersAreOwnAndWhole
BY DEF WindowInv, WindowTyped

LEMMA NoPromptTyped == NoPrompt \in Prompts /\ NoTurn \in TurnRows
<1>1. NoPrompt \in Prompts
  BY DEF NoPrompt, Prompts
<1> QED BY <1>1 DEF NoTurn, TurnRows

LEMMA NewChats ==
    ASSUME NEW mode \in BOOLEAN
    PROVE  /\ NewChat(mode) \in ChatRows
           /\ NewChat(mode).prompt = NoPrompt /\ NewChat(mode).answer = "none"
BY NoPromptTyped DEF NewChat, ChatRows

LEMMA HeadOfQueue ==
    ASSUME WindowInv, queue # <<>>
    PROVE  /\ NextTurn \in Callers /\ NextTurn = queue[1] /\ Len(queue) \in Nat \ {0}
           /\ Tail(queue) \in Seq(Callers) /\ Len(Tail(queue)) = Len(queue) - 1
           /\ \A i \in 1..Len(Tail(queue)) : Tail(queue)[i] = queue[i + 1]
           /\ \A i \in 1..Len(queue) : queue[i] \in Callers
BY WindowTypes, EmptySeq, HeadTailProperties DEF NextTurn

LEMMA WindowInvInit == WindowInit => WindowInv
<1> SUFFICES ASSUME WindowInit PROVE WindowInv
  OBVIOUS
<1>1. PICK mode \in BOOLEAN : chat = NewChat(mode)
  BY DEF WindowInit
<1>2. turn = NoTurn /\ queue = <<>> /\ time = 0 /\ label \in BOOLEAN
      /\ caller \in [Callers -> CallerRows] /\ \A c \in Callers : caller[c].told = "idle"
  BY NoPromptTyped DEF WindowInit, CallerRows
<1>3. turn.step = "start" /\ ~turn.saw
  BY <1>2 DEF NoTurn
<1>4. WindowTyped
  BY <1>1, <1>2, NewChats, NoPromptTyped DEF WindowTyped
<1>5. QueueInv
  BY <1>2, <1>3 DEF QueueInv, StartedTurnsAreHeard
<1>6. TurnInv /\ PauseInv
  BY <1>1, <1>3, NewChats DEF TurnInv, PauseInv
<1>7. AnswersAreOwnAndWhole
  BY <1>2 DEF AnswersAreOwnAndWhole
<1> QED BY <1>4, <1>5, <1>6, <1>7 DEF WindowInv

\* The turn ends: its caller is told, if he still listens, and the next one in the
\* queue has not started.
LEMMA EndsTurn ==
    ASSUME WindowInv, queue # <<>>, NEW told \in {"ok", "invalid", "timeout", "surface"},
           EndTurn(told), told = "ok" => turn.from.of = NextTurn /\ turn.read = "whole",
           UNCHANGED <<time, label>>, chat' \in ChatRows, PauseInv'
    PROVE  WindowInv'
<1> DEFINE h == NextTurn
           read == IF told = "ok" THEN turn.read ELSE "none"
           from == IF told = "ok" THEN turn.from ELSE NoPrompt
<1>1. /\ h \in Callers /\ h = queue[1] /\ Len(queue) \in Nat \ {0}
      /\ Tail(queue) \in Seq(Callers) /\ Len(Tail(queue)) = Len(queue) - 1
      /\ \A i \in 1..Len(Tail(queue)) : Tail(queue)[i] = queue[i + 1]
      /\ \A i \in 1..Len(queue) : queue[i] \in Callers
  BY HeadOfQueue
<1>2. read \in {"none", "part", "whole"} /\ from \in Prompts
      /\ (told = "ok" => from.of = h /\ read = "whole")
  BY WindowTypes, NoPromptTyped DEF TurnRows
<1>3. /\ queue' = Tail(queue) /\ turn' = NoTurn
      /\ caller' = [caller EXCEPT ![h] = IF @.told # "waiting" THEN @
                                         ELSE [@ EXCEPT !.told = told, !.read = read, !.from = from]]
  BY DEF EndTurn
<1>4. caller[h] \in CallerRows /\ caller \in [Callers -> CallerRows]
  BY <1>1, WindowTypes
<1> HIDE DEF h, read, from
<1> DEFINE row == IF caller[h].told # "waiting" THEN caller[h]
                  ELSE [caller[h] EXCEPT !.told = told, !.read = read, !.from = from]
<1>5. row \in CallerRows
      /\ (row.told = "ok" => row = caller[h] \/ (row.from = from /\ row.read = read /\ told = "ok"))
  BY <1>2, <1>4 DEF CallerRows
<1>6. caller' = [caller EXCEPT ![h] = row]
  BY <1>3
<1> HIDE DEF row
<1>7. caller' \in [Callers -> CallerRows] /\ caller'[h] = row
      /\ \A d \in Callers : d # h => caller'[d] = caller[d]
  BY <1>1, <1>4, <1>5, <1>6
<1>8. WindowTyped'
  BY <1>1, <1>3, <1>7, NoPromptTyped, WindowTypes DEF WindowTyped
<1>9. turn'.step = "start" /\ ~turn'.saw
  BY <1>3 DEF NoTurn
<1>10. QueueInv'
  <2>1. \A i \in 1..Len(queue') : i \in 1..Len(queue) /\ i + 1 \in 1..Len(queue)
                                  /\ queue'[i] = queue[i + 1]
    BY <1>1, <1>3
  <2>2. \A i, j \in 1..Len(queue) : queue[i] = queue[j] => i = j
    BY WindowTypes DEF QueueInv
  <2>3. \A i, j \in 1..Len(queue') : queue'[i] = queue'[j] => i = j
    <3> TAKE i, j \in 1..Len(queue')
    <3> HAVE queue'[i] = queue'[j]
    <3>1. i + 1 = j + 1
      BY <2>1, <2>2
    <3> QED BY <3>1
  <2>4. \A i \in 1..Len(queue') : queue'[i] \in Callers /\ queue'[i] # h
    <3> TAKE i \in 1..Len(queue')
    <3>1. i + 1 # 1 /\ 1 \in 1..Len(queue)
      BY <1>1
    <3> QED BY <1>1, <2>1, <2>2, <3>1
  <2>5. \A i \in 1..Len(queue') :
          \/ caller'[queue'[i]].told = "waiting"
          \/ caller'[queue'[i]].told = "timeout" /\ time' >= caller'[queue'[i]].deadline
    <3> TAKE i \in 1..Len(queue')
    <3>1. caller'[queue'[i]] = caller[queue[i + 1]] /\ i + 1 \in 1..Len(queue)
      BY <1>7, <2>1, <2>4
    <3>2. \/ caller[queue[i + 1]].told = "waiting"
          \/ caller[queue[i + 1]].told = "timeout" /\ time >= caller[queue[i + 1]].deadline
      BY <3>1, WindowTypes DEF QueueInv
    <3> QED BY <3>1, <3>2
  <2> QED BY <1>9, <2>3, <2>5 DEF QueueInv, StartedTurnsAreHeard
<1>11. TurnInv'
  BY <1>9 DEF TurnInv
<1>12. AnswersAreOwnAndWhole'
  BY <1>2, <1>5, <1>7, WindowTypes DEF AnswersAreOwnAndWhole
<1> QED BY <1>8, <1>10, <1>11, <1>12 DEF WindowInv

\* The turn goes on.
LEMMA TurnGoesOn ==
    ASSUME WindowInv, queue # <<>>, UNCHANGED <<time, queue, caller, label>>,
           turn.step = "start" => caller[NextTurn].told = "waiting",
           turn' \in TurnRows, chat' \in ChatRows, TurnInv', PauseInv'
    PROVE  WindowInv'
<1>1. WindowTyped'
  BY WindowTypes DEF WindowTyped
<1>2. caller[NextTurn].told = "waiting"
  BY WindowTypes DEF QueueInv, StartedTurnsAreHeard
<1>3. QueueInv'
  BY <1>2, WindowTypes DEF QueueInv, StartedTurnsAreHeard, NextTurn
<1>4. AnswersAreOwnAndWhole'
  BY WindowTypes DEF AnswersAreOwnAndWhole
<1> QED BY <1>1, <1>3, <1>4 DEF WindowInv

LEMMA QueueTurnKeeps == ASSUME WindowInv, NEW c \in Callers, QueueTurn(c) PROVE WindowInv'
<1> DEFINE deadline == time + Budget
<1>1. /\ caller[c].told = "idle" /\ UNCHANGED <<time, turn, chat, label>>
      /\ caller' = [caller EXCEPT ![c].told = "waiting", ![c].deadline = deadline]
      /\ queue' = Append(queue, c)
  BY DEF QueueTurn
<1>2. deadline \in Nat /\ caller \in [Callers -> CallerRows] /\ queue \in Seq(Callers)
  BY WindowTypes, WindowNumbers
<1> HIDE DEF deadline
<1>3. /\ caller' \in [Callers -> CallerRows] /\ caller'[c].told = "waiting"
      /\ \A d \in Callers : d # c => caller'[d] = caller[d]
  BY <1>1, <1>2 DEF CallerRows
<1>4. /\ queue' \in Seq(Callers) /\ Len(queue') = Len(queue) + 1 /\ Len(queue) \in Nat
      /\ queue'[Len(queue) + 1] = c
      /\ \A i \in 1..Len(queue) : queue'[i] = queue[i] /\ queue[i] \in Callers
  BY <1>1, <1>2
<1>5. \A i \in 1..Len(queue) : queue[i] # c
  BY <1>1, WindowTypes DEF QueueInv
<1>6. queue' # <<>> /\ Head(queue') = queue'[1]
  BY <1>1, <1>4
<1>7. WindowTyped'
  BY <1>1, <1>3, <1>4, WindowTypes DEF WindowTyped
<1>8. CASE queue = <<>>
  <2>1. turn'.step = "start" /\ (turn.saw => label)
    BY <1>1, <1>8, WindowTypes DEF QueueInv, TurnInv
  <2>2. Len(queue) = 0
    BY <1>8
  <2>3. QueueInv'
    BY <1>3, <1>4, <1>6, <2>1, <2>2 DEF QueueInv, StartedTurnsAreHeard
  <2>4. TurnInv' /\ PauseInv'
    BY <1>1, <2>1, WindowTypes DEF TurnInv, PauseInv
  <2>5. AnswersAreOwnAndWhole'
    BY <1>3, WindowTypes DEF AnswersAreOwnAndWhole
  <2> QED BY <1>7, <2>3, <2>4, <2>5 DEF WindowInv
<1>9. CASE queue # <<>>
  <2>1. Len(queue) >= 1 /\ NextTurn' = NextTurn /\ NextTurn \in Callers /\ NextTurn # c
    BY <1>4, <1>5, <1>6, <1>9, HeadOfQueue DEF NextTurn
  <2>2. QueueInv'
    <3>1. \A i, j \in 1..Len(queue') : queue'[i] = queue'[j] => i = j
      <4>1. \A i, j \in 1..Len(queue) : queue[i] = queue[j] => i = j
        BY WindowTypes DEF QueueInv
      <4> QED BY <1>4, <1>5, <4>1
    <3>2. \A i \in 1..Len(queue') :
            \/ caller'[queue'[i]].told = "waiting"
            \/ caller'[queue'[i]].told = "timeout" /\ time' >= caller'[queue'[i]].deadline
      <4> TAKE i \in 1..Len(queue')
      <4>1. CASE i = Len(queue) + 1
        BY <1>3, <1>4, <4>1
      <4>2. CASE i \in 1..Len(queue)
        <5>1. caller'[queue'[i]] = caller[queue[i]]
          BY <1>3, <1>4, <1>5, <4>2
        <5> QED BY <1>1, <4>2, <5>1, WindowTypes DEF QueueInv
      <4> QED BY <1>4, <4>1, <4>2
    <3>3. StartedTurnsAreHeard'
      BY <1>1, <1>3, <1>9, <2>1, WindowTypes DEF QueueInv, StartedTurnsAreHeard
    <3> QED BY <1>6, <3>1, <3>2, <3>3 DEF QueueInv
  <2>3. TurnInv' /\ PauseInv'
    BY <1>1, <2>1, WindowTypes DEF TurnInv, PauseInv
  <2>4. AnswersAreOwnAndWhole'
    BY <1>3, WindowTypes DEF AnswersAreOwnAndWhole
  <2> QED BY <1>7, <2>2, <2>3, <2>4 DEF WindowInv
<1> QED BY <1>8, <1>9

LEMMA ReleaseKeeps == ASSUME WindowInv, NEW c \in Callers, ReleaseWhileQueued(c) PROVE WindowInv'
<1>1. /\ caller[c].told = "waiting" /\ time >= caller[c].deadline
      /\ UNCHANGED <<time, queue, turn, chat, label>>
      /\ caller' = [caller EXCEPT ![c].told = "timeout"]
      /\ c # NextTurn \/ turn.step = "start"
  BY DEF ReleaseWhileQueued
<1>2. /\ caller' \in [Callers -> CallerRows] /\ caller'[c].told = "timeout"
      /\ caller'[c].deadline = caller[c].deadline
      /\ \A d \in Callers : d # c => caller'[d] = caller[d]
  BY <1>1, WindowTypes DEF CallerRows
<1>3. \A i \in 1..Len(queue) : queue[i] \in Callers
  BY WindowTypes
<1>4. QueueInv'
  <2>1. \A i \in 1..Len(queue) :
          \/ caller'[queue[i]].told = "waiting"
          \/ caller'[queue[i]].told = "timeout" /\ time >= caller'[queue[i]].deadline
    BY <1>1, <1>2, <1>3, WindowTypes DEF QueueInv
  <2>2. StartedTurnsAreHeard'
    <3> SUFFICES ASSUME queue # <<>>, turn.step # "start" PROVE caller'[NextTurn].told = "waiting"
      BY <1>1 DEF StartedTurnsAreHeard, NextTurn
    <3> QED BY <1>1, <1>2, HeadOfQueue, WindowTypes DEF QueueInv, StartedTurnsAreHeard
  <2> QED BY <1>1, <2>1, <2>2, WindowTypes DEF QueueInv
<1>5. WindowTyped' /\ PauseInv' /\ AnswersAreOwnAndWhole'
  BY <1>1, <1>2, WindowTypes DEF WindowTyped, PauseInv, AnswersAreOwnAndWhole
<1>6. TurnInv'
  BY <1>1, WindowTypes DEF TurnInv, NextTurn
<1> QED BY <1>4, <1>5, <1>6 DEF WindowInv

LEMMA StartKeeps == ASSUME WindowInv, StartTurn PROVE WindowInv'
<1>1. queue # <<>> /\ turn.step = "start" /\ UNCHANGED <<time, chat, label>>
  BY DEF StartTurn, AtStep
<1>2. chat' \in ChatRows /\ PauseInv'
  BY <1>1, WindowTypes DEF PauseInv
<1>3. CASE Spent
  BY <1>1, <1>2, <1>3, EndsTurn DEF StartTurn
<1>4. CASE ~Spent
  <2>1. turn' = [turn EXCEPT !.step = "open"] /\ UNCHANGED <<queue, caller>>
    BY <1>4 DEF StartTurn, GoTo
  <2>2. turn' \in TurnRows /\ turn'.step = "open" /\ turn'.saw = turn.saw
    BY <2>1, WindowTypes DEF TurnRows
  <2>3. caller[NextTurn].told = "waiting"
    <3>1. NextTurn = queue[1] /\ 1 \in 1..Len(queue)
      BY <1>1, HeadOfQueue
    <3> QED BY <1>4, <3>1, WindowTypes DEF QueueInv, Spent
  <2>4. TurnInv'
    BY <1>1, <2>2, WindowTypes DEF TurnInv
  <2> QED BY <1>1, <1>2, <2>1, <2>2, <2>3, <2>4, TurnGoesOn
<1> QED BY <1>3, <1>4

LEMMA JudgeKeeps == ASSUME WindowInv, Judge PROVE WindowInv'
<1>1. queue # <<>> /\ turn.step = "judge" /\ UNCHANGED <<time, chat, label>>
  BY DEF Judge, AtStep
<1>2. /\ chat' \in ChatRows /\ PauseInv'
      /\ turn.from.of = NextTurn /\ turn.read = "whole"
  BY <1>1, WindowTypes DEF PauseInv, TurnInv
<1>3. CASE EndTurn("ok") \/ EndTurn("invalid")
  BY <1>1, <1>2, <1>3, EndsTurn
<1>4. CASE turn' = [NoTurn EXCEPT !.step = "open", !.attempt = 2] /\ UNCHANGED <<queue, caller>>
  <2>1. turn' \in TurnRows /\ turn'.step = "open" /\ ~turn'.saw
    <3>1. NoTurn \in TurnRows /\ ~NoTurn.saw /\ 2 \in 1..2
      BY NoPromptTyped DEF NoTurn
    <3> QED BY <1>4, <3>1 DEF TurnRows
  <2>2. TurnInv'
    BY <2>1 DEF TurnInv
  <2> QED BY <1>1, <1>2, <1>4, <2>1, <2>2, TurnGoesOn
<1> QED BY <1>3, <1>4 DEF Judge

LEMMA OpenKeeps == ASSUME WindowInv, OpenChat PROVE WindowInv'
<1>1. queue # <<>> /\ turn.step = "open" /\ UNCHANGED <<time, label>>
  BY DEF OpenChat, AtStep
<1>2. CASE EndTurn("surface") /\ UNCHANGED chat
  <2>1. chat' \in ChatRows /\ PauseInv'
    BY <1>2, WindowTypes DEF PauseInv
  <2> QED BY <1>1, <1>2, <2>1, EndsTurn
<1>3. CASE GoTo("mode") /\ chat' = NewChat(chat.temporary) /\ UNCHANGED <<queue, caller>>
  <2>1. chat.temporary \in BOOLEAN
    BY WindowTypes DEF ChatRows
  <2>2. /\ chat' \in ChatRows /\ chat'.prompt = NoPrompt /\ chat'.answer = "none"
    BY <1>3, <2>1, NewChats
  <2>3. turn' \in TurnRows /\ turn'.step = "mode" /\ turn'.saw = turn.saw
    BY <1>3, WindowTypes DEF GoTo, TurnRows
  <2>4. TurnInv' /\ PauseInv'
    BY <1>1, <2>2, <2>3, WindowTypes DEF TurnInv, PauseInv
  <2> QED BY <1>1, <1>3, <2>2, <2>3, <2>4, TurnGoesOn
<1> QED BY <1>2, <1>3 DEF OpenChat

LEMMA ModeKeeps == ASSUME WindowInv, SetTemporary PROVE WindowInv'
<1>1. queue # <<>> /\ turn.step = "mode" /\ UNCHANGED <<time, label>>
  BY DEF SetTemporary, AtStep
<1>2. chat.prompt = NoPrompt /\ chat.answer = "none"
  BY <1>1, WindowTypes DEF TurnInv
<1>3. CASE EndTurn("surface") /\ UNCHANGED chat
  <2>1. chat' \in ChatRows /\ PauseInv'
    BY <1>3, WindowTypes DEF PauseInv
  <2> QED BY <1>1, <1>3, <2>1, EndsTurn
<1>4. CASE UNCHANGED <<queue, caller>> /\ chat' \in {chat, [chat EXCEPT !.temporary = TRUE]}
           /\ (GoTo("model") \/ turn' = [turn EXCEPT !.step = "model", !.toggled = TRUE])
  <2>1. chat' \in ChatRows /\ chat'.prompt = NoPrompt /\ chat'.answer = "none"
    BY <1>2, <1>4, WindowTypes DEF ChatRows
  <2>2. turn' \in TurnRows /\ turn'.step = "model" /\ turn'.saw = turn.saw
    BY <1>4, WindowTypes DEF GoTo, TurnRows
  <2>3. TurnInv' /\ PauseInv'
    BY <1>1, <2>1, <2>2, WindowTypes DEF TurnInv, PauseInv
  <2> QED BY <1>1, <1>4, <2>1, <2>2, <2>3, TurnGoesOn
<1> QED BY <1>3, <1>4 DEF SetTemporary

\* A turn that fails goes to restore with its outcome.
LEMMA FailKeeps ==
    ASSUME WindowInv, queue # <<>>, turn.step # "start", NEW outcome \in {"timeout", "surface"},
           Fail(outcome), UNCHANGED <<time, queue, caller, chat, label>>
    PROVE  WindowInv'
<1>1. turn' \in TurnRows /\ turn'.step = "restore" /\ turn'.outcome = outcome
      /\ turn'.saw = turn.saw
  BY WindowTypes DEF Fail, TurnRows
<1>2. TurnInv' /\ PauseInv' /\ chat' \in ChatRows
  BY <1>1, WindowTypes DEF TurnInv, PauseInv
<1> QED BY <1>1, <1>2, TurnGoesOn

LEMMA ConfirmKeeps == ASSUME WindowInv, Confirm PROVE WindowInv'
<1>1. queue # <<>> /\ turn.step = "model" /\ UNCHANGED <<time, queue, caller, chat, label>>
  BY DEF Confirm, AtStep
<1>2. CASE GoTo("submit")
  <2>1. turn' \in TurnRows /\ turn'.step = "submit" /\ turn'.saw = turn.saw
    BY <1>2, WindowTypes DEF GoTo, TurnRows
  <2>2. TurnInv' /\ PauseInv' /\ chat' \in ChatRows
    BY <1>1, <2>1, WindowTypes DEF TurnInv, PauseInv
  <2> QED BY <1>1, <2>1, <2>2, TurnGoesOn
<1>3. CASE Fail("surface")
  BY <1>1, <1>3, FailKeeps
<1> QED BY <1>2, <1>3 DEF Confirm

LEMMA SubmitKeeps == ASSUME WindowInv, Submit PROVE WindowInv'
<1>1. queue # <<>> /\ turn.step = "submit" /\ UNCHANGED <<time, queue, caller, label>>
  BY DEF Submit, AtStep
<1>2. chat.prompt = NoPrompt /\ chat.answer = "none"
  BY <1>1, WindowTypes DEF TurnInv
<1>3. CASE (Fail("surface") \/ Fail("timeout")) /\ UNCHANGED chat
  BY <1>1, <1>3, FailKeeps
<1>4. CASE GoTo("await") /\ chat' = [chat EXCEPT !.still = 0, !.prompt =
                        IF @ = NoPrompt THEN [of |-> NextTurn, attempt |-> turn.attempt] ELSE @]
  <2> DEFINE prompt == [of |-> NextTurn, attempt |-> turn.attempt]
  <2>1. prompt \in Prompts
    BY <1>1, HeadOfQueue, WindowTypes DEF Prompts, TurnRows
  <2>2. prompt.of = NextTurn /\ prompt # NoPrompt
    <3>1. prompt.attempt # 0
      BY WindowTypes DEF TurnRows
    <3> QED BY <3>1 DEF NoPrompt
  <2> HIDE DEF prompt
  <2>3. chat' = [chat EXCEPT !.still = 0, !.prompt = prompt]
    BY <1>2, <1>4 DEF prompt
  <2>4. /\ chat' \in ChatRows /\ chat'.prompt = prompt /\ chat'.answer = "none"
    BY <1>2, <2>1, <2>3, WindowTypes DEF ChatRows
  <2>5. turn' \in TurnRows /\ turn'.step = "await" /\ turn'.saw = turn.saw
    BY <1>4, WindowTypes DEF GoTo, TurnRows
  <2>6. NextTurn' = NextTurn
    BY <1>1 DEF NextTurn
  <2>7. TurnInv' /\ PauseInv'
    BY <1>1, <2>2, <2>4, <2>5, <2>6, WindowTypes DEF TurnInv, PauseInv
  <2> QED BY <1>1, <2>4, <2>5, <2>7, TurnGoesOn
<1>5. \/ (Fail("surface") \/ Fail("timeout")) /\ UNCHANGED chat
      \/ GoTo("await") /\ chat' = [chat EXCEPT !.still = 0, !.prompt =
                        IF @ = NoPrompt THEN [of |-> NextTurn, attempt |-> turn.attempt] ELSE @]
  <2>1. CASE Spent
    BY <1>2, <2>1 DEF Submit
  <2>2. CASE ~Spent
    BY <1>2, <2>2 DEF Submit
  <2> QED BY <2>1, <2>2
<1> QED BY <1>3, <1>4, <1>5

LEMMA AwaitKeeps == ASSUME WindowInv, SeeGenerating \/ TakeAnswer \/ GiveUpWaiting PROVE WindowInv'
<1>1. queue # <<>> /\ turn.step = "await" /\ UNCHANGED <<time, queue, caller, chat, label>>
  BY DEF SeeGenerating, TakeAnswer, GiveUpWaiting, AtStep
<1>2. /\ chat.prompt.of = NextTurn /\ chat.prompt # NoPrompt
      /\ (turn.saw => label) /\ NextTurn' = NextTurn
  BY <1>1, WindowTypes DEF TurnInv, NextTurn
<1>3. chat' \in ChatRows /\ PauseInv'
  BY <1>1, WindowTypes DEF PauseInv
<1>4. CASE SeeGenerating
  <2>1. turn' \in TurnRows /\ turn'.step = "await" /\ label
    BY <1>1, <1>4, WindowTypes DEF SeeGenerating, TurnRows, Generating
  <2>2. TurnInv'
    BY <1>1, <1>2, <2>1 DEF TurnInv
  <2> QED BY <1>1, <1>3, <2>1, <2>2, TurnGoesOn
<1>5. CASE TakeAnswer
  <2>1. chat.answer = "whole"
    <3> SUFFICES ASSUME chat.answer = "part" PROVE FALSE
      BY <1>5, WindowTypes DEF TakeAnswer, ChatRows
    <3>1. chat.prompt # NoPrompt
      BY <1>2
    <3>2. ~label /\ ~turn.saw
      BY <1>2, <1>5, <3>1 DEF TakeAnswer, Generating
    <3>3. chat.still >= 4 * Quiet /\ chat.still <= LongestPause /\ chat.still \in Nat
      BY <1>5, <3>2, WindowTypes DEF TakeAnswer, Patience, PauseInv, ChatRows
    <3> QED BY <3>3, WindowNumbers
  <2>2. turn' \in TurnRows /\ turn'.step = "restore" /\ turn'.read = "whole"
        /\ turn'.from = chat.prompt /\ turn'.saw = turn.saw
    BY <1>5, <2>1, WindowTypes DEF TakeAnswer, TurnRows, ChatRows
  <2>3. TurnInv'
    BY <1>1, <1>2, <2>2 DEF TurnInv
  <2> QED BY <1>1, <1>3, <2>2, <2>3, TurnGoesOn
<1>6. CASE GiveUpWaiting
  BY <1>1, <1>6, FailKeeps DEF GiveUpWaiting
<1> QED BY <1>4, <1>5, <1>6

LEMMA RestoreKeeps == ASSUME WindowInv, Restore PROVE WindowInv'
<1>1. queue # <<>> /\ turn.step = "restore" /\ UNCHANGED <<time, label>>
  BY DEF Restore, AtStep
<1>2. chat' = chat \/ \E mode \in BOOLEAN : chat' = NewChat(mode)
  <2>1. chat.temporary \in BOOLEAN
    BY WindowTypes DEF ChatRows
  <2> QED BY <2>1 DEF Restore
<1>3. chat' \in ChatRows /\ PauseInv'
  BY <1>2, NewChats, WindowTypes DEF PauseInv
<1>4. CASE turn.outcome = "none"
  <2>1. turn' = [turn EXCEPT !.step = "judge"] /\ UNCHANGED <<queue, caller>>
    BY <1>4 DEF Restore, GoTo
  <2>2. turn' \in TurnRows /\ turn'.step = "judge" /\ turn'.read = turn.read /\ turn'.from = turn.from
        /\ turn'.saw = turn.saw
    BY <2>1, WindowTypes DEF TurnRows
  <2>3. NextTurn' = NextTurn
    BY <2>1 DEF NextTurn
  <2>4. TurnInv'
    BY <1>1, <1>4, <2>2, <2>3, WindowTypes DEF TurnInv
  <2> QED BY <1>1, <1>3, <2>1, <2>2, <2>4, TurnGoesOn
<1>5. CASE turn.outcome # "none"
  <2>1. EndTurn(turn.outcome) /\ turn.outcome \in {"timeout", "surface"}
    BY <1>5, WindowTypes DEF Restore, TurnRows
  <2> QED BY <1>1, <1>3, <2>1, EndsTurn
<1> QED BY <1>4, <1>5

\* The app writes, and time passes.
LEMMA AppKeeps == ASSUME WindowInv, AppWrites \/ WindowTick PROVE WindowInv'
<1>1. UNCHANGED <<queue, caller, turn, label>> /\ time' \in Nat /\ time' >= time
  BY WindowTypes DEF AppWrites, WindowTick
<1>2. /\ chat' \in ChatRows /\ chat'.prompt = chat.prompt /\ PauseInv'
      /\ chat.prompt = NoPrompt => chat'.answer = chat.answer
  <2>1. CASE AppWrites
    <3> DEFINE answer == IF chat.answer = "none" THEN "part" ELSE "whole"
    <3>1. chat' = [chat EXCEPT !.answer = answer, !.still = 0] /\ chat.prompt # NoPrompt
      BY <2>1 DEF AppWrites
    <3>2. answer \in {"part", "whole"} /\ 0 \in Nat
      OBVIOUS
    <3> HIDE DEF answer
    <3>3. chat' \in ChatRows /\ chat'.still = 0 /\ chat'.prompt = chat.prompt
      BY <3>1, <3>2, WindowTypes DEF ChatRows
    <3> QED BY <3>1, <3>3, WindowNumbers DEF PauseInv
  <2>2. CASE WindowTick
    <3> DEFINE still == IF chat.answer = "none" \/ chat.still = 4 * Quiet THEN chat.still ELSE chat.still + 1
    <3>1. chat' = [chat EXCEPT !.still = still] /\ (chat.answer = "part" => chat.still < LongestPause)
      BY <2>2 DEF WindowTick
    <3>2. chat.still \in Nat /\ chat \in ChatRows
      BY WindowTypes DEF ChatRows
    <3>3. still \in Nat /\ (still = chat.still \/ still = chat.still + 1)
      BY <3>2
    <3> HIDE DEF still
    <3>4. chat' \in ChatRows /\ chat'.still = still /\ chat'.prompt = chat.prompt
          /\ chat'.answer = chat.answer
      BY <3>1, <3>2, <3>3 DEF ChatRows
    <3> QED BY <3>1, <3>2, <3>3, <3>4, WindowNumbers DEF PauseInv
  <2> QED BY <2>1, <2>2
<1>3. WindowTyped' /\ AnswersAreOwnAndWhole'
  BY <1>1, <1>2, WindowTypes DEF WindowTyped, AnswersAreOwnAndWhole
<1>4. QueueInv'
  <2>1. \A i \in 1..Len(queue) : queue[i] \in Callers /\ caller[queue[i]].deadline \in Nat
    BY WindowTypes DEF CallerRows
  <2>2. \A i \in 1..Len(queue) :
          \/ caller[queue[i]].told = "waiting"
          \/ caller[queue[i]].told = "timeout" /\ time' >= caller[queue[i]].deadline
    BY <1>1, <2>1, WindowTypes DEF QueueInv
  <2> QED BY <1>1, <2>2, WindowTypes DEF QueueInv, StartedTurnsAreHeard, NextTurn
<1>5. TurnInv'
  BY <1>1, <1>2, WindowTypes DEF TurnInv, NextTurn
<1> QED BY <1>2, <1>3, <1>4, <1>5 DEF WindowInv

LEMMA WindowInvStep == WindowInv /\ [WindowNext]_windowVars => WindowInv'
<1> SUFFICES ASSUME WindowInv, [WindowNext]_windowVars PROVE WindowInv'
  OBVIOUS
<1>1. CASE WindowNext
  BY <1>1, QueueTurnKeeps, ReleaseKeeps, StartKeeps, JudgeKeeps, OpenKeeps, ModeKeeps, ConfirmKeeps,
     SubmitKeeps, AwaitKeeps, RestoreKeeps, AppKeeps DEF WindowNext, TurnStep
<1>2. CASE UNCHANGED windowVars
  BY <1>2 DEF windowVars, WindowInv, WindowTyped, QueueInv, TurnInv, PauseInv, NextTurn,
     StartedTurnsAreHeard, AnswersAreOwnAndWhole
<1> QED BY <1>1, <1>2

LEMMA WindowInvariance == WindowSpec => []WindowInv
BY WindowInvInit, WindowInvStep, PTL DEF WindowSpec

\* Whatever a caller gets is the whole of the answer to its own prompt, though a
\* turn before it was given up while the app was answering and the sign that it
\* is may be missing (askChatGptDesktop, ChatGptDesktopStructuredAIProvider).
THEOREM AnswersBelongToTheirPrompt == WindowSpec => []AnswersAreOwnAndWhole
<1>1. WindowInv => AnswersAreOwnAndWhole
  BY DEF WindowInv
<1> QED BY <1>1, WindowInvariance, PTL

\* A turn that reached the composer has a caller that listens: one that was
\* released while it queued has nothing typed for it (releaseWhileQueued).
THEOREM StartedTurnsHaveAListener == WindowSpec => []StartedTurnsAreHeard
<1>1. WindowInv => StartedTurnsAreHeard
  BY DEF WindowInv, QueueInv
<1> QED BY <1>1, WindowInvariance, PTL
===============================================================================
