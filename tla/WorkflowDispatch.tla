-------------------------- MODULE WorkflowDispatch --------------------------
(***************************************************************************)
(* LocalWorkflowDispatcher.dispatch: requests that ask for the same work   *)
(* (a task and an idempotency key) meet in one row of workflow_events.     *)
(* Whoever inserts it runs the task; a later request runs it again only if *)
(* it failed, or if the row's start, which the runner renews, is older     *)
(* than the lease.  A request stands for its run id, "gone" for the id of  *)
(* a run that ended without being able to say so.                          *)
(***************************************************************************)
EXTENDS Naturals

CONSTANTS Requests,   \* the requests for the work
          LastAttempt \* bound: how often the row is taken over

ASSUME DispatchAssumption ==
    /\ LastAttempt \in Nat \ {0}
    /\ {"nobody", "gone"} \cap Requests = {}

VARIABLES event,      \* the row; recent while its start is within the lease
          request,    \* where each request is
          prior,      \* the attempt a request read in the row before taking it
          returned,   \* the run ids whose task has returned
          onTime      \* the renewals of a live run are never late (picked once)

dispatchVars == <<event, request, prior, returned, onTime>>

DispatchTypeOK ==
    /\ event \in [status: {"absent", "started", "failed", "succeeded"},
                  run: Requests \cup {"nobody", "gone"},
                  attempt: 0..LastAttempt, recent: BOOLEAN]
    /\ request \in [Requests -> {"idle", "retake", "execute", "succeed", "fail"}]
    /\ prior \in [Requests -> 0..LastAttempt]
    /\ returned \subseteq Requests
    /\ onTime \in BOOLEAN

DispatchInit ==
    /\ event = [status |-> "absent", run |-> "nobody", attempt |-> 0, recent |-> FALSE]
    /\ request = [r \in Requests |-> "idle"]
    /\ prior = [r \in Requests |-> 0]
    /\ returned = {}
    /\ onTime \in BOOLEAN

Proceed(r, at) == request' = [request EXCEPT ![r] = at]
Executing(r) == request[r] = "execute"
Alive(r) == request[r] \in {"execute", "succeed", "fail"}

Taken(r) == [status |-> "started", run |-> r, attempt |-> event.attempt + 1, recent |-> TRUE]

\* Failed, or started so long ago that its runner is taken for dead.
Abandoned ==
    \/ event.status = "failed"
    \/ event.status = "started" /\ ~event.recent

-----------------------------------------------------------------------------

Insert(r) ==
    /\ request[r] = "idle"
    /\ event.status = "absent"
    /\ event' = Taken(r)
    /\ returned' = returned \ {r}
    /\ Proceed(r, "execute")
    /\ UNCHANGED <<prior, onTime>>

\* The insert conflicts and the row is read: a duplicate of work that runs or
\* has succeeded is answered at once.
Read(r) ==
    /\ request[r] = "idle"
    /\ event.run # r
    /\ Abandoned /\ event.attempt < LastAttempt
    /\ prior' = [prior EXCEPT ![r] = event.attempt]
    /\ Proceed(r, "retake")
    /\ UNCHANGED <<event, returned, onTime>>

\* Mutant: whoever finds the work abandoned takes it, whatever happened since.
RetakeUnchecked(r) ==
    /\ request[r] = "retake"
    /\ event.attempt < LastAttempt
    /\ event' = Taken(r)
    /\ returned' = returned \ {r}
    /\ Proceed(r, "execute")
    /\ UNCHANGED <<prior, onTime>>

\* The update repeats the condition and adds the attempt that was read.
Retake(r) ==
    /\ request[r] = "retake"
    /\ IF Abandoned /\ event.attempt = prior[r]
       THEN /\ event' = Taken(r)
            /\ returned' = returned \ {r}
            /\ Proceed(r, "execute")
       ELSE /\ Proceed(r, "idle")
            /\ UNCHANGED <<event, returned>>
    /\ UNCHANGED <<prior, onTime>>

-----------------------------------------------------------------------------

Renew(r) ==
    /\ Alive(r)
    /\ event.run = r /\ event.status = "started" /\ ~event.recent
    /\ event' = [event EXCEPT !.recent = TRUE]
    /\ UNCHANGED <<request, prior, returned, onTime>>

LeaseRunsOut ==
    /\ event.status = "started" /\ event.recent
    /\ onTime => event.run = "gone"
    /\ event' = [event EXCEPT !.recent = FALSE]
    /\ UNCHANGED <<request, prior, returned, onTime>>

TaskReturns(r) ==
    /\ Executing(r)
    /\ returned' = returned \cup {r}
    /\ Proceed(r, "succeed")
    /\ UNCHANGED <<event, prior, onTime>>

TaskThrows(r) ==
    /\ Executing(r)
    /\ Proceed(r, "fail")
    /\ UNCHANGED <<event, prior, returned, onTime>>

\* Mutant: the row is found by its id, not by the run that holds it.
FinishUnfenced(r, status) ==
    /\ event' = [event EXCEPT !.status = status]
    /\ Proceed(r, "idle")
    /\ UNCHANGED <<prior, returned, onTime>>

\* Both writes are fenced on the run id and the started status.
Finish(r, status) ==
    /\ event' = IF event.run = r /\ event.status = "started"
                THEN [event EXCEPT !.status = status] ELSE event
    /\ Proceed(r, "idle")
    /\ UNCHANGED <<prior, returned, onTime>>

RecordSuccess(r) == request[r] = "succeed" /\ Finish(r, "succeeded")
RecordFailure(r) == request[r] = "fail" /\ Finish(r, "failed")

\* The success could not be written: the catch block calls it a failure.
SuccessNotRecorded(r) ==
    /\ request[r] = "succeed"
    /\ Proceed(r, "fail")
    /\ UNCHANGED <<event, prior, returned, onTime>>

\* The process is killed, or the failure cannot be written either.
Vanish(r) ==
    /\ Alive(r)
    /\ event' = IF event.run = r THEN [event EXCEPT !.run = "gone"] ELSE event
    /\ Proceed(r, "idle")
    /\ UNCHANGED <<prior, returned, onTime>>

RequestStep(r) ==
    \/ Insert(r) \/ Read(r) \/ Retake(r)
    \/ Renew(r)
    \/ TaskReturns(r) \/ TaskThrows(r)
    \/ RecordSuccess(r) \/ SuccessNotRecorded(r) \/ RecordFailure(r)
    \/ Vanish(r)

DispatchNext ==
    \/ \E r \in Requests : RequestStep(r)
    \/ LeaseRunsOut

DispatchSpec == DispatchInit /\ [][DispatchNext]_dispatchVars

-----------------------------------------------------------------------------

\* However many requests find the work abandoned at once, and whoever fails or
\* dies in between, the task runs once at a time as long as renewals are on
\* time.
OneRunAtATime ==
    onTime => \A q, r \in Requests : Executing(q) /\ Executing(r) => q = r

\* Work that is recorded as done was done by the run the row names: a run that
\* was taken over never answers for its successor, which may still be running.
SuccessIsTheRuns ==
    event.status = "succeeded" => event.run \in returned

=============================================================================
