----------------------------- MODULE LocalStack -----------------------------
(***************************************************************************)
(* The local stack: a supervisor that runs the web server and the          *)
(* maintenance worker as detached process groups, and the worker that asks *)
(* the web server for one cycle at a time.  Two ways of stopping may       *)
(* overlap: the orderly one the operator asks for, and the one that        *)
(* follows the unexpected exit of a child.                                 *)
(***************************************************************************)
EXTENDS Naturals, Sequences

VARIABLES proc,       \* what became of a child: asked has got the polite signal,
                      \* killed has got SIGKILL
          group,      \* descendants of a child that may outlive it
          ticking,    \* the worker's request for a cycle is in flight
          stopping,   \* per way of stopping: the child it is at and its patience
          pressed,    \* the interrupts the operator sent
          armed,      \* another interrupt would kill
          exitCode    \* what done resolved to, 255 while it has not

stackVars == <<proc, group, ticking, stopping, pressed, armed, exitCode>>

Children == {"worker", "web"}
Ways == {"orderly", "unexpected"}
Running == 255

StackTypeOK ==
    /\ proc \in [Children -> {"none", "up", "asked", "killed", "exited"}]
    /\ group \in [Children -> BOOLEAN]
    /\ ticking \in BOOLEAN
    /\ stopping \in [Ways -> [at: {"off", "begin", "grace", "kill", "over"},
                              queue: {<<>>, <<"worker">>, <<"web">>, <<"worker", "web">>,
                                      <<"web", "worker">>}]]
    /\ pressed \in 0..2
    /\ armed \in BOOLEAN
    /\ exitCode \in {0, 1, 130, Running}

\* The worker is not started when Trigger.dev or a setting owns the schedule.
StackInit ==
    /\ proc \in {[worker |-> w, web |-> "up"] : w \in {"none", "up"}}
    /\ group = [k \in Children |-> proc[k] = "up"]
    /\ ticking = FALSE
    /\ stopping = [w \in Ways |-> [at |-> "off", queue |-> <<>>]]
    /\ pressed = 0
    /\ armed = FALSE
    /\ exitCode = Running

Gone(k) == proc[k] \in {"none", "exited"}
ShuttingDown == \E w \in Ways : stopping[w].at # "off"

Begin(w, queue) == stopping' = [stopping EXCEPT ![w] = [at |-> "begin", queue |-> queue]]

-----------------------------------------------------------------------------
(* The children *)

\* offerTick: one request at a time, none once the worker is told to stop.
OfferTick ==
    /\ proc["worker"] = "up" /\ proc["web"] = "up"
    /\ ~ticking
    /\ ticking' = TRUE
    /\ UNCHANGED <<proc, group, stopping, pressed, armed, exitCode>>

TickReturns ==
    /\ ticking
    /\ ticking' = FALSE
    /\ UNCHANGED <<proc, group, stopping, pressed, armed, exitCode>>

Exit(k) ==
    /\ proc' = [proc EXCEPT ![k] = "exited"]
    /\ ticking' = IF k = "worker" THEN FALSE ELSE ticking

\* A child that was asked exits once it is done: the worker when its request has
\* been answered or, after its own grace, given up.
ExitsAsAsked(k) ==
    /\ proc[k] = "asked"
    /\ Exit(k)
    /\ UNCHANGED <<group, stopping, pressed, armed, exitCode>>

\* SIGKILL took the whole group.
DiesKilled(k) ==
    /\ proc[k] = "killed"
    /\ Exit(k)
    /\ UNCHANGED <<group, stopping, pressed, armed, exitCode>>

\* monitor: a child that exits while nothing is being stopped has what it left
\* reaped, and the other child is stopped.
ExitsUnexpectedly(k) ==
    /\ proc[k] = "up"
    /\ Exit(k)
    /\ IF ShuttingDown
       THEN UNCHANGED <<group, stopping>>
       ELSE /\ group' = [group EXCEPT ![k] = FALSE]
            /\ Begin("unexpected", IF k = "web" THEN <<"worker">> ELSE <<"web">>)
    /\ UNCHANGED <<pressed, armed, exitCode>>

-----------------------------------------------------------------------------
(* stopChild *)

Current(w) == stopping[w].queue[1]

\* The next child of the way, or done: the first to resolve it decides.
NextChild(w) ==
    IF Len(stopping[w].queue) = 1
    THEN /\ stopping' = [stopping EXCEPT ![w] = [at |-> "over", queue |-> <<>>]]
         /\ exitCode' = IF exitCode # Running THEN exitCode
                        ELSE IF w = "orderly" THEN 0 ELSE 1
    ELSE /\ Begin(w, Tail(stopping[w].queue))
         /\ UNCHANGED exitCode

Ask(w) ==
    /\ stopping[w].at = "begin"
    /\ ~Gone(Current(w))
    /\ proc' = [proc EXCEPT ![Current(w)] = IF @ = "up" THEN "asked" ELSE @]
    /\ stopping' = [stopping EXCEPT ![w].at = "grace"]
    /\ UNCHANGED <<group, ticking, pressed, armed, exitCode>>

\* Gone before it was asked or within its grace: what it left is reaped.
FoundGone(w) ==
    /\ stopping[w].at \in {"begin", "grace"}
    /\ Gone(Current(w))
    /\ group' = [group EXCEPT ![Current(w)] = FALSE]
    /\ NextChild(w)
    /\ UNCHANGED <<proc, ticking, pressed, armed>>

\* Mutant: nobody looks at the clock once the child was asked.
GraceIsEndless(w) == FALSE

GraceOver(w) ==
    /\ stopping[w].at = "grace"
    /\ ~Gone(Current(w))
    /\ proc' = [proc EXCEPT ![Current(w)] = "killed"]
    /\ group' = [group EXCEPT ![Current(w)] = FALSE]
    /\ stopping' = [stopping EXCEPT ![w].at = "kill"]
    /\ UNCHANGED <<ticking, pressed, armed, exitCode>>

KilledAndGone(w) ==
    /\ stopping[w].at = "kill"
    /\ Gone(Current(w))
    /\ NextChild(w)
    /\ UNCHANGED <<proc, group, ticking, pressed, armed>>

-----------------------------------------------------------------------------
(* The operator's interrupts *)

\* shutdown: the worker is drained before the web server is asked to stop; a
\* way that is already under way goes on beside it.
Shutdown == Begin("orderly", <<"worker", "web">>)

Interrupt ==
    /\ pressed = 0
    /\ exitCode = Running
    /\ pressed' = 1
    /\ Shutdown
    /\ UNCHANGED <<proc, group, ticking, armed, exitCode>>

\* Half a second later the copy of the same Ctrl+C that npm forwards has landed.
Arm ==
    /\ pressed = 1 /\ ~armed
    /\ armed' = TRUE
    /\ UNCHANGED <<proc, group, ticking, stopping, pressed, exitCode>>

\* Mutant: children that have exited are left alone, with their descendants.
ForceStopLiving ==
    /\ pressed = 1 /\ armed
    /\ exitCode = Running
    /\ pressed' = 2
    /\ proc' = [k \in Children |-> IF Gone(k) THEN proc[k] ELSE "killed"]
    /\ group' = [k \in Children |-> IF Gone(k) THEN group[k] ELSE FALSE]
    /\ exitCode' = 130
    /\ UNCHANGED <<ticking, stopping, armed>>

ForceStop ==
    /\ pressed = 1 /\ armed
    /\ exitCode = Running
    /\ pressed' = 2
    /\ proc' = [k \in Children |-> IF Gone(k) THEN proc[k] ELSE "killed"]
    /\ group' = [k \in Children |-> FALSE]
    /\ exitCode' = 130
    /\ UNCHANGED <<ticking, stopping, armed>>

ChildStep(k) == ExitsAsAsked(k) \/ DiesKilled(k) \/ ExitsUnexpectedly(k)
StopStep(w) == Ask(w) \/ FoundGone(w) \/ GraceOver(w) \/ KilledAndGone(w)

StackNext ==
    \/ OfferTick \/ TickReturns
    \/ \E k \in Children : ChildStep(k)
    \/ \E w \in Ways : StopStep(w)
    \/ Interrupt \/ Arm \/ ForceStop

\* Timers fire and a killed process dies; nobody else owes anything.
StackFairness ==
    /\ \A k \in Children : WF_stackVars(DiesKilled(k))
    /\ \A w \in Ways : WF_stackVars(StopStep(w))

StackSpec == StackInit /\ [][StackNext]_stackVars

-----------------------------------------------------------------------------

\* Once done is resolved, whichever way got there first and however ways and
\* interrupts overlapped, no child and no descendant of one is left on the port
\* without a SIGKILL on its way.
NothingIsOrphaned ==
    exitCode # Running =>
        \A k \in Children : proc[k] \in {"none", "exited", "killed"} /\ ~group[k]

\* The web server is asked to stop only when the worker is gone: a cycle that is
\* in flight is drained before its server goes.
WorkerDrainsFirst ==
    [][proc["web"] = "up" /\ proc'["web"] = "asked" => Gone("worker")]_stackVars

\* An interrupt ends the stack, even if a child ignores the polite signal.
InterruptEndsStack == pressed > 0 ~> exitCode # Running

=============================================================================
