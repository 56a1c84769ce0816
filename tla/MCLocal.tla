------------------------------- MODULE MCLocal -------------------------------
\* The local machinery, the action locks and the address ladder, one part awake
\* in each behaviour: the others stay where they start, with nothing to do.  In
\* "calendar" nothing moves: its initial states are calendars and the instants a
\* search starts from, two to a minute.
EXTENDS WorkflowDispatch, LocalStack, CodexRunner, DesktopWindow, MCLadder,
        ActionLock, WorkingHours

CONSTANTS send, save, round, again

VARIABLE part

\* A send, a save of the settings, two inbound rounds of one mailbox.  The keys:
\* 1 its domain, 2 its mailbox, 3 its inbound round.
OuterDef == [c \in Holders |-> CASE c = send -> {0, 1, 2} [] c = save -> {0} [] OTHER -> {3}]
InnerDef == [c \in Holders |-> CASE c = round -> {1, 2} [] c = again -> {2} [] OTHER -> {}]

MCCalendars ==
    [days: {{}, {0}, {1, 2}}, start: 0..3, end: 1..4, changeAt: 0..14, change: {-1, 1}]

LocalParts == {"dispatch", "stack", "codex", "window", "person", "company", "locks", "calendar"}
Awake(p) == part = p /\ UNCHANGED <<part, now, hours>>

LocalTypeOK ==
    /\ part \in LocalParts
    /\ DispatchTypeOK /\ StackTypeOK /\ RunnerTypeOK /\ WindowTypeOK /\ LadderTypeOK
    /\ ActionLockTypeOK

LocalInit ==
    /\ part \in LocalParts
    /\ DispatchInit /\ StackInit /\ RunnerInit /\ WindowInit /\ LadderInit
    /\ ActionLockInit
    /\ part # "dispatch" => ~onTime
    /\ part # "stack" => proc["worker"] = "none"
    /\ part # "window" => ~label /\ ~chat.temporary
    /\ now \in IF part = "calendar" THEN 0..25 ELSE {0}
    /\ hours \in IF part = "calendar" THEN Calendars ELSE {CHOOSE h \in Calendars : IsWithinWorkingHours(0, h)}

LadderAsleep == UNCHANGED <<ladderVars, lockVars>>
MachineryAsleep == UNCHANGED <<dispatchVars, stackVars, runnerVars, windowVars>>

LocalNext ==
    \/ /\ Awake("dispatch") /\ DispatchNext
       /\ UNCHANGED <<stackVars, runnerVars, windowVars>> /\ LadderAsleep
    \/ /\ Awake("stack") /\ StackNext
       /\ UNCHANGED <<dispatchVars, runnerVars, windowVars>> /\ LadderAsleep
    \/ /\ Awake("codex") /\ RunnerNext
       /\ UNCHANGED <<dispatchVars, stackVars, windowVars>> /\ LadderAsleep
    \/ /\ Awake("window") /\ WindowNext
       /\ UNCHANGED <<dispatchVars, stackVars, runnerVars>> /\ LadderAsleep
    \/ Awake("person") /\ PersonPart /\ MachineryAsleep /\ UNCHANGED lockVars
    \/ Awake("company") /\ CompanyPart /\ MachineryAsleep /\ UNCHANGED lockVars
    \/ Awake("locks") /\ ActionLockNext /\ MachineryAsleep /\ UNCHANGED ladderVars

LocalVars == <<part, dispatchVars, stackVars, runnerVars, windowVars, ladderVars,
               lockVars, now, hours>>
LocalSpec == LocalInit /\ [][LocalNext]_LocalVars /\ StackFairness

=============================================================================
