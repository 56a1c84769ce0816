-------------------------- MODULE MaintenanceCycle --------------------------
(***************************************************************************)
(* runMaintenanceCycle: whoever ticks runs four stages under one leased    *)
(* row.  Every stage has a deadline; a stage that outlives it is reported  *)
(* as failed, but its work goes on and keeps the lease until it settles.   *)
(* The last stage is a pass over the operator commands.  An owner token is *)
(* random: a cycle stands for its token, "gone" for one nobody holds.      *)
(***************************************************************************)
EXTENDS OperatorCommandQueue

CONSTANTS MaxDeaths   \* bound: how often a process dies mid-cycle

ASSUME CycleAssumption == MaxDeaths \in Nat

VARIABLES lease,     \* maintenance_state: the owner token; fresh while its
                     \* heartbeat is younger than the stale limit
          cycle,     \* where the cycle of a process is: in one of the stages
                     \* ahead of the commands, in the commands, or retained by
                     \* work that outlived its deadline
          punctual,  \* heartbeats of a live process are never late (picked once)
          deaths

Freed == [owner |-> "nobody", fresh |-> TRUE]   \* its heartbeat no longer matters

cycleVars == <<lease, cycle, punctual, deaths>>
maintenanceVars == <<queueVars, cycleVars>>

CycleTypeOK ==
    /\ QueueTypeOK
    /\ lease \in [owner: Claims, fresh: BOOLEAN]
    /\ cycle \in [Cycles -> {"idle", "ahead", "commands", "retained"}]
    /\ punctual \in BOOLEAN
    /\ deaths \in 0..MaxDeaths

MaintenanceInit ==
    /\ QueueInit
    /\ lease = Freed
    /\ cycle = [y \in Cycles |-> "idle"]
    /\ punctual \in BOOLEAN
    /\ deaths = 0

\* The work of some stage of y is running, reported as overdue or not.
Working(y) == cycle[y] # "idle"

Goto(y, at) == cycle' = [cycle EXCEPT ![y] = at]

\* A write of the lease row by y is fenced on its token.
Fenced(y, write) == lease' = IF lease.owner = y THEN write ELSE lease

Renewed == [lease EXCEPT !.fresh = TRUE]
Forgotten == [lease EXCEPT !.owner = "gone"]

-----------------------------------------------------------------------------

\* The tick claims the row if nobody holds it or its holder went silent.
Start(y) ==
    /\ cycle[y] = "idle"
    /\ lease.owner = "nobody" \/ ~lease.fresh
    /\ lease' = [owner |-> y, fresh |-> TRUE]
    /\ Goto(y, "ahead")
    /\ UNCHANGED <<queueVars, punctual, deaths>>

\* The background heartbeat stops for good once the row names another.
Heartbeat(y) ==
    /\ Working(y)
    /\ lease.owner = y /\ ~lease.fresh
    /\ lease' = Renewed
    /\ UNCHANGED <<queueVars, cycle, punctual, deaths>>

\* Two minutes without a heartbeat.
LeaseAges ==
    /\ lease.fresh /\ lease.owner # "nobody"
    /\ punctual => lease.owner = "gone"
    /\ lease' = [lease EXCEPT !.fresh = FALSE]
    /\ UNCHANGED <<queueVars, cycle, punctual, deaths>>

\* The stages ahead (inbound, follow-ups, recovery) return in time, the lease
\* is renewed at each boundary, and the pass over the commands begins ...
StagesSucceed(y) ==
    /\ cycle[y] = "ahead"
    /\ lease.owner = y
    /\ lease' = Renewed
    /\ Goto(y, "commands")
    /\ StartPass(y)
    /\ UNCHANGED <<command, line, subject, late, requeues, punctual, deaths>>

\* ... or the row names another: the cycle leaves without a word.
LeaseLost(y) ==
    /\ cycle[y] = "ahead"
    /\ lease.owner # y
    /\ Goto(y, "idle")
    /\ UNCHANGED <<queueVars, lease, punctual, deaths>>

\* The stage's work: of the four, the pass over the commands is modelled here.
Work(y) ==
    /\ Working(y)
    /\ QueueStep(y)
    /\ UNCHANGED cycleVars

\* Mutant: a stage that timed out frees the lease like one that failed.
DeadlineFrees(y) ==
    /\ \/ cycle[y] = "ahead"
       \/ cycle[y] = "commands" /\ Draining(y)
    /\ Goto(y, "retained")
    /\ Fenced(y, Freed)
    /\ drain' = [drain EXCEPT ![y].aborted = Draining(y)]
    /\ UNCHANGED <<command, line, subject, late, requeues, punctual, deaths>>

\* The deadline of a stage: the signal is aborted, the failure is reported with
\* one more beat, and the work goes on under the lease.
Deadline(y) ==
    /\ \/ cycle[y] = "ahead"
       \/ cycle[y] = "commands" /\ Draining(y)
    /\ Goto(y, "retained")
    /\ Fenced(y, Renewed)
    /\ drain' = [drain EXCEPT ![y].aborted = Draining(y)]
    /\ UNCHANGED <<command, line, subject, late, requeues, punctual, deaths>>

\* A stage, a renewal or the last write throws, with nothing left running: the
\* catch block frees the lease.  A task that throws is an outcome of its
\* command, but a query of the pass may fail anywhere.
StageFails(y) ==
    /\ cycle[y] \in {"ahead", "commands"}
    /\ Goto(y, "idle")
    /\ Fenced(y, Freed)
    /\ Abandon(y)
    /\ UNCHANGED <<line, subject, requeues, punctual, deaths>>

Complete(y) ==
    /\ cycle[y] = "commands" /\ ~Draining(y)
    /\ Goto(y, "idle")
    /\ Fenced(y, Freed)
    /\ UNCHANGED <<queueVars, punctual, deaths>>

\* The finally block, once the late work has settled.
Release(y) ==
    /\ cycle[y] = "retained" /\ ~Draining(y)
    /\ Goto(y, "idle")
    /\ Fenced(y, Freed)
    /\ UNCHANGED <<queueVars, punctual, deaths>>

\* The last write of the cycle fails, or its process is killed with everything
\* it was running: the token stays and nobody renews it.
Dies(y) ==
    /\ deaths < MaxDeaths
    /\ Working(y)
    /\ deaths' = deaths + 1
    /\ Fenced(y, Forgotten)
    /\ Goto(y, "idle")
    /\ Abandon(y)
    /\ UNCHANGED <<line, subject, requeues, punctual>>

CycleStep(y) ==
    \/ Start(y)
    \/ Heartbeat(y)
    \/ StagesSucceed(y)
    \/ LeaseLost(y)
    \/ Work(y)
    \/ Deadline(y)
    \/ StageFails(y)
    \/ Complete(y)
    \/ Release(y)
    \/ Dies(y)

MaintenanceNext ==
    \/ \E y \in Cycles : CycleStep(y)
    \/ \E c \in Commands : RowStep(c) /\ UNCHANGED cycleVars
    \/ \E g \in Generations : SubjectChanges(g) /\ UNCHANGED cycleVars
    \/ LeaseAges

\* Time passes: waits end, claims and abandoned leases age.
TimeFairness ==
    /\ \A c \in Commands :
        /\ WF_maintenanceVars(BecomeDue(c) /\ UNCHANGED cycleVars)
        /\ WF_maintenanceVars(ClaimExpires(c) /\ UNCHANGED cycleVars)
    /\ WF_maintenanceVars(LeaseAges)

\* Ticks keep coming, and a stage that is tried again and again returns in time
\* once; the pass is tried often enough to claim before its deadline.
CycleFairness ==
    /\ SF_maintenanceVars(\E y \in Cycles : Start(y))
    /\ \A y \in Cycles :
        /\ SF_maintenanceVars(StagesSucceed(y))
        /\ SF_maintenanceVars(Claim(y) /\ UNCHANGED cycleVars)
        /\ SF_maintenanceVars(CloseExhausted(y) /\ UNCHANGED cycleVars)
        /\ WF_maintenanceVars(Work(y))
        /\ WF_maintenanceVars(LeaseLost(y) \/ Complete(y) \/ Release(y))

MaintenanceSpec == MaintenanceInit /\ [][MaintenanceNext]_maintenanceVars
FairMaintenanceSpec == MaintenanceSpec /\ TimeFairness /\ CycleFairness

-----------------------------------------------------------------------------

\* While heartbeats are punctual, no two cycles have work of a stage running at
\* the same time, though deadlines pass, stages fail and processes die: what a
\* stage left running is guarded by the lease until it settles.
LeaseGuardsWork ==
    punctual => \A y, z \in Cycles : Working(y) /\ Working(z) => y = z

\* A lease whose heartbeat is fresh is given up by a step of its owner only:
\* the late clean-up of a cycle that lost its lease never clears the lease of
\* its replacement.
LeaseIsTheOwners ==
    [][\A y \in Cycles :
        lease.fresh /\ lease.owner = y /\ lease'.owner # y
            => Working(y) /\ ~Working(y)'
      ]_maintenanceVars

\* While heartbeats are punctual, whatever the operator asked for comes to an
\* end or to a wait the operator can see: no crash, deadline or failing stage
\* leaves a command queued or running for ever.
CommandsAreSettled ==
    punctual => \A c \in Commands :
        command[c].status \in {"queued", "running"}
            ~> command[c].status \in {"succeeded", "abandoned", "waiting"}

=============================================================================
