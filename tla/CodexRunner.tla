----------------------------- MODULE CodexRunner -----------------------------
(***************************************************************************)
(* Structured calls of the Codex CLI.  A process-wide semaphore lets       *)
(* MaxConcurrency of them run; a call waits for its turn, prepares a       *)
(* directory, runs the CLI in a process group of its own and cleans up,    *)
(* all on one budget that starts when it asks.                             *)
(***************************************************************************)
EXTENDS Naturals, Sequences, SequencesExt, FiniteSets

CONSTANTS Calls, MaxConcurrency,
          TimeoutMs,          \* the budget of a call
          TerminationGrace,   \* TERMINATION_GRACE_MS
          EndOfTime           \* bound: the last instant

ASSUME RunnerAssumption ==
    /\ MaxConcurrency \in Nat \ {0}
    /\ TimeoutMs \in Nat \ {0}
    /\ {TerminationGrace, EndOfTime} \subseteq Nat

VARIABLES clock,
          active, waiting,   \* the semaphore
          call,              \* per call: where it is, its deadline, its answer
          child,             \* per call: the CLI's process
          kin,               \* per call: what the CLI started; holding keeps its output open
          escalation,        \* per call: when SIGKILL follows, 0 while none will
          directory          \* calls whose temporary directory exists

runnerVars == <<clock, active, waiting, call, child, kin, escalation, directory>>

Steps == {"idle", "waiting", "acquired", "setup", "write", "spawn", "run", "clean", "ended"}
Answers == {"none", "ok", "invalid", "timeout", "output_limit", "spawn", "setup"}
Holding == {"acquired", "setup", "write", "spawn", "run", "clean"}

RunnerTypeOK ==
    /\ clock \in 0..EndOfTime
    /\ active \in 0..MaxConcurrency
    /\ waiting \in Seq(Calls)
    /\ call \in [Calls -> [at: Steps, deadline: 0..(EndOfTime + TimeoutMs), answer: Answers]]
    /\ child \in [Calls -> {"none", "up", "asked", "gone"}]
    /\ kin \in [Calls -> {"none", "holding", "quiet"}]
    /\ escalation \in [Calls -> 0..(EndOfTime + TerminationGrace)]
    /\ directory \subseteq Calls

RunnerInit ==
    /\ clock = 0
    /\ active = 0 /\ waiting = <<>>
    /\ call = [c \in Calls |-> [at |-> "idle", deadline |-> 0, answer |-> "none"]]
    /\ child = [c \in Calls |-> "none"]
    /\ kin = [c \in Calls |-> "none"]
    /\ escalation = [c \in Calls |-> 0]
    /\ directory = {}

At(c, step) == call[c].at = step
Moved(c, step, answer) ==
    [call EXCEPT ![c].at = step, ![c].answer = answer,
                 ![c].deadline = IF step = "ended" THEN 0 ELSE @]
Move(c, step) == call' = Moved(c, step, call[c].answer)
MoveWith(c, step, answer) == call' = Moved(c, step, answer)
Terminal(c) == call[c].answer \in {"timeout", "output_limit"}

-----------------------------------------------------------------------------
(* Semaphore *)

\* acquire
Request(c) ==
    /\ At(c, "idle")
    /\ LET asked == [call EXCEPT ![c].deadline = clock + TimeoutMs]
       IN IF active < MaxConcurrency
          THEN /\ active' = active + 1
               /\ call' = [asked EXCEPT ![c].at = "acquired"]
               /\ UNCHANGED waiting
          ELSE /\ waiting' = Append(waiting, c)
               /\ call' = [asked EXCEPT ![c].at = "waiting"]
               /\ UNCHANGED active
    /\ UNCHANGED <<clock, child, kin, escalation, directory>>

\* Mutant: the waiter is answered but stays in line.
WaitTimesOutInLine(c) ==
    /\ At(c, "waiting") /\ clock >= call[c].deadline
    /\ MoveWith(c, "ended", "timeout")
    /\ UNCHANGED <<clock, active, waiting, child, kin, escalation, directory>>

WaitTimesOut(c) ==
    /\ At(c, "waiting") /\ clock >= call[c].deadline
    /\ \E i \in DOMAIN waiting : waiting[i] = c /\ waiting' = RemoveAt(waiting, i)
    /\ MoveWith(c, "ended", "timeout")
    /\ UNCHANGED <<clock, active, child, kin, escalation, directory>>

\* release, with the call's end: the slot goes to the first in line, or is free.
EndAndRelease(c, answer) ==
    IF waiting = <<>>
    THEN /\ active' = active - 1
         /\ MoveWith(c, "ended", answer)
         /\ UNCHANGED waiting
    ELSE /\ waiting' = Tail(waiting)
         /\ call' = [Moved(c, "ended", answer) EXCEPT ![Head(waiting)].at = "acquired"]
         /\ UNCHANGED active

\* A slot that comes at the deadline is given back unused.
Enter(c) ==
    /\ At(c, "acquired")
    /\ IF call[c].deadline <= clock
       THEN EndAndRelease(c, "timeout")
       ELSE Move(c, "setup") /\ UNCHANGED <<active, waiting>>
    /\ UNCHANGED <<clock, child, kin, escalation, directory>>

-----------------------------------------------------------------------------
(* runExclusive, up to the process *)

MakeDirectory(c) ==
    /\ At(c, "setup")
    /\ \/ /\ directory' = directory \cup {c}
          /\ Move(c, "write")
          /\ UNCHANGED <<active, waiting>>
       \/ /\ EndAndRelease(c, "setup")
          /\ UNCHANGED directory
    /\ UNCHANGED <<clock, child, kin, escalation>>

WriteSchema(c) ==
    /\ At(c, "write")
    /\ \/ Move(c, "spawn")
       \/ MoveWith(c, "clean", "setup")
    /\ UNCHANGED <<clock, active, waiting, child, kin, escalation, directory>>

\* What is left of the budget is the process's.
Spawn(c) ==
    /\ At(c, "spawn")
    /\ \/ /\ call[c].deadline <= clock
          /\ MoveWith(c, "clean", "timeout")
          /\ UNCHANGED child
       \/ /\ call[c].deadline > clock
          /\ \/ Move(c, "run") /\ child' = [child EXCEPT ![c] = "up"]
             \/ MoveWith(c, "clean", "spawn") /\ UNCHANGED child
    /\ UNCHANGED <<clock, active, waiting, kin, escalation, directory>>

-----------------------------------------------------------------------------
(* NodeProcessRunner *)

Forks(c) ==
    /\ At(c, "run") /\ child[c] = "up" /\ kin[c] = "none"
    /\ \E k \in {"holding", "quiet"} : kin' = [kin EXCEPT ![c] = k]
    /\ UNCHANGED <<clock, active, waiting, call, child, escalation, directory>>

ChildExits(c) ==
    /\ child[c] \in {"up", "asked"}
    /\ child' = [child EXCEPT ![c] = "gone"]
    /\ UNCHANGED <<clock, active, waiting, call, kin, escalation, directory>>

KinExits(c) ==
    /\ kin[c] # "none"
    /\ kin' = [kin EXCEPT ![c] = "none"]
    /\ UNCHANGED <<clock, active, waiting, call, child, escalation, directory>>

\* terminate: the first reason stands; the whole group is asked.
Terminate(c, reason) ==
    /\ At(c, "run") /\ ~Terminal(c)
    /\ MoveWith(c, "run", reason)
    /\ child' = [child EXCEPT ![c] = IF @ = "up" THEN "asked" ELSE @]
    /\ escalation' = [escalation EXCEPT ![c] = clock + TerminationGrace]
    /\ UNCHANGED <<clock, active, waiting, kin, directory>>

RunTimesOut(c) == clock >= call[c].deadline /\ Terminate(c, "timeout")

\* Too much was written, by whoever still holds the output.
OutputLimit(c) == (child[c] = "up" \/ kin[c] = "holding") /\ Terminate(c, "output_limit")

KillGroup(c) ==
    /\ child' = [child EXCEPT ![c] = "gone"]
    /\ kin' = [kin EXCEPT ![c] = "none"]

Escalate(c) ==
    /\ At(c, "run") /\ Terminal(c) /\ clock >= escalation[c]
    /\ KillGroup(c)
    /\ Move(c, "clean")
    /\ UNCHANGED <<clock, active, waiting, escalation, directory>>

\* Mutant: a parent that went when asked speaks for its group.
CloseTrusting(c) ==
    /\ At(c, "run")
    /\ child[c] = "gone" /\ kin[c] # "holding"
    /\ IF Terminal(c) THEN Move(c, "clean")
       ELSE \E answer \in {"ok", "invalid"} : MoveWith(c, "clean", answer)
    /\ UNCHANGED <<clock, active, waiting, child, kin, escalation, directory>>

\* onClose: nobody holds the output any more.  The group is killed only after a
\* terminal error; who let go of the output outlives an end that was not forced.
Close(c) ==
    /\ At(c, "run")
    /\ child[c] = "gone" /\ kin[c] # "holding"
    /\ IF Terminal(c) THEN KillGroup(c) /\ Move(c, "clean")
       ELSE /\ \E answer \in {"ok", "invalid"} : MoveWith(c, "clean", answer)
            /\ UNCHANGED <<child, kin>>
    /\ UNCHANGED <<clock, active, waiting, escalation, directory>>

-----------------------------------------------------------------------------

\* A directory that cannot be removed fails a call that had not failed.
CleanUp(c) ==
    /\ At(c, "clean")
    /\ \/ /\ directory' = directory \ {c}
          /\ EndAndRelease(c, call[c].answer)
       \/ /\ EndAndRelease(c, IF call[c].answer = "ok" THEN "setup" ELSE call[c].answer)
          /\ UNCHANGED directory
    /\ escalation' = [escalation EXCEPT ![c] = 0]
    /\ UNCHANGED <<clock, child, kin>>

\* A timer that is due fires before time goes on.
Punctual ==
    \A c \in Calls :
        /\ ~At(c, "acquired")
        /\ At(c, "waiting") => clock < call[c].deadline
        /\ At(c, "run") => clock < IF Terminal(c) THEN escalation[c] ELSE call[c].deadline

RunnerTick ==
    /\ clock < EndOfTime
    /\ Punctual
    /\ clock' = clock + 1
    /\ UNCHANGED <<active, waiting, call, child, kin, escalation, directory>>

CallStep(c) ==
    \/ WaitTimesOut(c) \/ Enter(c)
    \/ MakeDirectory(c) \/ WriteSchema(c) \/ Spawn(c)
    \/ RunTimesOut(c) \/ Escalate(c) \/ Close(c)
    \/ CleanUp(c)

RunnerNext ==
    \/ \E c \in Calls : Request(c) \/ CallStep(c)
    \/ \E c \in Calls : Forks(c) \/ ChildExits(c) \/ KinExits(c) \/ OutputLimit(c)
    \/ RunnerTick

RunnerSpec == RunnerInit /\ [][RunnerNext]_runnerVars

-----------------------------------------------------------------------------

\* Whatever times out, fails or is handed over while others wait, the count is
\* the calls that hold a slot, and nobody waits while one is free.
SlotsAreConserved ==
    /\ active = Cardinality({c \in Calls : call[c].at \in Holding})
    /\ waiting # <<>> => active = MaxConcurrency
    /\ \A i \in DOMAIN waiting : At(waiting[i], "waiting")

\* However late in its budget a call got its turn, its run is over by the budget's
\* end and the grace, and then the CLI itself is gone.  A call that was ended by
\* force, for its time or its output, leaves nobody of the process group, whoever
\* ignored the signal.  Only a call that ended by itself leaves somebody, a
\* descendant that had let go of the output: nobody ends the group then, and the
\* descendant lives for as long as it likes.
ForcedEndsLeaveNobody ==
    \A c \in Calls :
        /\ At(c, "run") => clock <= call[c].deadline + TerminationGrace
        /\ ~At(c, "run") => child[c] \in {"none", "gone"}
        /\ (~At(c, "run") /\ kin[c] # "none") => (kin[c] = "quiet" /\ ~Terminal(c))

=============================================================================
