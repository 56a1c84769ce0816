------------------------ MODULE OperatorCommandQueue ------------------------
(***************************************************************************)
(* The queue of operator commands: rows of operator_commands, the request  *)
(* that puts them there, and the pass that works them off one at a time.   *)
(* A pass pins the instant it began at, so what becomes due or loses its   *)
(* lease during the pass (late) waits for the next one.  Claims carry a    *)
(* random id; a claimant stands for its id, and "gone" for the id of a     *)
(* claim whose process died or threw.                                      *)
(***************************************************************************)
EXTENDS Naturals, Sequences, FiniteSets

CONSTANTS Cycles,       \* the processes that may run a pass
          Commands,     \* dedupe keys of the commands the operator asks for
          Generations,  \* those that write a first message: they need an address
          MaxAttempts,  \* maxAttempts of a row
          Limit,        \* commands one pass executes; it parks twice as many
          MaxRequeues   \* bound: how often the operator asks again

ASSUME QueueAssumption ==
    /\ Generations \subseteq Commands
    /\ MaxAttempts \in Nat \ {0}
    /\ Limit \in Nat \ {0}
    /\ MaxRequeues \in Nat
    /\ {"nobody", "gone"} \cap Cycles = {}

VARIABLES command,   \* the row: status, attempt, claim, due (its next attempt time
                     \* has come) and expired (its claim is older than the lease)
          line,      \* the commands in the order their rows were created
          subject,   \* what a first message is about: is there an address, an end?
          drain,     \* the pass of a cycle
          late,      \* per pass: what became eligible after the pass began
          requeues   \* how often the operator asked again

queueVars == <<command, line, subject, drain, late, requeues>>

Statuses == {"absent", "queued", "running", "waiting", "succeeded", "abandoned"}
Claims == Cycles \cup {"nobody", "gone"}
Dispositions == {"succeeded", "retry", "waiting", "abandoned"}

NoRow == [status |-> "absent", attempt |-> 0, claim |-> "nobody",
          due |-> FALSE, expired |-> FALSE]
NoPass == [at |-> "off", command |-> {}, verdict |-> "none",
           executed |-> 0, parked |-> 0, aborted |-> FALSE]

QueueTypeOK ==
    /\ command \in [Commands -> [status: Statuses, attempt: 0..MaxAttempts,
                                 claim: Claims, due: BOOLEAN, expired: BOOLEAN]]
    /\ line \in Seq(Commands)
    /\ subject \in [Generations -> {"unresolved", "resolved", "ended"}]
    /\ drain \in [Cycles -> [at: {"off", "claim", "prepare", "execute", "settle"},
                             command: SUBSET Commands,
                             verdict: Dispositions \cup {"none"},
                             executed: 0..Limit, parked: 0..(2 * Limit),
                             aborted: BOOLEAN]]
    /\ late \in [Cycles -> SUBSET Commands]
    /\ requeues \in 0..MaxRequeues

QueueInit ==
    /\ command = [c \in Commands |-> NoRow]
    /\ line = <<>>
    /\ subject = [g \in Generations |-> "unresolved"]
    /\ drain = [y \in Cycles |-> NoPass]
    /\ late = [y \in Cycles |-> {}]
    /\ requeues = 0

Draining(y) == drain[y].at # "off"

-----------------------------------------------------------------------------
(* The operator's requests, and what the rows wait for *)

\* enqueueOperatorCommand: a second press finds the row by its key and changes
\* nothing.
Enqueue(c) ==
    /\ command[c].status = "absent"
    /\ command' = [command EXCEPT ![c].status = "queued", ![c].due = TRUE]
    /\ line' = Append(line, c)
    /\ UNCHANGED <<subject, drain, late, requeues>>

\* requeueOperatorCommand: a fresh budget, due at once for every pass.
Requeue(c) ==
    /\ requeues < MaxRequeues
    /\ command[c].status \in {"abandoned", "waiting"}
    /\ command' = [command EXCEPT ![c] = [NoRow EXCEPT !.status = "queued", !.due = TRUE]]
    /\ late' = [y \in Cycles |-> late[y] \ {c}]
    /\ requeues' = requeues + 1
    /\ UNCHANGED <<line, subject, drain>>

NewlyEligible(c) ==
    late' = [y \in Cycles |-> IF Draining(y) THEN late[y] \cup {c} ELSE late[y]]

\* The wait of next_attempt_at is over.
BecomeDue(c) ==
    /\ command[c].status \in {"queued", "waiting"}
    /\ ~command[c].due
    /\ command' = [command EXCEPT ![c].due = TRUE]
    /\ NewlyEligible(c)
    /\ UNCHANGED <<line, subject, drain, requeues>>

\* Fifteen minutes have gone by since the claim, whatever became of its claimant.
ClaimExpires(c) ==
    /\ command[c].status = "running" /\ ~command[c].expired
    /\ command' = [command EXCEPT ![c].expired = TRUE]
    /\ NewlyEligible(c)
    /\ UNCHANGED <<line, subject, drain, requeues>>

\* Elsewhere: an address is accepted, a sequence ends.
SubjectChanges(g) ==
    /\ \/ subject[g] = "unresolved" /\ subject' = [subject EXCEPT ![g] = "resolved"]
       \/ subject[g] # "ended" /\ subject' = [subject EXCEPT ![g] = "ended"]
    /\ UNCHANGED <<command, line, drain, late, requeues>>

-----------------------------------------------------------------------------
(* The pass: drainOperatorCommands *)

\* Mutant: what a dead claim holds is never looked at again.
EligibleUnclaimed(y) ==
    {c \in Commands \ late[y] :
        command[c].status \in {"queued", "waiting"} /\ command[c].due}

Eligible(y) ==
    {c \in Commands \ late[y] :
        \/ command[c].status \in {"queued", "waiting"} /\ command[c].due
        \/ command[c].status = "running" /\ command[c].expired}

\* Runnable work first, then the oldest.
Before(c, d) ==
    LET rank(e) == IF command[e].status = "waiting" THEN 1 ELSE 0
        place(e) == CHOOSE i \in DOMAIN line : line[i] = e
    IN \/ rank(c) < rank(d)
       \/ rank(c) = rank(d) /\ place(c) <= place(d)

Candidates(y) == {c \in Eligible(y) : \A d \in Eligible(y) : Before(c, d)}

MayGoOn(y) ==
    /\ ~drain[y].aborted
    /\ drain[y].executed < Limit
    /\ drain[y].parked < 2 * Limit

StartPass(y) == drain' = [drain EXCEPT ![y] = [NoPass EXCEPT !.at = "claim"]]

StopPass(y) ==
    /\ drain' = [drain EXCEPT ![y] = NoPass]
    /\ late' = [late EXCEPT ![y] = {}]

EndPass(y) ==
    /\ drain[y].at = "claim"
    /\ ~MayGoOn(y) \/ Eligible(y) = {}
    /\ StopPass(y)
    /\ UNCHANGED <<command, line, subject, requeues>>

\* Mutant: the budget is compared after the attempt it allows.
ClaimOneTooMany(y) ==
    /\ drain[y].at = "claim" /\ MayGoOn(y)
    /\ \E c \in Candidates(y) :
        /\ command[c].attempt <= MaxAttempts
        /\ command' = [command EXCEPT
             ![c] = [status |-> "running", attempt |-> command[c].attempt + 1,
                     claim |-> y, due |-> FALSE, expired |-> FALSE]]
        /\ drain' = [drain EXCEPT ![y].at = "prepare", ![y].command = {c}]
    /\ UNCHANGED <<line, subject, late, requeues>>

\* claimNextCommand, when the budget allows another attempt ...
Claim(y) ==
    /\ drain[y].at = "claim" /\ MayGoOn(y)
    /\ \E c \in Candidates(y) :
        /\ command[c].attempt < MaxAttempts
        /\ command' = [command EXCEPT
             ![c] = [status |-> "running", attempt |-> command[c].attempt + 1,
                     claim |-> y, due |-> FALSE, expired |-> FALSE]]
        /\ drain' = [drain EXCEPT ![y].at = "prepare", ![y].command = {c}]
    /\ UNCHANGED <<line, subject, late, requeues>>

\* ... and when a dead claim has spent the last one.
CloseExhausted(y) ==
    /\ drain[y].at = "claim" /\ MayGoOn(y)
    /\ \E c \in Candidates(y) :
        /\ command[c].attempt >= MaxAttempts
        /\ command' = [command EXCEPT ![c].status = "abandoned", ![c].claim = "nobody",
                                      ![c].due = FALSE, ![c].expired = FALSE]
    /\ drain' = [drain EXCEPT ![y].parked = @ + 1]
    /\ UNCHANGED <<line, subject, late, requeues>>

\* prepareCommand: run it, wait for an address, or say that it has no subject.
Verdict(c) ==
    IF c \notin Generations THEN "ready"
    ELSE CASE subject[c] = "resolved"   -> "ready"
           [] subject[c] = "unresolved" -> "waiting"
           [] subject[c] = "ended"      -> "abandoned"

Prepare(y) ==
    /\ drain[y].at = "prepare"
    /\ \E c \in drain[y].command :
        drain' = [drain EXCEPT
            ![y] = IF Verdict(c) = "ready"
                   THEN [drain[y] EXCEPT !.at = "execute", !.executed = @ + 1]
                   ELSE [drain[y] EXCEPT !.at = "settle", !.parked = @ + 1, !.verdict = Verdict(c)]]
    /\ UNCHANGED <<command, line, subject, late, requeues>>

\* The task runs, for minutes perhaps; classifyCommandOutcome sorts its answer,
\* and an agent run it wrote is a turn of the operator's one AI window, which
\* uses up the budget of the pass.
Execute(y) ==
    /\ drain[y].at = "execute"
    /\ \E v \in Dispositions, turn \in BOOLEAN :
        drain' = [drain EXCEPT ![y].at = "settle", ![y].verdict = v,
                               ![y].executed = IF turn THEN Limit ELSE @]
    /\ UNCHANGED <<command, line, subject, late, requeues>>

\* The patch of finalizeCommand.
Settled(row, v) ==
    LET patch == [row EXCEPT !.claim = "nobody", !.expired = FALSE]
    IN CASE v = "succeeded" -> [patch EXCEPT !.status = "succeeded"]
         [] v = "waiting" -> [patch EXCEPT !.status = "waiting", !.attempt = row.attempt - 1]
         [] v = "retry" /\ row.attempt < MaxAttempts -> [patch EXCEPT !.status = "queued"]
         [] OTHER -> [patch EXCEPT !.status = "abandoned"]

\* Mutant: the patch finds its row by id alone.
SettleUnfenced(y) ==
    /\ drain[y].at = "settle"
    /\ \E c \in drain[y].command :
        command' = [command EXCEPT ![c] = Settled(@, drain[y].verdict)]
    /\ drain' = [drain EXCEPT ![y].at = "claim", ![y].command = {}, ![y].verdict = "none"]
    /\ UNCHANGED <<line, subject, late, requeues>>

\* The patch is fenced on the claim id.
Settle(y) ==
    /\ drain[y].at = "settle"
    /\ \E c \in drain[y].command :
        command' = IF command[c].claim = y
                   THEN [command EXCEPT ![c] = Settled(@, drain[y].verdict)]
                   ELSE command
    /\ drain' = [drain EXCEPT ![y].at = "claim", ![y].command = {}, ![y].verdict = "none"]
    /\ UNCHANGED <<line, subject, late, requeues>>

\* The pass of y is cut short, by an exception or by the death of its process:
\* nobody knows its claim any more.
Abandon(y) ==
    /\ command' = [c \in Commands |->
         IF command[c].claim = y THEN [command[c] EXCEPT !.claim = "gone"] ELSE command[c]]
    /\ StopPass(y)

QueueStep(y) ==
    \/ EndPass(y)
    \/ Claim(y)
    \/ CloseExhausted(y)
    \/ Prepare(y)
    \/ Execute(y)
    \/ Settle(y)

RowStep(c) ==
    \/ Enqueue(c)
    \/ Requeue(c)
    \/ BecomeDue(c)
    \/ ClaimExpires(c)

-----------------------------------------------------------------------------

\* Whatever order claims, expiries, late settlements and requests come in, a
\* running command has spent between one attempt and all of them, and work
\* that waits for another pass has one left: the crash loop the comment in
\* claimNextCommand fears ends, and no row waits that can only be closed.
AttemptsInBudget ==
    \A c \in Commands :
        /\ command[c].status = "running" => command[c].attempt \in 1..MaxAttempts
        /\ command[c].status \in {"queued", "waiting"} => command[c].attempt < MaxAttempts

\* An executor whose claim expired may finish long after another took the row:
\* what it brings back never undoes the success that was recorded, and nobody
\* but the operator brings a row back that was given up.
OutcomesAreFinal ==
    [][\A c \in Commands :
        /\ command[c].status = "succeeded" => command'[c] = command[c]
        /\ command[c].status = "abandoned" /\ command'[c] # command[c] => Requeue(c)
      ]_queueVars

=============================================================================
