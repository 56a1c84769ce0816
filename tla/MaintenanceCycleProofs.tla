------------------------ MODULE MaintenanceCycleProofs ------------------------
(* That the lease guards the work of a cycle and is given up by its owner    *)
(* only, that no command overspends its attempts, and that what was recorded *)
(* as its outcome stays, for any number of cycles, commands and deaths.      *)
EXTENDS MaintenanceCycle, TLAPS

Rows == [status: Statuses, attempt: 0..MaxAttempts, claim: Claims,
         due: BOOLEAN, expired: BOOLEAN]
Passes == [at: {"off", "claim", "prepare", "execute", "settle"},
           command: SUBSET Commands, verdict: Dispositions \cup {"none"},
           executed: 0..Limit, parked: 0..(2 * Limit), aborted: BOOLEAN]

\* A row names a living claim only while it runs, and has attempts in budget.
GoodRow(row) ==
    /\ row \in Rows
    /\ row.claim \in Cycles => row.status = "running"
    /\ row.status = "running" => row.attempt \in 1..MaxAttempts
    /\ row.status \in {"absent", "queued", "waiting"} => row.attempt < MaxAttempts

\* A pass that has claimed a command has room to execute or to park it.
GoodPass(pass) ==
    /\ pass \in Passes
    /\ pass.at = "prepare" => pass.executed < Limit /\ pass.parked < 2 * Limit

RowsInv == command \in [Commands -> Rows] /\ \A c \in Commands : GoodRow(command[c])
PassesInv == drain \in [Cycles -> Passes] /\ \A y \in Cycles : GoodPass(drain[y])
RestInv ==
    /\ line \in Seq(Commands)
    /\ subject \in [Generations -> {"unresolved", "resolved", "ended"}]
    /\ late \in [Cycles -> SUBSET Commands]
    /\ requeues \in 0..MaxRequeues
QueueInv == RowsInv /\ PassesInv /\ RestInv

\* With punctual heartbeats, a cycle that has work running has the lease, and
\* keeps it fresh; a living cycle that has the lease has work running.
LeaseInv ==
    /\ lease \in [owner: Claims, fresh: BOOLEAN]
    /\ cycle \in [Cycles -> {"idle", "ahead", "commands", "retained"}]
    /\ punctual \in BOOLEAN
    /\ deaths \in 0..MaxDeaths
    /\ \A y \in Cycles : lease.owner = y => Working(y)
    /\ punctual => \A y \in Cycles : Working(y) => lease.owner = y /\ lease.fresh

MaintenanceInv == QueueInv /\ LeaseInv

LEMMA Names == "nobody" \notin Cycles /\ "gone" \notin Cycles
BY QueueAssumption

LEMMA Limits ==
    /\ MaxAttempts \in Nat /\ MaxAttempts > 0
    /\ Limit \in Nat /\ Limit > 0 /\ 2 * Limit \in Nat
BY QueueAssumption

LEMMA QueueInvTypes == QueueInv => QueueTypeOK /\ AttemptsInBudget
BY DEF QueueInv, RowsInv, PassesInv, RestInv, QueueTypeOK, AttemptsInBudget, GoodRow, Rows, Passes

-----------------------------------------------------------------------------
(* Rows *)

LEMMA NoRowIsGood == GoodRow(NoRow)
BY Names, QueueAssumption DEF NoRow, GoodRow, Rows, Statuses, Claims

LEMMA QueuedIsGood ==
    ASSUME NEW row, GoodRow(row), row.status = "absent"
    PROVE  GoodRow([row EXCEPT !.status = "queued", !.due = TRUE])
BY Names, Limits DEF GoodRow, Rows, Statuses, Claims

LEMMA FlaggedIsGood ==
    ASSUME NEW row, GoodRow(row)
    PROVE  /\ GoodRow([row EXCEPT !.due = TRUE])
           /\ GoodRow([row EXCEPT !.expired = TRUE])
           /\ GoodRow([row EXCEPT !.claim = "gone"])
BY Names DEF GoodRow, Rows, Claims

LEMMA ClaimedIsGood ==
    ASSUME NEW row, GoodRow(row), row.attempt < MaxAttempts, NEW y \in Cycles
    PROVE  GoodRow([status |-> "running", attempt |-> row.attempt + 1,
                    claim |-> y, due |-> FALSE, expired |-> FALSE])
BY Names, QueueAssumption DEF GoodRow, Rows, Statuses, Claims

LEMMA ClosedIsGood ==
    ASSUME NEW row, GoodRow(row)
    PROVE  GoodRow([row EXCEPT !.status = "abandoned", !.claim = "nobody",
                               !.due = FALSE, !.expired = FALSE])
BY Names, QueueAssumption DEF GoodRow, Rows, Statuses, Claims

\* Whatever the verdict, what finalizeCommand makes of a running row is good.
LEMMA SettledIsGood ==
    ASSUME NEW row, GoodRow(row), row.status = "running", NEW v
    PROVE  GoodRow(Settled(row, v))
<1> DEFINE patch == [row EXCEPT !.claim = "nobody", !.expired = FALSE]
           back == [patch EXCEPT !.status = "waiting", !.attempt = row.attempt - 1]
<1>1. GoodRow(patch)
  BY Names, Limits DEF GoodRow, Rows, Statuses, Claims
<1>2. GoodRow([patch EXCEPT !.status = "succeeded"]) /\ GoodRow([patch EXCEPT !.status = "abandoned"])
  BY <1>1, Names, Limits DEF GoodRow, Rows, Statuses
<1>3. row.attempt < MaxAttempts => GoodRow([patch EXCEPT !.status = "queued"])
  BY <1>1, Names, Limits DEF GoodRow, Rows, Statuses
<1>4. GoodRow(back)
  <2>1. patch \in Rows /\ patch.claim \notin Cycles
    BY <1>1, Names DEF GoodRow, Rows
  <2>2. row.attempt - 1 \in 0..MaxAttempts /\ row.attempt - 1 < MaxAttempts
    BY Limits DEF GoodRow, Rows
  <2> HIDE DEF patch
  <2>3. back \in Rows
    BY <2>1, <2>2 DEF Rows, Statuses
  <2> QED BY <2>1, <2>2, <2>3 DEF GoodRow, Rows
<1> QED BY <1>2, <1>3, <1>4 DEF Settled

LEMMA PutRow ==
    ASSUME RowsInv, NEW c \in Commands, NEW row, GoodRow(row),
           command' = [command EXCEPT ![c] = row]
    PROVE  RowsInv'
<1>1. row \in Rows
  BY DEF GoodRow
<1> QED BY <1>1 DEF RowsInv

-----------------------------------------------------------------------------
(* Passes *)

LEMMA NoPassIsGood == GoodPass(NoPass) /\ GoodPass([NoPass EXCEPT !.at = "claim"])
<1>1. NoPass \in Passes /\ NoPass.at = "off"
  BY Limits DEF NoPass, Passes, Dispositions
<1>2. [NoPass EXCEPT !.at = "claim"] \in Passes /\ [NoPass EXCEPT !.at = "claim"].at = "claim"
  BY <1>1 DEF Passes
<1> QED BY <1>1, <1>2 DEF GoodPass

LEMMA PreparingIsGood ==
    ASSUME NEW pass, GoodPass(pass), pass.executed < Limit, pass.parked < 2 * Limit,
           NEW c \in Commands
    PROVE  GoodPass([pass EXCEPT !.at = "prepare", !.command = {c}])
BY Limits DEF GoodPass, Passes

LEMMA ParkedIsGood ==
    ASSUME NEW pass, GoodPass(pass), pass.at # "prepare", pass.parked < 2 * Limit
    PROVE  GoodPass([pass EXCEPT !.parked = @ + 1])
BY Limits DEF GoodPass, Passes

LEMMA PreparedIsGood ==
    ASSUME NEW pass, GoodPass(pass), pass.at = "prepare", NEW v \in Dispositions
    PROVE  /\ GoodPass([pass EXCEPT !.at = "execute", !.executed = @ + 1])
           /\ GoodPass([pass EXCEPT !.at = "settle", !.parked = @ + 1, !.verdict = v])
<1>1. pass.executed + 1 \in 0..Limit /\ pass.parked + 1 \in 0..(2 * Limit)
  BY Limits DEF GoodPass, Passes
<1>2. [pass EXCEPT !.at = "execute", !.executed = @ + 1] \in Passes
  BY <1>1 DEF GoodPass, Passes
<1>3. [pass EXCEPT !.at = "settle", !.parked = @ + 1, !.verdict = v] \in Passes
  BY <1>1 DEF GoodPass, Passes
<1> QED BY <1>2, <1>3 DEF GoodPass, Passes

LEMMA ExecutedIsGood ==
    ASSUME NEW pass, GoodPass(pass), NEW v \in Dispositions, NEW n \in {Limit, pass.executed}
    PROVE  GoodPass([pass EXCEPT !.at = "settle", !.verdict = v, !.executed = n])
<1>1. n \in 0..Limit
  BY Limits DEF GoodPass, Passes
<1>2. [pass EXCEPT !.at = "settle", !.verdict = v, !.executed = n] \in Passes
  BY <1>1 DEF GoodPass, Passes
<1> QED BY <1>2 DEF GoodPass, Passes

LEMMA AgainIsGood ==
    ASSUME NEW pass, GoodPass(pass), NEW b \in BOOLEAN
    PROVE  /\ GoodPass([pass EXCEPT !.at = "claim", !.command = {}, !.verdict = "none"])
           /\ GoodPass([pass EXCEPT !.aborted = b])
BY Limits DEF GoodPass, Passes

LEMMA PutPass ==
    ASSUME PassesInv, NEW y \in Cycles, NEW pass, GoodPass(pass),
           drain' = [drain EXCEPT ![y] = pass]
    PROVE  PassesInv'
<1>1. pass \in Passes
  BY DEF GoodPass
<1> QED BY <1>1 DEF PassesInv

-----------------------------------------------------------------------------
(* The steps of the queue *)

LEMMA RowInvStep == ASSUME QueueInv, NEW c \in Commands, RowStep(c) PROVE QueueInv'
<1>1. GoodRow(command[c])
  BY DEF QueueInv, RowsInv
<1>2. CASE Enqueue(c)
  <2>1. command' = [command EXCEPT ![c] = [command[c] EXCEPT !.status = "queued", !.due = TRUE]]
    BY <1>2 DEF Enqueue, QueueInv, RowsInv
  <2>2. RowsInv'
    BY <1>1, <1>2, <2>1, QueuedIsGood, PutRow DEF Enqueue, QueueInv
  <2> QED BY <1>2, <2>2 DEF Enqueue, QueueInv, PassesInv, RestInv
<1>3. CASE Requeue(c)
  <2>1. GoodRow([NoRow EXCEPT !.status = "queued", !.due = TRUE])
    BY NoRowIsGood, QueuedIsGood DEF NoRow
  <2>2. RowsInv'
    BY <1>3, <2>1, PutRow DEF Requeue, QueueInv
  <2> QED BY <1>3, <2>2, QueueAssumption DEF Requeue, QueueInv, PassesInv, RestInv
<1>4. CASE BecomeDue(c) \/ ClaimExpires(c)
  <2>1. \/ command' = [command EXCEPT ![c] = [command[c] EXCEPT !.due = TRUE]]
        \/ command' = [command EXCEPT ![c] = [command[c] EXCEPT !.expired = TRUE]]
    BY <1>4 DEF BecomeDue, ClaimExpires, QueueInv, RowsInv
  <2>2. RowsInv'
    BY <1>1, <2>1, FlaggedIsGood, PutRow DEF QueueInv
  <2>3. late' = [y \in Cycles |-> IF Draining(y) THEN late[y] \cup {c} ELSE late[y]]
    BY <1>4 DEF BecomeDue, ClaimExpires, NewlyEligible
  <2>4. \A y \in Cycles : late[y] \cup {c} \in SUBSET Commands /\ late[y] \in SUBSET Commands
    BY DEF QueueInv, RestInv
  <2>5. late' \in [Cycles -> SUBSET Commands]
    BY <2>3, <2>4
  <2> QED BY <1>4, <2>2, <2>5 DEF BecomeDue, ClaimExpires, QueueInv, PassesInv, RestInv
<1> QED BY <1>2, <1>3, <1>4 DEF RowStep

LEMMA SubjectStep == ASSUME QueueInv, NEW g \in Generations, SubjectChanges(g) PROVE QueueInv'
BY DEF SubjectChanges, QueueInv, RowsInv, PassesInv, RestInv

\* The pass of y is over, and perhaps its claims are orphaned.
LEMMA StopStep ==
    ASSUME QueueInv, NEW y \in Cycles, UNCHANGED <<line, subject, requeues>>,
           Abandon(y) \/ (StopPass(y) /\ UNCHANGED command)
    PROVE  QueueInv'
<1>1. PassesInv'
  BY NoPassIsGood, PutPass DEF Abandon, StopPass, QueueInv
<1>2. RestInv'
  BY DEF Abandon, StopPass, QueueInv, RestInv
<1>3. RowsInv'
  <2>1. CASE Abandon(y)
    <3>1. \A c \in Commands : GoodRow(command[c]) /\ GoodRow([command[c] EXCEPT !.claim = "gone"])
      BY FlaggedIsGood DEF QueueInv, RowsInv
    <3>2. \A c \in Commands : command[c] \in Rows /\ [command[c] EXCEPT !.claim = "gone"] \in Rows
      BY <3>1 DEF GoodRow
    <3> QED BY <2>1, <3>1, <3>2 DEF Abandon, RowsInv
  <2>2. CASE UNCHANGED command
    BY <2>2 DEF QueueInv, RowsInv
  <2> QED BY <2>1, <2>2
<1> QED BY <1>1, <1>2, <1>3 DEF QueueInv

LEMMA ClaimStep == ASSUME QueueInv, NEW y \in Cycles, Claim(y) PROVE QueueInv'
<1>1. PICK c \in Commands :
        /\ command[c].attempt < MaxAttempts
        /\ command' = [command EXCEPT
             ![c] = [status |-> "running", attempt |-> command[c].attempt + 1,
                     claim |-> y, due |-> FALSE, expired |-> FALSE]]
        /\ drain' = [drain EXCEPT ![y].at = "prepare", ![y].command = {c}]
  BY DEF Claim, Candidates, Eligible
<1>2. RowsInv'
  BY <1>1, ClaimedIsGood, PutRow DEF QueueInv, RowsInv
<1>3. drain' = [drain EXCEPT ![y] = [drain[y] EXCEPT !.at = "prepare", !.command = {c}]]
  BY <1>1 DEF QueueInv, PassesInv
<1>4. PassesInv'
  BY <1>3, PreparingIsGood, PutPass DEF Claim, MayGoOn, QueueInv, PassesInv
<1> QED BY <1>2, <1>4 DEF Claim, QueueInv, RestInv

LEMMA CloseStep == ASSUME QueueInv, NEW y \in Cycles, CloseExhausted(y) PROVE QueueInv'
<1>1. PICK c \in Commands :
        command' = [command EXCEPT ![c].status = "abandoned", ![c].claim = "nobody",
                                   ![c].due = FALSE, ![c].expired = FALSE]
  BY DEF CloseExhausted, Candidates, Eligible
<1>2. command' = [command EXCEPT ![c] = [command[c] EXCEPT
                    !.status = "abandoned", !.claim = "nobody", !.due = FALSE, !.expired = FALSE]]
  BY <1>1 DEF QueueInv, RowsInv
<1>3. RowsInv'
  BY <1>2, ClosedIsGood, PutRow DEF QueueInv, RowsInv
<1>4. drain' = [drain EXCEPT ![y] = [drain[y] EXCEPT !.parked = @ + 1]]
  BY DEF CloseExhausted, QueueInv, PassesInv
<1>5. PassesInv'
  BY <1>4, ParkedIsGood, PutPass DEF CloseExhausted, MayGoOn, QueueInv, PassesInv
<1> QED BY <1>3, <1>5 DEF CloseExhausted, QueueInv, RestInv

LEMMA PrepareStep == ASSUME QueueInv, NEW y \in Cycles, Prepare(y) PROVE QueueInv'
<1>1. GoodPass(drain[y]) /\ drain[y].command \subseteq Commands
  BY DEF QueueInv, PassesInv, GoodPass, Passes
<1>2. PICK c \in drain[y].command :
        drain' = [drain EXCEPT
            ![y] = IF Verdict(c) = "ready"
                   THEN [drain[y] EXCEPT !.at = "execute", !.executed = @ + 1]
                   ELSE [drain[y] EXCEPT !.at = "settle", !.parked = @ + 1, !.verdict = Verdict(c)]]
  BY DEF Prepare
<1> DEFINE pass == IF Verdict(c) = "ready"
                   THEN [drain[y] EXCEPT !.at = "execute", !.executed = @ + 1]
                   ELSE [drain[y] EXCEPT !.at = "settle", !.parked = @ + 1, !.verdict = Verdict(c)]
<1>3. Verdict(c) = "ready" \/ Verdict(c) \in Dispositions
  BY <1>1 DEF Verdict, Dispositions, QueueInv, RestInv
<1>4. drain[y].at = "prepare" /\ "waiting" \in Dispositions
  BY DEF Prepare, Dispositions
<1>5. GoodPass(pass)
  BY <1>1, <1>3, <1>4, PreparedIsGood
<1>6. drain' = [drain EXCEPT ![y] = pass]
  BY <1>2
<1> HIDE DEF pass
<1>7. PassesInv'
  BY <1>5, <1>6, PutPass DEF QueueInv
<1> QED BY <1>7 DEF Prepare, QueueInv, RowsInv, RestInv

LEMMA ExecuteStep == ASSUME QueueInv, NEW y \in Cycles, Execute(y) PROVE QueueInv'
<1>1. PICK v \in Dispositions, turn \in BOOLEAN :
        drain' = [drain EXCEPT ![y].at = "settle", ![y].verdict = v,
                               ![y].executed = IF turn THEN Limit ELSE @]
  BY DEF Execute
<1>2. PICK n \in {Limit, drain[y].executed} :
        drain' = [drain EXCEPT ![y] =
                    [drain[y] EXCEPT !.at = "settle", !.verdict = v, !.executed = n]]
  BY <1>1 DEF QueueInv, PassesInv
<1>3. PassesInv'
  BY <1>2, ExecutedIsGood, PutPass DEF QueueInv, PassesInv
<1> QED BY <1>3 DEF Execute, QueueInv, RowsInv, RestInv

LEMMA SettleStep == ASSUME QueueInv, NEW y \in Cycles, Settle(y) PROVE QueueInv'
<1>1. GoodPass(drain[y]) /\ drain[y].command \subseteq Commands
  BY DEF QueueInv, PassesInv, GoodPass, Passes
<1>2. PICK c \in Commands :
        command' = IF command[c].claim = y
                   THEN [command EXCEPT ![c] = Settled(@, drain[y].verdict)]
                   ELSE command
  BY <1>1 DEF Settle
<1>3. RowsInv'
  <2>1. CASE command[c].claim = y
    <3>1. GoodRow(command[c]) /\ command[c].status = "running"
      BY <2>1 DEF QueueInv, RowsInv, GoodRow
    <3>2. command' = [command EXCEPT ![c] = Settled(command[c], drain[y].verdict)]
      BY <1>2, <2>1 DEF QueueInv, RowsInv
    <3> QED BY <3>1, <3>2, SettledIsGood, PutRow DEF QueueInv
  <2>2. CASE command[c].claim # y
    BY <1>2, <2>2 DEF QueueInv, RowsInv
  <2> QED BY <2>1, <2>2
<1>4. drain' = [drain EXCEPT ![y] =
                  [drain[y] EXCEPT !.at = "claim", !.command = {}, !.verdict = "none"]]
  BY DEF Settle, QueueInv, PassesInv
<1>5. PassesInv'
  BY <1>1, <1>4, AgainIsGood, PutPass DEF QueueInv
<1> QED BY <1>3, <1>5 DEF Settle, QueueInv, RestInv

LEMMA QueueInvStep == ASSUME QueueInv, NEW y \in Cycles, QueueStep(y) PROVE QueueInv'
<1>1. CASE EndPass(y)
  BY <1>1, StopStep DEF EndPass
<1> QED
  BY <1>1, ClaimStep, CloseStep, PrepareStep, ExecuteStep, SettleStep DEF QueueStep

-----------------------------------------------------------------------------
(* The steps of the cycle *)

\* Every step of the queue keeps the cycle's part, and the other way round.
LEMMA CycleQueueStep == ASSUME QueueInv, NEW y \in Cycles, CycleStep(y) PROVE QueueInv'
<1>1. CASE Start(y) \/ Heartbeat(y) \/ LeaseLost(y) \/ Complete(y) \/ Release(y)
  BY <1>1 DEF Start, Heartbeat, LeaseLost, Complete, Release, queueVars,
     QueueInv, RowsInv, PassesInv, RestInv
<1>2. CASE Work(y)
  BY <1>2, QueueInvStep DEF Work
<1>3. CASE StagesSucceed(y)
  <2>1. PassesInv'
    BY <1>3, NoPassIsGood, PutPass DEF StagesSucceed, StartPass, QueueInv
  <2> QED BY <1>3, <2>1 DEF StagesSucceed, QueueInv, RowsInv, RestInv
<1>4. CASE Deadline(y)
  <2>1. Draining(y) \in BOOLEAN
    BY DEF Draining
  <2>2. drain' = [drain EXCEPT ![y] = [drain[y] EXCEPT !.aborted = Draining(y)]]
    BY <1>4 DEF Deadline, QueueInv, PassesInv
  <2>3. PassesInv'
    BY <2>1, <2>2, AgainIsGood, PutPass DEF QueueInv, PassesInv
  <2> QED BY <1>4, <2>3 DEF Deadline, QueueInv, RowsInv, RestInv
<1>5. CASE StageFails(y) \/ Dies(y)
  BY <1>5, StopStep DEF StageFails, Dies
<1> QED BY <1>1, <1>2, <1>3, <1>4, <1>5 DEF CycleStep

\* A fenced write of the owner's gives its own lease another owner or none, and
\* leaves another cycle's lease alone.
LEMMA FreeingStep ==
    ASSUME LeaseInv, NEW y \in Cycles, Working(y), Goto(y, "idle"),
           Fenced(y, Freed) \/ Fenced(y, Forgotten),
           UNCHANGED punctual, deaths' \in 0..MaxDeaths
    PROVE  LeaseInv'
<1>1. cycle' \in [Cycles -> {"idle", "ahead", "commands", "retained"}]
  BY DEF LeaseInv, Goto
<1>2. cycle'[y] = "idle" /\ \A z \in Cycles \ {y} : cycle'[z] = cycle[z]
  BY DEF LeaseInv, Goto
<1>3. punctual => lease.owner = y /\ \A z \in Cycles \ {y} : ~Working(z)
  BY DEF LeaseInv
<1>4. CASE lease.owner = y
  <2>1. lease' \in [owner: Claims, fresh: BOOLEAN] /\ lease'.owner \notin Cycles
    <3>1. CASE lease' = Freed
      BY <3>1, Names DEF Freed, Claims
    <3>2. CASE lease' = [lease EXCEPT !.owner = "gone"]
      BY <3>2, Names DEF LeaseInv, Claims
    <3> QED BY <1>4, <3>1, <3>2 DEF Fenced, Forgotten
  <2> QED BY <1>1, <1>2, <1>3, <2>1 DEF LeaseInv, Working
<1>5. CASE lease.owner # y
  <2>1. lease' = lease
    BY <1>5 DEF Fenced
  <2> QED BY <1>1, <1>2, <1>3, <1>5, <2>1 DEF LeaseInv, Working
<1> QED BY <1>4, <1>5

LEMMA LeaseInvStep == ASSUME LeaseInv, NEW y \in Cycles, CycleStep(y) PROVE LeaseInv'
<1>1. CASE Start(y)
  <2>1. punctual => lease.owner = "nobody" \/ lease.owner \notin Cycles
    BY <1>1 DEF Start, LeaseInv
  <2>2. punctual => \A z \in Cycles : ~Working(z)
    BY <1>1, <2>1, Names DEF Start, LeaseInv
  <2> QED BY <1>1, <2>2 DEF Start, LeaseInv, Working, Goto, Claims
<1>2. CASE Heartbeat(y)
  BY <1>2 DEF Heartbeat, Renewed, LeaseInv, Working
<1>3. CASE StagesSucceed(y)
  BY <1>3 DEF StagesSucceed, Renewed, LeaseInv, Working, Goto
<1>4. CASE LeaseLost(y)
  BY <1>4 DEF LeaseLost, LeaseInv, Working, Goto
<1>5. CASE Work(y)
  BY <1>5 DEF Work, cycleVars, LeaseInv, Working
<1>6. CASE Deadline(y)
  BY <1>6 DEF Deadline, Fenced, Renewed, LeaseInv, Working, Goto
<1>7. CASE StageFails(y) \/ Complete(y) \/ Release(y)
  BY <1>7, FreeingStep DEF StageFails, Complete, Release, Working, LeaseInv
<1>8. CASE Dies(y)
  <2>1. deaths' \in 0..MaxDeaths
    BY <1>8, CycleAssumption DEF Dies, LeaseInv
  <2> QED BY <1>8, <2>1, FreeingStep DEF Dies
<1> QED
  BY <1>1, <1>2, <1>3, <1>4, <1>5, <1>6, <1>7, <1>8 DEF CycleStep

LEMMA AgingStep == ASSUME LeaseInv, LeaseAges PROVE LeaseInv'
BY Names DEF LeaseAges, LeaseInv, Working

LEMMA MaintenanceInvStep == MaintenanceInv /\ [MaintenanceNext]_maintenanceVars => MaintenanceInv'
<1> SUFFICES ASSUME MaintenanceInv, [MaintenanceNext]_maintenanceVars PROVE MaintenanceInv'
  OBVIOUS
<1>1. CASE UNCHANGED maintenanceVars
  BY <1>1 DEF maintenanceVars, queueVars, cycleVars, MaintenanceInv, QueueInv, RowsInv,
     PassesInv, RestInv, LeaseInv, Working
<1>2. CASE \E y \in Cycles : CycleStep(y)
  BY <1>2, CycleQueueStep, LeaseInvStep DEF MaintenanceInv
<1>3. ASSUME UNCHANGED cycleVars PROVE LeaseInv'
  BY <1>3 DEF cycleVars, MaintenanceInv, LeaseInv, Working
<1>4. CASE \E c \in Commands : RowStep(c) /\ UNCHANGED cycleVars
  BY <1>3, <1>4, RowInvStep DEF MaintenanceInv
<1>5. CASE \E g \in Generations : SubjectChanges(g) /\ UNCHANGED cycleVars
  BY <1>3, <1>5, SubjectStep DEF MaintenanceInv
<1>6. CASE LeaseAges
  BY <1>6, AgingStep DEF LeaseAges, MaintenanceInv, queueVars, QueueInv, RowsInv, PassesInv, RestInv
<1> QED BY <1>1, <1>2, <1>4, <1>5, <1>6 DEF MaintenanceNext

LEMMA MaintenanceInvInit == MaintenanceInit => MaintenanceInv
<1> SUFFICES ASSUME MaintenanceInit PROVE MaintenanceInv
  OBVIOUS
<1>1. NoRow \in Rows /\ NoPass \in Passes
  BY NoRowIsGood, NoPassIsGood DEF GoodRow, GoodPass
<1>2. QueueInv
  BY <1>1, NoRowIsGood, NoPassIsGood, QueueAssumption
     DEF MaintenanceInit, QueueInit, QueueInv, RowsInv, PassesInv, RestInv
<1>3. LeaseInv
  BY Names, CycleAssumption DEF MaintenanceInit, LeaseInv, Freed, Claims, Working
<1> QED BY <1>2, <1>3 DEF MaintenanceInv

-----------------------------------------------------------------------------
(* The theorems *)

\* The inductive invariant of the cycle and its queue
\* (maintenance-cycle-service.ts, operator-command-queue.ts).
THEOREM MaintenanceInvariance == MaintenanceSpec => []MaintenanceInv
BY MaintenanceInvInit, MaintenanceInvStep, PTL DEF MaintenanceSpec

\* Every row, pass and lease keeps its type.
THEOREM MaintenanceTypes == MaintenanceSpec => []CycleTypeOK
<1>1. MaintenanceInv => CycleTypeOK
  BY QueueInvTypes DEF MaintenanceInv, LeaseInv, CycleTypeOK
<1> QED BY <1>1, MaintenanceInvariance, PTL

\* Work that outlived its stage's deadline stays under the lease: with punctual
\* heartbeats no two cycles of any number have work running at once.
THEOREM WorkIsGuarded == MaintenanceSpec => []LeaseGuardsWork
<1>1. MaintenanceInv => LeaseGuardsWork
  BY DEF MaintenanceInv, LeaseInv, LeaseGuardsWork
<1> QED BY <1>1, MaintenanceInvariance, PTL

\* However claims expire and settle late, no command spends more attempts than
\* its budget, and no row waits that can only be closed.
THEOREM BudgetsHold == MaintenanceSpec => []AttemptsInBudget
<1>1. MaintenanceInv => AttemptsInBudget
  BY QueueInvTypes DEF MaintenanceInv
<1> QED BY <1>1, MaintenanceInvariance, PTL

\* A fresh lease leaves its owner only by a step with which the owner's work ends.
THEOREM LeasesAreGivenUp == MaintenanceSpec => LeaseIsTheOwners
<1> DEFINE GivenUp(y) == lease.fresh /\ lease.owner = y /\ lease'.owner # y
                            => Working(y) /\ ~Working(y)'
<1>1. ASSUME MaintenanceInv, [MaintenanceNext]_maintenanceVars, NEW y \in Cycles
      PROVE  GivenUp(y)
  <2>1. CASE \E z \in Cycles : CycleStep(z)
    <3>1. PICK z \in Cycles : CycleStep(z)
      BY <2>1
    <3>2. CASE Start(z)
      BY <1>1, <3>2, Names DEF Start
    <3>3. CASE Heartbeat(z) \/ StagesSucceed(z) \/ LeaseLost(z) \/ Work(z) \/ Deadline(z)
      BY <1>1, <3>3 DEF Heartbeat, StagesSucceed, LeaseLost, Work, Deadline, cycleVars, Fenced,
         Renewed, MaintenanceInv, LeaseInv
    <3>4. CASE StageFails(z) \/ Complete(z) \/ Release(z) \/ Dies(z)
      <4>1. lease.owner # z => lease' = lease
        BY <3>4 DEF StageFails, Complete, Release, Dies, Fenced
      <4>2. Working(z) /\ ~Working(z)'
        BY <1>1, <3>4 DEF StageFails, Complete, Release, Dies, Goto, Working, MaintenanceInv, LeaseInv
      <4> QED BY <4>1, <4>2
    <3> QED BY <3>1, <3>2, <3>3, <3>4 DEF CycleStep
  <2>2. CASE lease'.owner = lease.owner
    BY <2>2
  <2>3. CycleStep(y) \/ (\E z \in Cycles : CycleStep(z)) \/ lease'.owner = lease.owner
    BY <1>1 DEF MaintenanceNext, LeaseAges, cycleVars, maintenanceVars, MaintenanceInv, LeaseInv
  <2> QED BY <2>1, <2>2, <2>3
<1>2. MaintenanceInv /\ [MaintenanceNext]_maintenanceVars
        => [\A y \in Cycles : GivenUp(y)]_maintenanceVars
  BY <1>1
<1> QED BY <1>2, MaintenanceInvariance, PTL DEF MaintenanceSpec, LeaseIsTheOwners

\* A recorded success is never undone by a late answer, and only the operator
\* brings back what was given up.
THEOREM OutcomesStay == MaintenanceSpec => OutcomesAreFinal
<1> DEFINE Final(c) == /\ command[c].status = "succeeded" => command'[c] = command[c]
                       /\ command[c].status = "abandoned" /\ command'[c] # command[c] => Requeue(c)
<1>1. ASSUME QueueInv, NEW y \in Cycles, QueueStep(y) \/ Abandon(y), NEW c \in Commands
      PROVE  command[c].status \in {"succeeded", "abandoned"} => command'[c] = command[c]
  <2>1. command[c].claim \in Cycles => command[c].status = "running"
    BY <1>1 DEF QueueInv, RowsInv, GoodRow
  <2>2. CASE EndPass(y) \/ Prepare(y) \/ Execute(y)
    BY <2>2 DEF EndPass, Prepare, Execute
  <2>3. CASE Claim(y) \/ CloseExhausted(y)
    <3>1. PICK d \in Commands : /\ command[d].status \in {"queued", "waiting", "running"}
                                /\ \A e \in Commands \ {d} : command'[e] = command[e]
      BY <1>1, <2>3 DEF Claim, CloseExhausted, Candidates, Eligible, QueueInv, RowsInv
    <3> QED BY <3>1
  <2>4. CASE Settle(y)
    BY <1>1, <2>1, <2>4 DEF Settle, QueueInv, RowsInv
  <2>5. CASE Abandon(y)
    BY <1>1, <2>1, <2>5 DEF Abandon
  <2> QED BY <1>1, <2>2, <2>3, <2>4, <2>5 DEF QueueStep
<1>2. ASSUME MaintenanceInv, [MaintenanceNext]_maintenanceVars, NEW c \in Commands
      PROVE  Final(c)
  <2>1. CASE \E y \in Cycles : CycleStep(y)
    <3>1. PICK y \in Cycles : CycleStep(y)
      BY <2>1
    <3>2. QueueStep(y) \/ Abandon(y) \/ UNCHANGED command
      BY <3>1 DEF CycleStep, Start, Heartbeat, StagesSucceed, LeaseLost, Work, Deadline,
         StageFails, Complete, Release, Dies, queueVars
    <3> QED BY <1>1, <1>2, <3>2 DEF MaintenanceInv
  <2>2. CASE \E d \in Commands : RowStep(d)
    <3>1. PICK d \in Commands : RowStep(d)
      BY <2>2
    <3>2. CASE d = c
      BY <1>2, <3>1, <3>2 DEF RowStep, Enqueue, BecomeDue, ClaimExpires, Requeue
    <3>3. CASE d # c
      BY <1>2, <3>1, <3>3 DEF RowStep, Enqueue, BecomeDue, ClaimExpires, Requeue,
         MaintenanceInv, QueueInv, RowsInv
    <3> QED BY <3>2, <3>3
  <2>3. CASE UNCHANGED command
    BY <2>3
  <2>4. \/ \E y \in Cycles : CycleStep(y)
        \/ \E d \in Commands : RowStep(d)
        \/ UNCHANGED command
    BY <1>2 DEF MaintenanceNext, LeaseAges, SubjectChanges, queueVars, maintenanceVars
  <2> QED BY <2>1, <2>2, <2>3, <2>4
<1>3. MaintenanceInv /\ [MaintenanceNext]_maintenanceVars => [\A c \in Commands : Final(c)]_queueVars
  BY <1>2
<1> QED BY <1>3, MaintenanceInvariance, PTL DEF MaintenanceSpec, OutcomesAreFinal

=============================================================================
